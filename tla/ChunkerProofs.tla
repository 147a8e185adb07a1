--------------------------- MODULE ChunkerProofs ----------------------------
(***************************************************************************)
(* Proofs about the two chunkers, chunk_document of direct sync and        *)
(* structural_parse of the embedding stage, for texts of any length, lines *)
(* of any size and every value of their limits.                            *)
(*                                                                         *)
(* Each of the loops has an invariant: Bounded and Fits for what is split, *)
(* Reading for the Markdown parser and ReadTo for structural_parse.  They  *)
(* say which lines wait, which have become blocks or chunks, and under     *)
(* which heading; induction over the lines gives what the properties of a  *)
(* text ask for.                                                           *)
(***************************************************************************)
EXTENDS AlgorithmsProofs, SequenceTheorems

-----------------------------------------------------------------------------
(* Lists, and the tokens of lines.                                          *)

(* An entry of a list is in its set.                                        *)
LEMMA InSeq ==
  ASSUME NEW X, NEW s \in Seq(X), NEW i \in 1 .. Len(s)
  PROVE  s[i] \in ToSet(s) /\ s[i] \in X
BY DEF ToSet

(* What is in the set of a list is one of its entries.                      *)
LEMMA OfSeq ==
  ASSUME NEW X, NEW s \in Seq(X), NEW y \in ToSet(s)
  PROVE  y \in X /\ \E i \in 1 .. Len(s) : y = s[i]
BY DEF ToSet

(* The sets of lists that are joined, extended, short or empty.             *)
LEMMA SetOfBoth ==
  ASSUME NEW X, NEW s \in Seq(X), NEW r \in Seq(X)
  PROVE  ToSet(s \o r) = ToSet(s) \cup ToSet(r)
<1>1. s \o r \in Seq(X) /\ Len(s \o r) = Len(s) + Len(r)
  OBVIOUS
<1>2. ASSUME NEW y \in ToSet(s \o r) PROVE y \in ToSet(s) \cup ToSet(r)
  <2>1. PICK i \in 1 .. Len(s \o r) : y = (s \o r)[i]
    BY <1>1, OfSeq
  <2>2. CASE i <= Len(s)
    <3>1. i \in 1 .. Len(s) /\ y = s[i]
      BY <2>1, <2>2
    <3> QED BY <3>1, InSeq
  <2>3. CASE i > Len(s)
    <3>1. i - Len(s) \in 1 .. Len(r) /\ y = r[i - Len(s)]
      BY <1>1, <2>1, <2>3
    <3> QED BY <3>1, InSeq
  <2> QED BY <2>2, <2>3
<1>3. ASSUME NEW y \in ToSet(s) PROVE y \in ToSet(s \o r)
  <2>1. PICK i \in 1 .. Len(s) : y = s[i]
    BY OfSeq
  <2>2. i \in 1 .. Len(s \o r) /\ y = (s \o r)[i]
    BY <1>1, <2>1
  <2> QED BY <1>1, <2>2, InSeq
<1>4. ASSUME NEW y \in ToSet(r) PROVE y \in ToSet(s \o r)
  <2>1. PICK i \in 1 .. Len(r) : y = r[i]
    BY OfSeq
  <2>2. i + Len(s) \in 1 .. Len(s \o r) /\ y = (s \o r)[i + Len(s)]
    BY <1>1, <2>1
  <2> QED BY <1>1, <2>2, InSeq
<1> QED BY <1>2, <1>3, <1>4

LEMMA SetOfAppend ==
  ASSUME NEW X, NEW s \in Seq(X), NEW e \in X
  PROVE  ToSet(Append(s, e)) = ToSet(s) \cup {e}
<1>1. Append(s, e) \in Seq(X) /\ Len(Append(s, e)) = Len(s) + 1
  OBVIOUS
<1>2. ASSUME NEW y \in ToSet(Append(s, e)) PROVE y \in ToSet(s) \cup {e}
  <2>1. PICK i \in 1 .. Len(s) + 1 : y = Append(s, e)[i]
    BY <1>1, OfSeq
  <2>2. CASE i <= Len(s)
    <3>1. i \in 1 .. Len(s) /\ y = s[i]
      BY <2>1, <2>2
    <3> QED BY <3>1, InSeq
  <2>3. CASE i > Len(s)
    BY <1>1, <2>1, <2>3
  <2> QED BY <2>2, <2>3
<1>3. ASSUME NEW y \in ToSet(s) PROVE y \in ToSet(Append(s, e))
  <2>1. PICK i \in 1 .. Len(s) : y = s[i]
    BY OfSeq
  <2>2. i \in 1 .. Len(s) + 1 /\ y = Append(s, e)[i]
    BY <1>1, <2>1
  <2> QED BY <1>1, <2>2, InSeq
<1>4. e \in ToSet(Append(s, e))
  <2>1. Len(s) + 1 \in 1 .. Len(s) + 1 /\ e = Append(s, e)[Len(s) + 1]
    OBVIOUS
  <2> QED BY <1>1, <2>1, InSeq
<1> QED BY <1>2, <1>3, <1>4

LEMMA SetOfFew ==
  /\ ToSet(<<>>) = {}
  /\ \A e : ToSet(<<e>>) = {e}
  /\ \A d, e : ToSet(<<d, e>>) = {d, e}
<1>1. ToSet(<<>>) = {}
  BY DEF ToSet
<1>2. ASSUME NEW e PROVE ToSet(<<e>>) = {e}
  BY DEF ToSet
<1>3. ASSUME NEW d, NEW e PROVE ToSet(<<d, e>>) = {d, e}
  <2> DEFINE s == <<d, e>>
  <2>1. DOMAIN s = 1 .. 2 /\ s[1] = d /\ s[2] = e
    OBVIOUS
  <2>2. ToSet(s) = {s[i] : i \in 1 .. 2}
    BY <2>1 DEF ToSet
  <2>3. 1 .. 2 = {1, 2}
    OBVIOUS
  <2> HIDE DEF s
  <2>4. {s[i] : i \in {1, 2}} = {s[1], s[2]}
    OBVIOUS
  <2>5. ToSet(s) = {d, e}
    BY <2>1, <2>2, <2>3, <2>4
  <2> QED BY <2>5 DEF s
<1> QED
  BY <1>1, <1>2, <1>3

LEMMA SetOfSome ==
  ASSUME NEW X, NEW s \in Seq(X)
  PROVE  (s = <<>> <=> ToSet(s) = {}) /\ (s # <<>> => Len(s) >= 1 /\ s[1] \in ToSet(s) /\ s[Len(s)] \in ToSet(s))
<1>1. CASE s = <<>>
  <2>1. ToSet(s) = {}
    BY <1>1, SetOfFew, Zenon
  <2> QED BY <1>1, <2>1
<1>2. CASE s # <<>>
  <2>1. Len(s) >= 1 /\ 1 \in 1 .. Len(s) /\ Len(s) \in 1 .. Len(s)
    BY <1>2
  <2> QED BY <1>2, <2>1, InSeq
<1> QED
  BY <1>1, <1>2

(* A comprehension keeps the entries that its condition says.               *)
LEMMA OnlySet ==
  ASSUME NEW X, NEW list \in Seq(X), NEW S
  PROVE  Only(list, S) \in Seq(X) /\ ToSet(Only(list, S)) = ToSet(list) \cap S
<1> DEFINE F == OnlyLoop(list, S)
           N == Len(list)
           T == {n \in 0 .. N : ToSet(F[n]) = {list[i] : i \in 1 .. n} \cap S}
<1>1. /\ Only(list, S) = F[N] /\ F \in [0 .. N -> Seq(X)] /\ F[0] = <<>>
      /\ \A n \in 1 .. N : F[n] = IF list[n] \in S THEN Append(F[n - 1], list[n]) ELSE F[n - 1]
  BY OnlyLoopIs
<1> HIDE DEF F
<1>2. 0 \in T
  <2>1. ToSet(F[0]) = {}
    BY <1>1, SetOfFew
  <2> QED BY <2>1
<1>3. ASSUME NEW n \in 1 .. N, n - 1 \in T PROVE n \in T
  <2>0. n - 1 \in 0 .. N /\ list[n] \in X
    OBVIOUS
  <2>1. /\ ToSet(F[n - 1]) = {list[i] : i \in 1 .. n - 1} \cap S /\ F[n - 1] \in Seq(X)
        /\ list[n] \in X
    <3>1. F[n - 1] \in Seq(X)
      BY <1>1, <2>0
    <3>2. ToSet(F[n - 1]) = {list[i] : i \in 1 .. n - 1} \cap S
      BY <1>3
    <3> QED BY <2>0, <3>1, <3>2
  <2>2. {list[i] : i \in 1 .. n} = {list[i] : i \in 1 .. n - 1} \cup {list[n]}
    OBVIOUS
  <2>3. CASE list[n] \in S
    <3>1. F[n] = Append(F[n - 1], list[n])
      BY <1>1, <2>3
    <3>2. ToSet(F[n]) = ToSet(F[n - 1]) \cup {list[n]}
      BY <2>1, <3>1, SetOfAppend
    <3> QED BY <2>1, <2>2, <2>3, <3>2
  <2>4. CASE list[n] \notin S
    <3>1. F[n] = F[n - 1]
      BY <1>1, <2>4
    <3> QED BY <2>1, <2>2, <2>4, <3>1
  <2> QED BY <2>3, <2>4
<1>4. 0 .. N \subseteq T
  <2> HIDE DEF T, N
  <2>0. N \in Nat
    BY DEF N
  <2> QED BY <2>0, <1>2, <1>3, LoopInduction
<1>5. N \in T /\ N \in 0 .. N
  BY <1>4
<1>6. ToSet(F[N]) = {list[i] : i \in 1 .. N} \cap S
  BY <1>5
<1>7. ToSet(list) = {list[i] : i \in 1 .. N}
  BY DEF ToSet
<1> QED
  BY <1>1, <1>5, <1>6, <1>7

(* The loop of Chained.                                                     *)
ChainLoop(lists) ==
  CHOOSE chain : chain = [n \in 0 .. Len(lists) |->
    IF n = 0 THEN <<>> ELSE chain[n - 1] \o lists[n]]

LEMMA ChainLoopIs ==
  ASSUME NEW X, NEW lists \in Seq(Seq(X))
  PROVE  /\ Chained(lists) = ChainLoop(lists)[Len(lists)]
         /\ ChainLoop(lists) \in [0 .. Len(lists) -> Seq(X)]
         /\ ChainLoop(lists)[0] = <<>>
         /\ \A n \in 1 .. Len(lists) : ChainLoop(lists)[n] = ChainLoop(lists)[n - 1] \o lists[n]
<1> DEFINE N == Len(lists)
           Def(f) == [n \in 0 .. Len(lists) |-> IF n = 0 THEN <<>> ELSE f[n - 1] \o lists[n]]
           step == [n \in 1 .. N |-> [s \in Seq(X) |-> s \o lists[n]]]
           F == ChainLoop(lists)
<1>1. Chained(lists) = F[Len(lists)]
  BY DEF Chained, ChainLoop
<1>2. IsLoop(N, Seq(X), <<>>, step)
  <2>1. \A n \in 1 .. N : lists[n] \in Seq(X)
    OBVIOUS
  <2>2. \A n \in 1 .. N : \A s \in Seq(X) : s \o lists[n] \in Seq(X)
    BY <2>1
  <2> QED BY <2>2 DEF IsLoop
<1>3. \E f : f = Def(f)
  <2>0. PICK f : Computes(f, N, Seq(X), <<>>, step)
    <3> HIDE DEF step, N
    <3> QED BY <1>2, LoopExists
  <2>1. /\ f \in [0 .. N -> Seq(X)] /\ f[0] = <<>>
        /\ \A n \in 1 .. N : f[n] = step[n][f[n - 1]]
    <3> HIDE DEF step, N
    <3> QED BY <2>0 DEF Computes
  <2>2. ASSUME NEW n \in 0 .. N PROVE f[n] = Def(f)[n]
    <3>1. CASE n = 0
      BY <2>1, <3>1
    <3>2. CASE n # 0
      <4>1. n \in 1 .. N /\ n - 1 \in 0 .. N
        BY <3>2
      <4> QED BY <2>1, <3>2, <4>1
    <3> QED BY <3>1, <3>2
  <2>3. f = Def(f)
    BY <2>1, <2>2
  <2> QED BY <2>3
<1>4. F = Def(F)
  BY <1>3, Zenon DEF ChainLoop
<1>5. F[0] = <<>> /\ \A n \in 1 .. N : F[n] = F[n - 1] \o lists[n]
  <2>1. ASSUME NEW f
        PROVE  Def(f)[0] = <<>> /\ \A n \in 1 .. N : Def(f)[n] = f[n - 1] \o lists[n]
    OBVIOUS
  <2> HIDE DEF F, Def
  <2> QED BY <1>4, <2>1
<1>6. \A n \in 0 .. N : F[n] \in Seq(X)
  <2>1. N \in Nat /\ F[0] \in Seq(X)
    BY <1>5
  <2>2. ASSUME NEW n \in 1 .. N, F[n - 1] \in Seq(X) PROVE F[n] \in Seq(X)
    <3> HIDE DEF F
    <3>1. lists[n] \in Seq(X)
      OBVIOUS
    <3>2. F[n - 1] \o lists[n] \in Seq(X)
      BY <2>2, <3>1
    <3> QED BY <1>5, <3>2
  <2> HIDE DEF F, N
  <2> QED BY <2>1, <2>2, LoopStays
<1>7. F \in [0 .. N -> Seq(X)]
  <2> HIDE DEF F
  <2>1. F = [n \in 0 .. N |-> F[n]]
    BY <1>4
  <2> QED BY <1>6, <2>1
<1> QED
  BY <1>1, <1>5, <1>7

(* Chained lists have the entries of all of them.                           *)
LEMMA ChainedSet ==
  ASSUME NEW X, NEW lists \in Seq(Seq(X))
  PROVE  /\ Chained(lists) \in Seq(X)
         /\ \A y : y \in ToSet(Chained(lists)) <=> \E k \in 1 .. Len(lists) : y \in ToSet(lists[k])
<1> DEFINE F == ChainLoop(lists)
           N == Len(lists)
           Ok(n) == \A y : y \in ToSet(F[n]) <=> \E k \in 1 .. n : y \in ToSet(lists[k])
           T == {n \in 0 .. N : Ok(n)}
<1>1. /\ Chained(lists) = F[N] /\ F \in [0 .. N -> Seq(X)] /\ F[0] = <<>>
      /\ \A n \in 1 .. N : F[n] = F[n - 1] \o lists[n]
  BY ChainLoopIs
<1> HIDE DEF F
<1>2. 0 \in T
  <2>1. ToSet(F[0]) = {}
    BY <1>1, SetOfFew
  <2> QED BY <2>1
<1>3. ASSUME NEW n \in 1 .. N, n - 1 \in T PROVE n \in T
  <2>0. n - 1 \in 0 .. N /\ lists[n] \in Seq(X)
    OBVIOUS
  <2>1. F[n - 1] \in Seq(X)
    BY <1>1, <2>0
  <2>2. \A y : y \in ToSet(F[n - 1]) <=> \E k \in 1 .. n - 1 : y \in ToSet(lists[k])
    BY <1>3
  <2>3. F[n] = F[n - 1] \o lists[n]
    BY <1>1
  <2>4. ToSet(F[n]) = ToSet(F[n - 1]) \cup ToSet(lists[n])
    BY <2>0, <2>1, <2>3, SetOfBoth
  <2>5. 1 .. n = (1 .. n - 1) \cup {n}
    OBVIOUS
  <2>6. Ok(n)
    BY <2>2, <2>4, <2>5
  <2>7. n \in 0 .. N
    OBVIOUS
  <2> HIDE DEF Ok, N
  <2> QED BY <2>6, <2>7
<1>4. 0 .. N \subseteq T
  <2> HIDE DEF T, N
  <2>0. N \in Nat
    BY DEF N
  <2> QED BY <2>0, <1>2, <1>3, LoopInduction
<1>5. N \in 0 .. N
  OBVIOUS
<1>6. Ok(N)
  BY <1>4, <1>5
<1> QED
  BY <1>1, <1>5, <1>6

(* One more list is chained behind the others.                              *)
LEMMA ChainedMore ==
  ASSUME NEW X, NEW lists \in Seq(Seq(X)), NEW l \in Seq(X)
  PROVE  Chained(Append(lists, l)) = Chained(lists) \o l
<1> DEFINE more == Append(lists, l)
           F == ChainLoop(lists)
           G == ChainLoop(more)
           N == Len(lists)
           T == {n \in 0 .. N : G[n] = F[n]}
<1>0. more \in Seq(Seq(X)) /\ Len(more) = N + 1 /\ N \in Nat /\ more[N + 1] = l
  OBVIOUS
<1>a. \A n \in 1 .. N : more[n] = lists[n]
  OBVIOUS
<1>1. /\ Chained(lists) = F[N] /\ F[0] = <<>>
      /\ \A n \in 1 .. N : F[n] = F[n - 1] \o lists[n]
  BY ChainLoopIs
<1> HIDE DEF more
<1>2. /\ Chained(more) = G[N + 1] /\ G[0] = <<>>
      /\ \A n \in 1 .. N + 1 : G[n] = G[n - 1] \o more[n]
  BY <1>0, ChainLoopIs
<1> HIDE DEF F, G
<1>3. 0 \in T
  BY <1>1, <1>2
<1>4. ASSUME NEW n \in 1 .. N, n - 1 \in T PROVE n \in T
  <2>1. G[n - 1] = F[n - 1]
    BY <1>4
  <2>2. n \in 1 .. N + 1
    BY <1>0
  <2>3. G[n] = F[n]
    BY <1>1, <1>2, <1>a, <2>1, <2>2
  <2> QED BY <2>3
<1>5. 0 .. N \subseteq T
  <2> HIDE DEF T, N
  <2> QED BY <1>0, <1>3, <1>4, LoopInduction
<1>6. G[N] = F[N]
  BY <1>5
<1>7. N + 1 \in 1 .. N + 1 /\ (N + 1) - 1 = N
  BY <1>0
<1>8. G[N + 1] = G[N] \o l
  BY <1>0, <1>2, <1>7
<1> QED
  BY <1>1, <1>2, <1>6, <1>8 DEF more

LEMMA ChainedNone ==
  ASSUME NEW X
  PROVE  Chained(<<>>) = <<>> /\ <<>> \in Seq(Seq(X))
<1>1. ASSUME NEW lists, lists = <<>> PROVE Chained(lists) = <<>> /\ lists \in Seq(Seq(X))
  <2>1. lists \in Seq(Seq(X)) /\ Len(lists) = 0
    BY <1>1
  <2>2. Chained(lists) = ChainLoop(lists)[0] /\ ChainLoop(lists)[0] = <<>>
    BY <2>1, ChainLoopIs
  <2> QED BY <2>1, <2>2
<1> QED
  BY <1>1

LEMMA ChainedFew ==
  ASSUME NEW X, NEW a \in Seq(X), NEW b \in Seq(X)
  PROVE  Chained(<<a>>) = a /\ Chained(<<a, b>>) = a \o b
<1>1. ASSUME NEW none, none = <<>> PROVE Chained(<<a>>) = a
  <2>1. none \in Seq(Seq(X)) /\ Append(none, a) = <<a>> /\ none \in Seq(X)
    BY <1>1
  <2>2. Chained(Append(none, a)) = Chained(none) \o a
    BY <2>1, ChainedMore
  <2>3. Chained(none) = none
    BY <1>1, ChainedNone
  <2>4. none \o a = a
    BY <1>1
  <2> QED BY <2>1, <2>2, <2>3, <2>4
<1>2. ASSUME NEW one, one = <<a>> PROVE Chained(<<a, b>>) = a \o b
  <2>1. one \in Seq(Seq(X)) /\ Append(one, b) = <<a, b>>
    <3> DEFINE Y == Seq(X)
    <3> HIDE DEF Y
    <3>1. a \in Y /\ b \in Y
      BY DEF Y
    <3>2. one \in Seq(Y) /\ Append(one, b) = <<a, b>>
      <4>1. <<a>> \in Seq(Y) /\ Len(<<a>>) = 1 /\ <<a>>[1] = a
        BY <3>1
      <4>2. Append(<<a>>, b) \in Seq(Y) /\ Len(Append(<<a>>, b)) = 2
        BY <3>1, <4>1
      <4>3. Append(<<a>>, b)[1] = a /\ Append(<<a>>, b)[2] = b
        BY <3>1, <4>1
      <4>4. <<a, b>> \in Seq(Y) /\ Len(<<a, b>>) = 2 /\ <<a, b>>[1] = a /\ <<a, b>>[2] = b
        BY <3>1
      <4>5. \A i \in 1 .. 2 : i = 1 \/ i = 2
        OBVIOUS
      <4>6. Append(<<a>>, b) = <<a, b>>
        BY <4>2, <4>3, <4>4, <4>5, SeqEqual
      <4> QED BY <1>2, <4>1, <4>6, Zenon
    <3> QED BY <3>2 DEF Y
  <2>2. Chained(Append(one, b)) = Chained(one) \o b
    BY <2>1, ChainedMore
  <2> QED BY <1>1, <1>2, <2>1, <2>2
<1> QED
  BY <1>1, <1>2

(* The tokens of a line, and those of some lines, line by line.             *)
Copies(tx, n) == [i \in 1 .. Size(tx[n]) |-> n]

Pieces(tx, lines) == [k \in DOMAIN lines |-> Copies(tx, lines[k])]

(* Only a blank line has no tokens.                                         *)
LEMMA SizeIs ==
  ASSUME NEW kind \in LineKind
  PROVE  Size(kind) \in Nat /\ (kind # "blank" => Size(kind) >= 1) /\ (kind = "blank" => Size(kind) = 0)
BY TextAssumption DEF Size

LEMMA CopiesIs ==
  ASSUME NEW tx \in Seq(LineKind), NEW n \in 1 .. Len(tx)
  PROVE  /\ Copies(tx, n) \in Seq({n}) /\ Len(Copies(tx, n)) = Size(tx[n])
         /\ ToSet(Copies(tx, n)) = IF tx[n] = "blank" THEN {} ELSE {n}
<1>0. tx[n] \in LineKind
  OBVIOUS
<1> DEFINE s == Copies(tx, n)
           z == Size(tx[n])
<1>1. z \in Nat /\ (tx[n] # "blank" => z >= 1) /\ (tx[n] = "blank" => z = 0)
  BY <1>0, SizeIs
<1> HIDE DEF z
<1>2. s = [i \in 1 .. z |-> n]
  BY DEF Copies, z
<1>3. s \in Seq({n}) /\ Len(s) = z /\ \A i \in 1 .. z : s[i] = n
  BY <1>1, <1>2
<1>4. DOMAIN s = 1 .. z
  BY <1>2
<1>5. CASE tx[n] = "blank"
  <2>1. ToSet(s) = {}
    BY <1>1, <1>4, <1>5 DEF ToSet
  <2> QED BY <1>3, <1>5, <2>1 DEF z
<1>6. CASE tx[n] # "blank"
  <2>1. ToSet(s) = {n}
    <3>1. 1 \in 1 .. z
      BY <1>1, <1>6
    <3> HIDE DEF s
    <3> QED BY <1>3, <1>4, <3>1 DEF ToSet
  <2> QED BY <1>3, <1>6, <2>1 DEF z
<1> QED
  BY <1>5, <1>6

LEMMA PiecesIs ==
  ASSUME NEW tx \in Seq(LineKind), NEW lines \in Seq(1 .. Len(tx))
  PROVE  /\ Pieces(tx, lines) \in Seq(Seq(1 .. Len(tx))) /\ Len(Pieces(tx, lines)) = Len(lines)
         /\ Tokens(tx, lines) = Chained(Pieces(tx, lines))
         /\ \A k \in 1 .. Len(lines) : Pieces(tx, lines)[k] = Copies(tx, lines[k])
<1> DEFINE X == 1 .. Len(tx)
<1>1. ASSUME NEW k \in 1 .. Len(lines) PROVE Copies(tx, lines[k]) \in Seq(X)
  <2>1. lines[k] \in X
    OBVIOUS
  <2>2. Copies(tx, lines[k]) \in Seq({lines[k]})
    BY <2>1, CopiesIs
  <2> HIDE DEF X
  <2>3. {lines[k]} \subseteq X
    BY <2>1
  <2> QED BY <2>2, <2>3
<1>2. DOMAIN lines = 1 .. Len(lines) /\ Len(lines) \in Nat
  OBVIOUS
<1> HIDE DEF X
<1>3. Pieces(tx, lines) = [k \in 1 .. Len(lines) |-> Copies(tx, lines[k])]
  BY <1>2 DEF Pieces
<1>4. Pieces(tx, lines) \in Seq(Seq(X)) /\ Len(Pieces(tx, lines)) = Len(lines)
  BY <1>1, <1>2, <1>3
<1>5. Tokens(tx, lines) = Chained(Pieces(tx, lines))
  BY DEF Tokens, Pieces, Copies
<1> QED
  BY <1>3, <1>4, <1>5 DEF X

(* The tokens of some lines are from those of them that are not blank.      *)
LEMMA TokensSet ==
  ASSUME NEW tx \in Seq(LineKind), NEW lines \in Seq(1 .. Len(tx))
  PROVE  /\ Tokens(tx, lines) \in Seq(1 .. Len(tx))
         /\ ToSet(Tokens(tx, lines)) = {n \in ToSet(lines) : tx[n] # "blank"}
<1> DEFINE P == Pieces(tx, lines)
           X == 1 .. Len(tx)
<1>1. /\ P \in Seq(Seq(X)) /\ Len(P) = Len(lines) /\ Tokens(tx, lines) = Chained(P)
      /\ \A k \in 1 .. Len(lines) : P[k] = Copies(tx, lines[k])
  BY PiecesIs
<1> HIDE DEF P
<1>2. /\ Chained(P) \in Seq(X)
      /\ \A y : y \in ToSet(Chained(P)) <=> \E k \in 1 .. Len(lines) : y \in ToSet(P[k])
  BY <1>1, ChainedSet
<1>3. \A k \in 1 .. Len(lines) : ToSet(P[k]) = IF tx[lines[k]] = "blank" THEN {} ELSE {lines[k]}
  <2>1. ASSUME NEW k \in 1 .. Len(lines) PROVE lines[k] \in X
    OBVIOUS
  <2> QED BY <1>1, <2>1, CopiesIs
<1>4. \A y : y \in ToSet(lines) <=> \E k \in 1 .. Len(lines) : y = lines[k]
  BY DEF ToSet
<1>5. \A y : y \in ToSet(Chained(P)) <=> y \in ToSet(lines) /\ tx[y] # "blank"
  <2>1. ASSUME NEW k \in 1 .. Len(lines), NEW y
        PROVE  y \in ToSet(P[k]) <=> y = lines[k] /\ tx[y] # "blank"
    BY <1>3
  <2> QED BY <1>2, <1>4, <2>1
<1>6. ToSet(Chained(P)) = {n \in ToSet(lines) : tx[n] # "blank"}
  BY <1>5
<1> QED
  BY <1>1, <1>2, <1>6

(* One more line adds its tokens.                                           *)
LEMMA TokensMore ==
  ASSUME NEW tx \in Seq(LineKind), NEW lines \in Seq(1 .. Len(tx)), NEW n \in 1 .. Len(tx)
  PROVE  /\ Tokens(tx, Append(lines, n)) = Tokens(tx, lines) \o Copies(tx, n)
         /\ Len(Tokens(tx, Append(lines, n))) = Len(Tokens(tx, lines)) + Size(tx[n])
         /\ Tokens(tx, <<n>>) = Copies(tx, n)
         /\ Tokens(tx, <<>>) = <<>>
<1> DEFINE X == 1 .. Len(tx)
<1>1. ASSUME NEW list \in Seq(X)
      PROVE  Tokens(tx, Append(list, n)) = Tokens(tx, list) \o Copies(tx, n)
  <2> DEFINE P == Pieces(tx, list)
             Q == Pieces(tx, Append(list, n))
             c == Copies(tx, n)
  <2>0. Append(list, n) \in Seq(X) /\ Len(Append(list, n)) = Len(list) + 1 /\ Len(list) \in Nat
        /\ Append(list, n)[Len(list) + 1] = n
    OBVIOUS
  <2>a. \A k \in 1 .. Len(list) : Append(list, n)[k] = list[k]
    OBVIOUS
  <2>1. /\ P \in Seq(Seq(X)) /\ Len(P) = Len(list) /\ Tokens(tx, list) = Chained(P)
        /\ \A k \in 1 .. Len(list) : P[k] = Copies(tx, list[k])
    BY PiecesIs
  <2>2. /\ Q \in Seq(Seq(X)) /\ Len(Q) = Len(list) + 1 /\ Tokens(tx, Append(list, n)) = Chained(Q)
        /\ \A k \in 1 .. Len(list) + 1 : Q[k] = Copies(tx, Append(list, n)[k])
    BY <2>0, PiecesIs
  <2>3. c \in Seq(X)
    <3>1. c \in Seq({n}) /\ {n} \subseteq X
      BY CopiesIs
    <3> HIDE DEF c, X
    <3> QED BY <3>1
  <2> HIDE DEF P, Q, c, X
  <2>4. Append(P, c) \in Seq(Seq(X)) /\ Len(Append(P, c)) = Len(list) + 1
    BY <2>1, <2>3
  <2>5. ASSUME NEW k \in 1 .. Len(list) + 1 PROVE Q[k] = Append(P, c)[k]
    <3>1. CASE k = Len(list) + 1
      <4>1. Q[k] = c
        BY <2>0, <2>2, <3>1 DEF c
      <4>2. Append(P, c)[k] = c
        BY <2>1, <3>1, <2>3
      <4> QED BY <4>1, <4>2
    <3>2. CASE k # Len(list) + 1
      <4>1. k \in 1 .. Len(list)
        BY <2>0, <3>2
      <4>2. Append(P, c)[k] = P[k]
        BY <2>1, <4>1, <2>3
      <4> QED BY <2>1, <2>2, <2>a, <4>1, <4>2
    <3> QED BY <3>1, <3>2
  <2>6. Q = Append(P, c)
    <3> DEFINE Y == Seq(X)
    <3> HIDE DEF Y
    <3>1. Q \in Seq(Y) /\ Append(P, c) \in Seq(Y)
      BY <2>2, <2>4 DEF Y
    <3> QED BY <2>2, <2>4, <2>5, <3>1, SeqEqual
  <2>7. Chained(Q) = Chained(P) \o c
    BY <2>1, <2>3, <2>6, ChainedMore
  <2> QED BY <2>1, <2>2, <2>7 DEF c
<1>2. ASSUME NEW none, none = <<>>
      PROVE  Tokens(tx, none) = <<>> /\ Tokens(tx, <<n>>) = Copies(tx, n)
  <2>1. none \in Seq(X) /\ Append(none, n) = <<n>> /\ Len(none) = 0
    BY <1>2
  <2>2. /\ Tokens(tx, none) = Chained(Pieces(tx, none))
        /\ Len(Pieces(tx, none)) = 0 /\ Pieces(tx, none) \in Seq(Seq(X))
    BY <2>1, PiecesIs
  <2>3. Pieces(tx, none) = <<>>
    <3> HIDE DEF X
    <3> QED BY <2>2
  <2>4. Tokens(tx, none) = <<>>
    BY <2>2, <2>3, ChainedNone
  <2>5. Tokens(tx, Append(none, n)) = Tokens(tx, none) \o Copies(tx, n)
    BY <1>1, <2>1
  <2>6. Copies(tx, n) \in Seq({n})
    BY CopiesIs
  <2>7. <<>> \o Copies(tx, n) = Copies(tx, n)
    BY <2>6
  <2> QED BY <2>1, <2>4, <2>5, <2>7
<1>3. Len(Tokens(tx, Append(lines, n))) = Len(Tokens(tx, lines)) + Size(tx[n])
  <2>1. Tokens(tx, lines) \in Seq(X)
    BY TokensSet
  <2>2. Copies(tx, n) \in Seq({n}) /\ Len(Copies(tx, n)) = Size(tx[n])
    BY CopiesIs
  <2>3. Tokens(tx, Append(lines, n)) = Tokens(tx, lines) \o Copies(tx, n)
    BY <1>1
  <2>a. {n} \subseteq X
    OBVIOUS
  <2> HIDE DEF X
  <2>b. Copies(tx, n) \in Seq(X)
    BY <2>2, <2>a, SeqMonotonic
  <2>4. Len(Tokens(tx, lines) \o Copies(tx, n)) = Len(Tokens(tx, lines)) + Len(Copies(tx, n))
    BY <2>1, <2>b, ConcatProperties
  <2> QED BY <2>2, <2>3, <2>4
<1>4. lines \in Seq(X)
  OBVIOUS
<1> QED
  BY <1>1, <1>2, <1>3, <1>4

-----------------------------------------------------------------------------
(* chunk_document: paragraphs that are split.                               *)

(* Least is the least of some numbers.                                      *)
LEMMA LeastIs ==
  ASSUME NEW S \in SUBSET Nat, S # {}
  PROVE  Least(S) \in S /\ \A m \in S : Least(S) <= m
BY LeastOfNat DEF Least

(* A product with a step of the loop, which may be negative: the overlap    *)
(* may be longer than what a heading leaves of a part.                      *)
LEMMA Times ==
  ASSUME NEW k \in Nat, NEW d \in Int
  PROVE  /\ k * d \in Int
         /\ d <= 0 => k * d <= 0
         /\ d >= 0 => k * d >= 0
         /\ d >= 1 => k * d >= k
         /\ (k + 1) * d = k * d + d
         /\ 0 * d = 0
OBVIOUS

(* Where the k-th part of a long paragraph ends, counted from 0.            *)
Reach(n, soft, k) == AtMost(k * (soft - Overlap) + soft, n)

LEMMA ReachIs ==
  ASSUME NEW n \in Nat, NEW soft \in Int, NEW k \in Nat
  PROVE  /\ Reach(n, soft, k) \in Int
         /\ Reach(n, soft, k) <= n
         /\ Reach(n, soft, k) <= k * (soft - Overlap) + soft
         /\ Reach(n, soft, k) < n => Reach(n, soft, k) = k * (soft - Overlap) + soft
         /\ k * (soft - Overlap) \in Int
<1> DEFINE d == soft - Overlap
<1>1. d \in Int
  BY ChunkerAssumption
<1>2. k * d \in Int
  BY <1>1, Times
<1> HIDE DEF d
<1>3. k * d + soft \in Int
  BY <1>2
<1> DEFINE p == k * d
<1> HIDE DEF p
<1>4. p \in Int /\ p + soft \in Int
  BY <1>2, <1>3 DEF p
<1>5. Reach(n, soft, k) = AtMost(p + soft, n)
  BY DEF Reach, p, d
<1>6. /\ AtMost(p + soft, n) \in Int /\ AtMost(p + soft, n) <= n /\ AtMost(p + soft, n) <= p + soft
      /\ AtMost(p + soft, n) < n => AtMost(p + soft, n) = p + soft
  BY <1>4 DEF AtMost
<1> QED
  BY <1>4, <1>5, <1>6 DEF p, d

(* The parts that end with the paragraph.                                   *)
Stops(n, soft) == {k \in 0 .. n : Reach(n, soft, k) = n}

(* SplitTokens in these words.                                              *)
LEMMA SplitIs ==
  ASSUME NEW tokens, NEW soft
  PROVE  SplitTokens(tokens, soft) =
           IF Stops(Len(tokens), soft) = {} THEN <<Forever>>
           ELSE [k \in 1 .. Least(Stops(Len(tokens), soft)) + 1 |->
                   SubSeq(tokens, (k - 1) * (soft - Overlap) + 1, Reach(Len(tokens), soft, k - 1))]
BY DEF SplitTokens, Stops, Reach

(* The split of a paragraph does not end when a part is no longer than the  *)
(* overlap.                                                                 *)
LEMMA SplitNever ==
  ASSUME NEW X, NEW tokens \in Seq(X), NEW soft \in Int, Len(tokens) > soft, soft <= Overlap
  PROVE  SplitTokens(tokens, soft) = <<Forever>>
<1> DEFINE n == Len(tokens)
<1>0. n \in Nat /\ Overlap \in Nat
  BY ChunkerAssumption
<1>1. ASSUME NEW k \in 0 .. n PROVE Reach(n, soft, k) # n
  <2>1. soft - Overlap \in Int /\ soft - Overlap <= 0 /\ k \in Nat
    BY <1>0
  <2>2. k * (soft - Overlap) <= 0 /\ k * (soft - Overlap) \in Int
    BY <2>1, Times
  <2>3. /\ Reach(n, soft, k) \in Int
        /\ Reach(n, soft, k) <= k * (soft - Overlap) + soft
    BY <1>0, <2>1, ReachIs
  <2> DEFINE p == k * (soft - Overlap)
  <2> HIDE DEF p
  <2>4. p <= 0 /\ p \in Int /\ Reach(n, soft, k) <= p + soft
    BY <2>2, <2>3 DEF p
  <2> QED BY <1>0, <2>3, <2>4
<1>2. Stops(n, soft) = {}
  BY <1>1 DEF Stops
<1> QED
  BY <1>2, SplitIs

(* Otherwise it ends, its parts are of the length they may have, and every  *)
(* token is in one of them.                                                 *)
LEMMA SplitParts ==
  ASSUME NEW X, NEW tokens \in Seq(X), NEW soft \in Int, Len(tokens) > soft, soft > Overlap
  PROVE  /\ SplitTokens(tokens, soft) \in Seq(Seq(X))
         /\ \A k \in 1 .. Len(SplitTokens(tokens, soft)) : Len(SplitTokens(tokens, soft)[k]) <= soft
         /\ \A y \in ToSet(tokens) : \E k \in 1 .. Len(SplitTokens(tokens, soft)) :
              y \in ToSet(SplitTokens(tokens, soft)[k])
<1> DEFINE n == Len(tokens)
           d == soft - Overlap
           K == Least(Stops(n, soft))
           parts == SplitTokens(tokens, soft)
<1>0. n \in Nat /\ Overlap \in Nat /\ d \in Int /\ d >= 1 /\ d <= soft /\ soft > 0
  BY ChunkerAssumption
<1> HIDE DEF n, d
<1>r. ASSUME NEW k \in Nat
      PROVE  /\ Reach(n, soft, k) \in Int /\ Reach(n, soft, k) <= n /\ Reach(n, soft, k) <= k * d + soft
             /\ Reach(n, soft, k) < n => Reach(n, soft, k) = k * d + soft
             /\ k * d \in Nat /\ k * d >= k /\ (k + 1) * d = k * d + d
  <2>1. /\ Reach(n, soft, k) \in Int /\ Reach(n, soft, k) <= n /\ Reach(n, soft, k) <= k * d + soft
        /\ Reach(n, soft, k) < n => Reach(n, soft, k) = k * d + soft
    BY <1>0, ReachIs DEF d
  <2>2. k * d \in Int /\ k * d >= 0 /\ k * d >= k /\ (k + 1) * d = k * d + d
    BY <1>0, Times
  <2> QED BY <2>1, <2>2
<1>1. n \in Stops(n, soft)
  <2>1. n * d >= n /\ n * d \in Nat
    BY <1>0, <1>r
  <2>2. Reach(n, soft, n) \in Int /\ Reach(n, soft, n) <= n
        /\ (Reach(n, soft, n) < n => Reach(n, soft, n) = n * d + soft)
    BY <1>0, <1>r
  <2> DEFINE p == n * d
  <2> HIDE DEF p
  <2>3. Reach(n, soft, n) = n
    BY <1>0, <2>1, <2>2 DEF p
  <2> QED BY <1>0, <2>3 DEF Stops
<1>2. K \in 0 .. n /\ Reach(n, soft, K) = n
  <2>1. Stops(n, soft) \in SUBSET Nat
    BY <1>0 DEF Stops
  <2>2. K \in Stops(n, soft)
    BY <1>1, <2>1, LeastIs
  <2> QED BY <2>2 DEF Stops
<1> HIDE DEF K
<1>3. parts = [k \in 1 .. K + 1 |-> SubSeq(tokens, (k - 1) * d + 1, Reach(n, soft, k - 1))]
  BY <1>1, SplitIs DEF n, d, K
<1>4. ASSUME NEW k \in 1 .. K + 1
      PROVE  /\ parts[k] \in Seq(X) /\ Len(parts[k]) <= soft
             /\ \A j \in 1 .. n : (k - 1) * d < j /\ j <= Reach(n, soft, k - 1) => tokens[j] \in ToSet(parts[k])
  <2> DEFINE p == (k - 1) * d
             e == Reach(n, soft, k - 1)
             part == SubSeq(tokens, p + 1, e)
  <2>1. k - 1 \in Nat
    BY <1>2
  <2>2. p \in Nat /\ e \in Int /\ e <= n /\ e <= p + soft
    BY <1>r, <2>1
  <2> HIDE DEF p, e
  <2>3. parts[k] = part
    BY <1>3 DEF p, e
  <2>4. \A i \in p + 1 .. e : i \in 1 .. n /\ tokens[i] \in X
    <3>1. ASSUME NEW i \in p + 1 .. e PROVE i \in 1 .. n
      BY <1>0, <2>2
    <3>2. ASSUME NEW i \in 1 .. n PROVE tokens[i] \in X
      BY DEF n
    <3> QED BY <3>1, <3>2
  <2>5. /\ part \in Seq(X)
        /\ Len(part) = IF p + 1 <= e THEN e - (p + 1) + 1 ELSE 0
        /\ \A i \in 1 .. e - (p + 1) + 1 : part[i] = tokens[p + 1 + i - 1]
    <3>1. p + 1 \in Int
      BY <2>2
    <3> QED BY <2>2, <2>4, <3>1, SubSeqProperties
  <2> HIDE DEF part
  <2>6. Len(part) <= soft
    BY <1>0, <2>2, <2>5
  <2>7. ASSUME NEW j \in 1 .. n, p < j, j <= e PROVE tokens[j] \in ToSet(part)
    <3>1. j - p \in 1 .. e - (p + 1) + 1 /\ j - p \in 1 .. Len(part)
      BY <2>2, <2>5, <2>7
    <3>2. p + 1 + (j - p) - 1 = j
      BY <2>2
    <3>3. part[j - p] = tokens[j]
      BY <2>5, <3>1, <3>2
    <3> QED BY <2>5, <3>1, <3>3, InSeq
  <2> QED BY <2>3, <2>5, <2>6, <2>7 DEF p, e
<1>5. parts \in Seq(Seq(X)) /\ Len(parts) = K + 1
  <2> HIDE DEF parts
  <2>1. K + 1 \in Nat
    BY <1>0, <1>2
  <2>2. parts \in [1 .. K + 1 -> Seq(X)]
    BY <1>3, <1>4
  <2> QED BY <2>1, <2>2
<1>6. ASSUME NEW j \in 1 .. n PROVE \E k \in 1 .. K + 1 : tokens[j] \in ToSet(parts[k])
  <2> DEFINE U == {k \in Nat : j <= Reach(n, soft, k)}
             k0 == Least(U)
  <2>1. K \in U
    BY <1>2, <1>0
  <2>2. k0 \in U /\ k0 <= K
    <3>1. U \in SUBSET Nat /\ U # {}
      BY <2>1
    <3> HIDE DEF U
    <3> QED BY <2>1, <3>1, LeastIs
  <2>a. \A m \in U : k0 <= m
    <3>1. U \in SUBSET Nat /\ U # {}
      BY <2>1
    <3> HIDE DEF U
    <3> QED BY <2>1, <3>1, LeastIs
  <2> HIDE DEF k0
  <2>3. k0 \in Nat /\ j <= Reach(n, soft, k0)
    BY <2>2
  <2>4. k0 * d < j
    <3>1. CASE k0 = 0
      <4>1. k0 * d = 0
        BY <3>1, <1>0, Times
      <4> QED BY <4>1
    <3>2. CASE k0 # 0
      <4> DEFINE m == k0 - 1
      <4>1. m \in Nat /\ m + 1 = k0 /\ ~(k0 <= m)
        BY <2>3, <3>2
      <4> HIDE DEF m
      <4>2. ~(j <= Reach(n, soft, m))
        BY <4>1, <2>a
      <4>3. /\ Reach(n, soft, m) \in Int /\ Reach(n, soft, m) <= n
            /\ Reach(n, soft, m) < n => Reach(n, soft, m) = m * d + soft
            /\ m * d \in Nat /\ k0 * d = m * d + d
        BY <4>1, <1>r
      <4> DEFINE q == m * d
                 e == Reach(n, soft, m)
                 z == k0 * d
      <4> HIDE DEF q, e, z
      <4>4. e \in Int /\ e < j /\ (e < n => e = q + soft) /\ q \in Nat /\ z = q + d
        BY <4>2, <4>3 DEF q, e, z
      <4>5. z < j
        BY <1>0, <4>4
      <4> QED BY <4>5 DEF z
    <3> QED BY <3>1, <3>2
  <2>5. k0 + 1 \in 1 .. K + 1 /\ (k0 + 1) - 1 = k0
    BY <1>0, <1>2, <2>2, <2>3
  <2>6. tokens[j] \in ToSet(parts[k0 + 1])
    BY <1>4, <2>3, <2>4, <2>5
  <2> QED BY <2>5, <2>6
<1>7. \A y \in ToSet(tokens) : \E k \in 1 .. K + 1 : y \in ToSet(parts[k])
  <2>1. ASSUME NEW y \in ToSet(tokens) PROVE \E j \in 1 .. n : y = tokens[j]
    BY OfSeq DEF n
  <2> QED BY <1>6, <2>1
<1> HIDE DEF parts
<1>8. \A k \in 1 .. Len(parts) : Len(parts[k]) <= soft
  BY <1>4, <1>5
<1> QED
  BY <1>5, <1>7, <1>8 DEF parts

(* What SplitProse keeps between two paragraphs.                            *)
Splitting(X) == [out : Seq(Seq(X)), paras : Seq(Seq(X)), tokens : Nat]

(* The three cases of a paragraph, as records.                              *)
LEMMA AddParaIs ==
  ASSUME NEW X, NEW st \in Splitting(X), NEW para \in Seq(X), NEW soft \in Int
  PROVE  /\ Len(para) > soft =>
              AddPara(st, para, soft) =
                [out |-> st.out \o (IF st.paras = <<>> THEN <<>> ELSE <<Joined(st.paras)>>)
                           \o SplitTokens(para, soft),
                 paras |-> <<>>, tokens |-> 0]
         /\ Len(para) <= soft /\ st.tokens + Len(para) > soft /\ st.paras # <<>> =>
              AddPara(st, para, soft) =
                [out |-> Append(st.out, Joined(st.paras)),
                 paras |-> <<Last(st.paras), para>>, tokens |-> Len(Last(st.paras)) + Len(para)]
         /\ Len(para) <= soft /\ (st.tokens + Len(para) <= soft \/ st.paras = <<>>) =>
              AddPara(st, para, soft) =
                [out |-> st.out, paras |-> Append(st.paras, para), tokens |-> st.tokens + Len(para)]
<1>1. Len(para) \in Nat /\ st.tokens \in Nat
  BY DEF Splitting
<1>2. [st EXCEPT !.paras = Append(@, para), !.tokens = @ + Len(para)] =
        [out |-> st.out, paras |-> Append(st.paras, para), tokens |-> st.tokens + Len(para)]
  <2> DEFINE A == Seq(Seq(X))
             a == Append(st.paras, para)
             t == st.tokens + Len(para)
  <2>1. st \in [out : A, paras : A, tokens : Nat]
    BY DEF Splitting
  <2> HIDE DEF A, a, t
  <2> DEFINE w == [st EXCEPT !.paras = a]
             v == [w EXCEPT !.tokens = t]
  <2>3. DOMAIN st = {"out", "paras", "tokens"}
    BY <2>1
  <2>4. w = [out |-> st.out, paras |-> a, tokens |-> st.tokens]
    BY <2>1
  <2> HIDE DEF w
  <2>5. v = [out |-> st.out, paras |-> a, tokens |-> t]
    BY <2>4
  <2>2. [st EXCEPT !.paras = a, !.tokens = t] = [out |-> st.out, paras |-> a, tokens |-> t]
    BY <2>5 DEF w
  <2> QED BY <2>2 DEF a, t
<1> HIDE DEF Splitting
<1>3. Len(para) > soft <=> ~(Len(para) <= soft)
  BY <1>1
<1>4. st.tokens + Len(para) > soft <=> ~(st.tokens + Len(para) <= soft)
  BY <1>1
<1>5. CASE Len(para) > soft
  BY <1>3, <1>5, Zenon DEF AddPara
<1>6. CASE Len(para) <= soft
  <2>1. CASE st.tokens + Len(para) > soft /\ st.paras # <<>>
    BY <1>3, <1>4, <1>6, <2>1, Zenon DEF AddPara
  <2>2. CASE ~(st.tokens + Len(para) > soft /\ st.paras # <<>>)
    <3>1. AddPara(st, para, soft) = [st EXCEPT !.paras = Append(@, para), !.tokens = @ + Len(para)]
      BY <1>3, <1>6, <2>2, Zenon DEF AddPara
    <3> QED BY <1>2, <1>3, <1>4, <1>6, <2>2, <3>1
  <2> QED BY <2>1, <2>2
<1> QED
  BY <1>3, <1>5, <1>6

(* Paragraphs joined have the tokens of all of them.                        *)
LEMMA ParasJoined ==
  ASSUME NEW X, NEW paras \in Seq(Seq(X))
  PROVE  /\ Joined(paras) \in Seq(X)
         /\ \A y : y \in ToSet(Joined(paras)) <=> \E p \in ToSet(paras) : y \in ToSet(p)
<1>1. /\ Chained(paras) \in Seq(X)
      /\ \A y : y \in ToSet(Chained(paras)) <=> \E k \in 1 .. Len(paras) : y \in ToSet(paras[k])
  BY ChainedSet
<1>2. \A p : p \in ToSet(paras) <=> \E k \in 1 .. Len(paras) : p = paras[k]
  <2> DEFINE Y == Seq(X)
  <2> HIDE DEF Y
  <2>1. paras \in Seq(Y)
    BY DEF Y
  <2> QED BY <2>1, InSeq, OfSeq
<1>3. ASSUME NEW k \in 1 .. Len(paras) PROVE paras[k] \in ToSet(paras)
  BY <1>2
<1>4. ASSUME NEW y
      PROVE  y \in ToSet(Chained(paras)) <=> \E p \in ToSet(paras) : y \in ToSet(p)
  <2>1. ASSUME y \in ToSet(Chained(paras)) PROVE \E p \in ToSet(paras) : y \in ToSet(p)
    BY <1>1, <1>3, <2>1
  <2>2. ASSUME NEW p \in ToSet(paras), y \in ToSet(p) PROVE y \in ToSet(Chained(paras))
    BY <1>1, <1>2, <2>2
  <2> QED BY <2>1, <2>2
<1> QED
  BY <1>1, <1>4 DEF Joined

(* The last part, if paragraphs wait for it.                                *)
LEMMA SomeParts ==
  ASSUME NEW X, NEW paras \in Seq(Seq(X))
  PROVE  LET last == IF paras = <<>> THEN <<>> ELSE <<Joined(paras)>>
         IN  /\ last \in Seq(Seq(X))
             /\ ToSet(last) = IF paras = <<>> THEN {} ELSE {Joined(paras)}
             /\ \A y : y \in ToSet(Joined(paras)) => paras # <<>>
             /\ Joined(<<>>) = <<>>
<1>1. Joined(paras) \in Seq(X)
  BY ParasJoined
<1>2. Joined(<<>>) = <<>>
  BY ChainedNone DEF Joined
<1>3. <<Joined(paras)>> \in Seq(Seq(X)) /\ ToSet(<<Joined(paras)>>) = {Joined(paras)}
  BY <1>1, SetOfFew
<1>4. ASSUME NEW none, none = <<>> PROVE none \in Seq(Seq(X)) /\ ToSet(none) = {}
  BY <1>4, SetOfFew
<1>5. CASE paras = <<>>
  <2>1. ToSet(Joined(paras)) = {}
    BY <1>2, <1>5, SetOfFew
  <2> QED BY <1>2, <1>4, <1>5, <2>1
<1>6. CASE paras # <<>>
  BY <1>2, <1>3, <1>6
<1> QED
  BY <1>5, <1>6

(* The parts so far of paragraphs that can be split: each is at most two    *)
(* parts long, because a paragraph may be carried over to the next.         *)
Bounded(st, X, soft) ==
  /\ st \in Splitting(X)
  /\ st.tokens = Len(Joined(st.paras)) /\ st.tokens <= 2 * soft
  /\ \A p \in ToSet(st.out) : Len(p) <= 2 * soft
  /\ \A p \in ToSet(st.paras) : Len(p) <= soft

(* A token is in one of the parts so far, or waits for one.                 *)
Holds(st, y) ==
  \/ \E p \in ToSet(st.out) : y \in ToSet(p)
  \/ y \in ToSet(Joined(st.paras))

(* In each case the parts stay bounded, and nothing that was held is lost.  *)
LEMMA AddParaSplits ==
  ASSUME NEW X, NEW soft \in Int, soft > Overlap, NEW st, Bounded(st, X, soft), NEW para \in Seq(X),
         Len(para) > soft
  PROVE  LET next == AddPara(st, para, soft)
         IN  Bounded(next, X, soft) /\ \A y : Holds(st, y) \/ y \in ToSet(para) => Holds(next, y)
<1> DEFINE next == AddPara(st, para, soft)
           last == IF st.paras = <<>> THEN <<>> ELSE <<Joined(st.paras)>>
           parts == SplitTokens(para, soft)
           out == st.out \o last \o parts
<1>0. soft > 0 /\ st \in Splitting(X) /\ st.out \in Seq(Seq(X)) /\ st.paras \in Seq(Seq(X))
  BY ChunkerAssumption DEF Bounded, Splitting
<1>1. next = [out |-> out, paras |-> <<>>, tokens |-> 0]
  BY <1>0, AddParaIs
<1>2. /\ last \in Seq(Seq(X))
      /\ ToSet(last) = IF st.paras = <<>> THEN {} ELSE {Joined(st.paras)}
      /\ \A y : y \in ToSet(Joined(st.paras)) => st.paras # <<>>
      /\ Joined(<<>>) = <<>>
  BY <1>0, SomeParts
<1>3. /\ parts \in Seq(Seq(X))
      /\ \A k \in 1 .. Len(parts) : Len(parts[k]) <= soft
      /\ \A y \in ToSet(para) : \E k \in 1 .. Len(parts) : y \in ToSet(parts[k])
  BY SplitParts
<1> HIDE DEF next, last, parts
<1> DEFINE Y == Seq(X)
<1> HIDE DEF Y
<1>4. ToSet(out) = ToSet(st.out) \cup ToSet(last) \cup ToSet(parts) /\ out \in Seq(Y)
  <2>1. st.out \in Seq(Y) /\ last \in Seq(Y) /\ parts \in Seq(Y)
    BY <1>0, <1>2, <1>3 DEF Y
  <2>2. st.out \o last \in Seq(Y) /\ ToSet(st.out \o last) = ToSet(st.out) \cup ToSet(last)
    BY <2>1, SetOfBoth
  <2>3. ToSet((st.out \o last) \o parts) = ToSet(st.out \o last) \cup ToSet(parts)
        /\ (st.out \o last) \o parts \in Seq(Y)
    <3> DEFINE w == st.out \o last
    <3> HIDE DEF w
    <3>1. w \in Seq(Y) /\ parts \in Seq(Y)
      BY <2>1, <2>2 DEF w
    <3>2. w \o parts \in Seq(Y)
      BY <3>1, ConcatProperties
    <3>3. ToSet(w \o parts) = ToSet(w) \cup ToSet(parts)
      BY <3>1, SetOfBoth
    <3> QED BY <3>2, <3>3 DEF w
  <2> QED BY <2>2, <2>3
<1> HIDE DEF out
<1>5. \A p \in ToSet(parts) : Len(p) <= soft
  <2>1. ASSUME NEW p \in ToSet(parts) PROVE \E k \in 1 .. Len(parts) : p = parts[k]
    BY <1>3, OfSeq
  <2> QED BY <1>3, <2>1
<1>6. \A y \in ToSet(para) : \E p \in ToSet(parts) : y \in ToSet(p)
  <2>1. ASSUME NEW k \in 1 .. Len(parts) PROVE parts[k] \in ToSet(parts)
    BY <1>3, InSeq
  <2> QED BY <1>3, <2>1
<1>7. \A p \in ToSet(out) : Len(p) <= 2 * soft
  <2>1. ASSUME NEW p \in ToSet(st.out) PROVE Len(p) <= 2 * soft
    BY DEF Bounded
  <2>2. ASSUME NEW p \in ToSet(last) PROVE Len(p) <= 2 * soft
    BY <1>2, <2>2 DEF Bounded
  <2>3. ASSUME NEW p \in ToSet(parts) PROVE Len(p) <= 2 * soft
    <3>1. p \in Seq(X)
      BY <1>3, OfSeq
    <3>2. Len(p) \in Nat /\ Len(p) <= soft
      BY <1>5, <3>1
    <3> QED BY <1>0, <3>2
  <2> QED BY <1>4, <2>1, <2>2, <2>3
<1>8. next.out = out /\ next.paras = <<>> /\ next.tokens = 0
  BY <1>1
<1>9. Bounded(next, X, soft)
  <2>1. ASSUME NEW none, none = <<>>
        PROVE  none \in Seq(Seq(X)) /\ ToSet(none) = {} /\ Len(none) = 0
    BY <2>1, SetOfFew
  <2>2. next \in Splitting(X)
    BY <1>1, <1>4, <2>1 DEF Splitting, Y
  <2>3. next.tokens = Len(Joined(next.paras)) /\ next.tokens <= 2 * soft
    BY <1>0, <1>2, <1>8, <2>1
  <2>4. ToSet(next.paras) = {}
    BY <1>8, <2>1
  <2> QED BY <1>7, <1>8, <2>2, <2>3, <2>4 DEF Bounded
<1>10. ASSUME NEW y, Holds(st, y) \/ y \in ToSet(para) PROVE Holds(next, y)
  <2>1. CASE y \in ToSet(para)
    BY <1>4, <1>6, <1>8, <2>1 DEF Holds
  <2>2. CASE \E p \in ToSet(st.out) : y \in ToSet(p)
    BY <1>4, <1>8, <2>2 DEF Holds
  <2>3. CASE y \in ToSet(Joined(st.paras))
    <3>1. Joined(st.paras) \in ToSet(last)
      BY <1>2, <2>3
    <3> QED BY <1>4, <1>8, <2>3, <3>1 DEF Holds
  <2> QED BY <1>10, <2>1, <2>2, <2>3 DEF Holds
<1> QED
  BY <1>9, <1>10 DEF next

LEMMA AddParaCarries ==
  ASSUME NEW X, NEW soft \in Int, soft > Overlap, NEW st, Bounded(st, X, soft), NEW para \in Seq(X),
         Len(para) <= soft, st.tokens + Len(para) > soft, st.paras # <<>>
  PROVE  LET next == AddPara(st, para, soft)
         IN  Bounded(next, X, soft) /\ \A y : Holds(st, y) \/ y \in ToSet(para) => Holds(next, y)
<1> DEFINE next == AddPara(st, para, soft)
           end == Last(st.paras)
           out == Append(st.out, Joined(st.paras))
<1>0. soft > 0 /\ st \in Splitting(X) /\ st.out \in Seq(Seq(X)) /\ st.paras \in Seq(Seq(X))
  BY ChunkerAssumption DEF Bounded, Splitting
<1>1. next = [out |-> out, paras |-> <<end, para>>, tokens |-> Len(end) + Len(para)]
  BY <1>0, AddParaIs
<1>2. end \in ToSet(st.paras) /\ end \in Seq(X)
  <2>1. st.paras[Len(st.paras)] \in ToSet(st.paras)
    BY <1>0, SetOfSome
  <2>2. end \in ToSet(st.paras)
    BY <2>1 DEF Last
  <2> QED BY <1>0, <2>2, OfSeq
<1>3. Joined(st.paras) \in Seq(X)
  BY <1>0, ParasJoined
<1> HIDE DEF next, end
<1>4. out \in Seq(Seq(X)) /\ ToSet(out) = ToSet(st.out) \cup {Joined(st.paras)}
  <2> DEFINE Y == Seq(X)
  <2> HIDE DEF Y
  <2>1. st.out \in Seq(Y) /\ Joined(st.paras) \in Y
    BY <1>0, <1>3 DEF Y
  <2>2. out \in Seq(Y) /\ ToSet(out) = ToSet(st.out) \cup {Joined(st.paras)}
    BY <2>1, SetOfAppend
  <2> QED BY <2>2 DEF Y
<1> HIDE DEF out
<1>5. Joined(<<end, para>>) = end \o para /\ Len(end \o para) = Len(end) + Len(para)
      /\ ToSet(end \o para) = ToSet(end) \cup ToSet(para)
  <2>1. Joined(<<end, para>>) = end \o para
    BY <1>2, ChainedFew DEF Joined
  <2>2. Len(end \o para) = Len(end) + Len(para)
    BY <1>2, ConcatProperties
  <2>3. ToSet(end \o para) = ToSet(end) \cup ToSet(para)
    BY <1>2, SetOfBoth
  <2> QED BY <2>1, <2>2, <2>3
<1>6. next.out = out /\ next.paras = <<end, para>> /\ next.tokens = Len(end) + Len(para)
  BY <1>1
<1>7. ToSet(<<end, para>>) = {end, para}
  BY SetOfFew
<1>8. Len(end) \in Nat /\ Len(para) \in Nat /\ Len(end) <= soft
  BY <1>2 DEF Bounded
<1>9. Bounded(next, X, soft)
  <2>1. <<end, para>> \in Seq(Seq(X))
    <3> DEFINE Y == Seq(X)
    <3> HIDE DEF Y
    <3>1. end \in Y /\ para \in Y
      BY <1>2 DEF Y
    <3>2. <<end, para>> \in Seq(Y)
      BY <3>1
    <3> QED BY <3>2 DEF Y
  <2>2. next \in Splitting(X)
    BY <1>1, <1>4, <1>8, <2>1 DEF Splitting
  <2>3. next.tokens = Len(Joined(next.paras)) /\ next.tokens <= 2 * soft
    BY <1>5, <1>6, <1>8, <1>0
  <2>4. \A p \in ToSet(next.out) : Len(p) <= 2 * soft
    BY <1>4, <1>6 DEF Bounded
  <2>5. \A p \in ToSet(next.paras) : Len(p) <= soft
    BY <1>6, <1>7, <1>8
  <2> QED BY <2>2, <2>3, <2>4, <2>5 DEF Bounded
<1>10. ASSUME NEW y, Holds(st, y) \/ y \in ToSet(para) PROVE Holds(next, y)
  <2>1. CASE y \in ToSet(para)
    BY <1>5, <1>6, <2>1 DEF Holds
  <2>2. CASE \E p \in ToSet(st.out) : y \in ToSet(p)
    BY <1>4, <1>6, <2>2 DEF Holds
  <2>3. CASE y \in ToSet(Joined(st.paras))
    BY <1>4, <1>6, <2>3 DEF Holds
  <2> QED BY <1>10, <2>1, <2>2, <2>3 DEF Holds
<1> QED
  BY <1>9, <1>10 DEF next

LEMMA AddParaFits ==
  ASSUME NEW X, NEW soft \in Int, soft > Overlap, NEW st, Bounded(st, X, soft), NEW para \in Seq(X),
         Len(para) <= soft, st.tokens + Len(para) <= soft \/ st.paras = <<>>
  PROVE  LET next == AddPara(st, para, soft)
         IN  Bounded(next, X, soft) /\ \A y : Holds(st, y) \/ y \in ToSet(para) => Holds(next, y)
<1> DEFINE next == AddPara(st, para, soft)
           paras == Append(st.paras, para)
<1>0. soft > 0 /\ st \in Splitting(X) /\ st.out \in Seq(Seq(X)) /\ st.paras \in Seq(Seq(X))
      /\ st.tokens \in Nat /\ Len(para) \in Nat /\ st.tokens = Len(Joined(st.paras))
  BY ChunkerAssumption DEF Bounded, Splitting
<1>1. next = [out |-> st.out, paras |-> paras, tokens |-> st.tokens + Len(para)]
  BY <1>0, AddParaIs
<1>2. Joined(paras) = Joined(st.paras) \o para
  BY <1>0, ChainedMore DEF Joined
<1>3. Joined(st.paras) \in Seq(X)
  BY <1>0, ParasJoined
<1>4. paras \in Seq(Seq(X)) /\ ToSet(paras) = ToSet(st.paras) \cup {para}
  <2> DEFINE Y == Seq(X)
  <2> HIDE DEF Y
  <2>1. st.paras \in Seq(Y) /\ para \in Y
    BY <1>0 DEF Y
  <2>2. paras \in Seq(Y) /\ ToSet(paras) = ToSet(st.paras) \cup {para}
    BY <2>1, SetOfAppend
  <2> QED BY <2>2 DEF Y
<1> HIDE DEF next, paras
<1>5. Len(Joined(paras)) = Len(Joined(st.paras)) + Len(para)
      /\ ToSet(Joined(paras)) = ToSet(Joined(st.paras)) \cup ToSet(para)
  BY <1>2, <1>3, ConcatProperties, SetOfBoth
<1>6. next.out = st.out /\ next.paras = paras /\ next.tokens = st.tokens + Len(para)
  BY <1>1
<1>7. st.tokens + Len(para) <= soft
  <2>1. CASE st.paras = <<>>
    <3>1. Joined(st.paras) = <<>>
      BY <2>1, ChainedNone DEF Joined
    <3>2. st.tokens = 0
      BY <1>0, <3>1
    <3> QED BY <1>0, <3>2
  <2> QED BY <2>1
<1>8. Bounded(next, X, soft)
  <2>2. next \in Splitting(X)
    BY <1>0, <1>1, <1>4 DEF Splitting
  <2>3. next.tokens = Len(Joined(next.paras)) /\ next.tokens <= 2 * soft
    BY <1>0, <1>5, <1>6, <1>7
  <2>4. \A p \in ToSet(next.out) : Len(p) <= 2 * soft
    BY <1>6 DEF Bounded
  <2>5. \A p \in ToSet(next.paras) : Len(p) <= soft
    BY <1>4, <1>6 DEF Bounded
  <2> QED BY <2>2, <2>3, <2>4, <2>5 DEF Bounded
<1>9. ASSUME NEW y, Holds(st, y) \/ y \in ToSet(para) PROVE Holds(next, y)
  <2>1. CASE y \in ToSet(para)
    BY <1>5, <1>6, <2>1 DEF Holds
  <2>2. CASE \E p \in ToSet(st.out) : y \in ToSet(p)
    BY <1>6, <2>2 DEF Holds
  <2>3. CASE y \in ToSet(Joined(st.paras))
    BY <1>5, <1>6, <2>3 DEF Holds
  <2> QED BY <1>9, <2>1, <2>2, <2>3 DEF Holds
<1> QED
  BY <1>8, <1>9 DEF next

(* Whether or not the split ends, it is a list of parts.                    *)
LEMMA SplitTyped ==
  ASSUME NEW tokens \in Seq(Nat), NEW soft \in Int, Len(tokens) > soft
  PROVE  SplitTokens(tokens, soft) \in Seq(Seq(Nat))
<1>1. CASE soft > Overlap
  BY <1>1, SplitParts
<1>2. CASE ~(soft > Overlap)
  <2>1. SplitTokens(tokens, soft) = <<Forever>>
    BY <1>2, SplitNever, ChunkerAssumption
  <2>2. Forever \in Seq(Nat)
    BY DEF Forever
  <2> DEFINE Y == Seq(Nat)
  <2> HIDE DEF Y
  <2>3. Forever \in Y
    BY <2>2 DEF Y
  <2>4. <<Forever>> \in Seq(Y)
    BY <2>3
  <2> QED BY <2>1, <2>4 DEF Y
<1> QED
  BY <1>1, <1>2

LEMMA AddParaTyped ==
  ASSUME NEW st \in Splitting(Nat), NEW para \in Seq(Nat), NEW soft \in Int
  PROVE  AddPara(st, para, soft) \in Splitting(Nat)
<1> DEFINE Y == Seq(Nat)
           last == IF st.paras = <<>> THEN <<>> ELSE <<Joined(st.paras)>>
<1>0. st.out \in Seq(Y) /\ st.paras \in Seq(Y) /\ st.tokens \in Nat /\ Len(para) \in Nat
  BY DEF Splitting
<1>1. Joined(st.paras) \in Y
  BY <1>0, ParasJoined
<1> HIDE DEF Y
<1>2. para \in Y
  BY DEF Y
<1>3. CASE Len(para) > soft
  <2>1. last \in Seq(Y)
    BY <1>0, SomeParts DEF Y
  <2> HIDE DEF last
  <2>2. SplitTokens(para, soft) \in Seq(Y)
    BY <1>3, SplitTyped DEF Y
  <2>3. st.out \o last \in Seq(Y)
    BY <1>0, <2>1, ConcatProperties
  <2>4. (st.out \o last) \o SplitTokens(para, soft) \in Seq(Y)
    BY <2>2, <2>3, ConcatProperties
  <2>5. AddPara(st, para, soft) = [out |-> (st.out \o last) \o SplitTokens(para, soft),
                                   paras |-> <<>>, tokens |-> 0]
    BY <1>3, AddParaIs DEF last
  <2> HIDE DEF last
  <2>6. <<>> \in Seq(Y)
    OBVIOUS
  <2> DEFINE w == (st.out \o last) \o SplitTokens(para, soft)
  <2> HIDE DEF w
  <2>7. [out |-> w, paras |-> <<>>, tokens |-> 0] \in [out : Seq(Y), paras : Seq(Y), tokens : Nat]
    BY <2>4, <2>6 DEF w
  <2> QED BY <2>5, <2>7 DEF Splitting, Y, w
<1>4. CASE Len(para) <= soft /\ st.tokens + Len(para) > soft /\ st.paras # <<>>
  <2> DEFINE end == Last(st.paras)
  <2>1. end \in Y
    <3>1. Len(st.paras) \in 1 .. Len(st.paras)
      BY <1>0, <1>4
    <3> QED BY <1>0, <3>1 DEF Last
  <2>2. Len(end) \in Nat
    BY <2>1 DEF Y
  <2>3. AddPara(st, para, soft) =
          [out |-> Append(st.out, Joined(st.paras)), paras |-> <<end, para>>,
           tokens |-> Len(end) + Len(para)]
    BY <1>4, AddParaIs
  <2> HIDE DEF end
  <2>4. <<end, para>> \in Seq(Y) /\ Append(st.out, Joined(st.paras)) \in Seq(Y)
    BY <1>0, <1>1, <1>2, <2>1
  <2>5. Len(end) + Len(para) \in Nat
    BY <1>0, <2>2
  <2> QED BY <2>3, <2>4, <2>5 DEF Splitting, Y
<1>5. CASE Len(para) <= soft /\ ~(st.tokens + Len(para) > soft /\ st.paras # <<>>)
  <2>1. st.tokens + Len(para) <= soft \/ st.paras = <<>>
    BY <1>0, <1>5
  <2>2. AddPara(st, para, soft) =
          [out |-> st.out, paras |-> Append(st.paras, para), tokens |-> st.tokens + Len(para)]
    BY <1>5, <2>1, AddParaIs
  <2>3. Append(st.paras, para) \in Seq(Y) /\ st.tokens + Len(para) \in Nat
    BY <1>0, <1>2
  <2> QED BY <1>0, <2>2, <2>3 DEF Splitting, Y
<1> QED
  BY <1>0, <1>3, <1>4, <1>5

(* The loop of SplitProse.                                                  *)
ProseLoop(paras, soft) ==
  CHOOSE st : st = [k \in 0 .. Len(paras) |->
    IF k = 0 THEN NoParts ELSE AddPara(st[k - 1], paras[k], soft)]

LEMMA NoPartsTyped ==
  ASSUME NEW X
  PROVE  NoParts \in Splitting(X)
<1> DEFINE Y == Seq(X)
<1> HIDE DEF Y
<1>1. <<>> \in Seq(Y)
  OBVIOUS
<1> QED
  BY <1>1 DEF NoParts, Splitting, Y

LEMMA ProseLoopIs ==
  ASSUME NEW paras \in Seq(Seq(Nat)), NEW soft \in Int
  PROVE  LET end == ProseLoop(paras, soft)[Len(paras)]
         IN  /\ SplitProse(paras, soft) =
                  end.out \o IF end.paras = <<>> THEN <<>> ELSE <<Joined(end.paras)>>
             /\ ProseLoop(paras, soft)[0] = NoParts
             /\ \A n \in 1 .. Len(paras) :
                  ProseLoop(paras, soft)[n] = AddPara(ProseLoop(paras, soft)[n - 1], paras[n], soft)
<1> DEFINE N == Len(paras)
           Def(f) == [k \in 0 .. Len(paras) |->
             IF k = 0 THEN NoParts ELSE AddPara(f[k - 1], paras[k], soft)]
           S == Splitting(Nat)
           step == [k \in 1 .. N |-> [s \in S |-> AddPara(s, paras[k], soft)]]
           F == ProseLoop(paras, soft)
<1>1. SplitProse(paras, soft) =
        F[Len(paras)].out \o IF F[Len(paras)].paras = <<>> THEN <<>> ELSE <<Joined(F[Len(paras)].paras)>>
  BY DEF SplitProse, ProseLoop
<1>2. IsLoop(N, S, NoParts, step)
  <2>1. \A k \in 1 .. N : paras[k] \in Seq(Nat)
    OBVIOUS
  <2>2. ASSUME NEW k \in 1 .. N, NEW s \in S PROVE AddPara(s, paras[k], soft) \in S
    <3> HIDE DEF S
    <3> QED BY <2>1, AddParaTyped DEF S
  <2>3. NoParts \in S /\ N \in Nat
    BY NoPartsTyped
  <2> HIDE DEF S
  <2> QED BY <2>2, <2>3 DEF IsLoop
<1> HIDE DEF S
<1>3. \E f : f = Def(f)
  <2>0. PICK f : Computes(f, N, S, NoParts, step)
    <3> HIDE DEF step, N
    <3> QED BY <1>2, LoopExists
  <2>1. /\ f \in [0 .. N -> S] /\ f[0] = NoParts
        /\ \A n \in 1 .. N : f[n] = step[n][f[n - 1]]
    <3> HIDE DEF step, N
    <3> QED BY <2>0 DEF Computes
  <2>2. ASSUME NEW n \in 0 .. N PROVE f[n] = Def(f)[n]
    <3>1. CASE n = 0
      BY <2>1, <3>1
    <3>2. CASE n # 0
      <4>1. n \in 1 .. N /\ n - 1 \in 0 .. N
        BY <3>2
      <4>2. step[n][f[n - 1]] = AddPara(f[n - 1], paras[n], soft)
        BY <2>1, <4>1
      <4>3. f[n] = AddPara(f[n - 1], paras[n], soft)
        BY <2>1, <4>1, <4>2
      <4> QED BY <3>2, <4>1, <4>3
    <3> QED BY <3>1, <3>2
  <2>3. f = Def(f)
    BY <2>1, <2>2
  <2> QED BY <2>3
<1>4. F = Def(F)
  BY <1>3, Zenon DEF ProseLoop
<1>5. F[0] = NoParts /\ \A n \in 1 .. N : F[n] = AddPara(F[n - 1], paras[n], soft)
  <2>1. ASSUME NEW f
        PROVE  Def(f)[0] = NoParts /\ \A n \in 1 .. N : Def(f)[n] = AddPara(f[n - 1], paras[n], soft)
    OBVIOUS
  <2> HIDE DEF F, Def
  <2> QED BY <1>4, <2>1
<1> QED
  BY <1>1, <1>5

(* The parts of paragraphs that can be split: each is at most twice the     *)
(* length, and every token is in one.                                       *)
LEMMA ProseMany ==
  ASSUME NEW X \in SUBSET Nat, NEW paras \in Seq(Seq(X)), NEW soft \in Int, soft > Overlap
  PROVE  /\ SplitProse(paras, soft) \in Seq(Seq(X))
         /\ \A p \in ToSet(SplitProse(paras, soft)) : Len(p) <= 2 * soft
         /\ \A para \in ToSet(paras) : \A y \in ToSet(para) :
              \E p \in ToSet(SplitProse(paras, soft)) : y \in ToSet(p)
<1> DEFINE N == Len(paras)
           F == ProseLoop(paras, soft)
           Ok(n) == /\ Bounded(F[n], X, soft)
                    /\ \A i \in 1 .. n : \A y \in ToSet(paras[i]) : Holds(F[n], y)
           T == {n \in 0 .. N : Ok(n)}
           end == F[N]
           last == IF end.paras = <<>> THEN <<>> ELSE <<Joined(end.paras)>>
<1>0. N \in Nat /\ \A n \in 1 .. N : paras[n] \in Seq(X)
  OBVIOUS
<1>1. /\ SplitProse(paras, soft) = end.out \o last
      /\ F[0] = NoParts
      /\ \A n \in 1 .. N : F[n] = AddPara(F[n - 1], paras[n], soft)
  <2>1. paras \in Seq(Seq(Nat))
    <3>1. Seq(X) \subseteq Seq(Nat)
      BY SeqMonotonic
    <3> QED BY <3>1, SeqMonotonic
  <2> QED BY <2>1, ProseLoopIs
<1> HIDE DEF F
<1>2. 0 \in T
  <2>1. NoParts \in Splitting(X) /\ NoParts.out = <<>> /\ NoParts.paras = <<>> /\ NoParts.tokens = 0
    BY NoPartsTyped DEF NoParts
  <2>2. Joined(<<>>) = <<>> /\ ToSet(<<>>) = {}
    BY ChainedNone, SetOfFew DEF Joined
  <2>3. ASSUME NEW none, none = <<>> PROVE Len(none) = 0
    BY <2>3
  <2>4. soft > 0
    BY ChunkerAssumption
  <2>5. Bounded(NoParts, X, soft)
    BY <2>1, <2>2, <2>3, <2>4 DEF Bounded
  <2>6. Ok(0)
    BY <1>1, <2>5
  <2> QED BY <2>6, <1>0
<1>3. ASSUME NEW n \in 1 .. N, n - 1 \in T PROVE n \in T
  <2> DEFINE st == F[n - 1]
             para == paras[n]
             next == AddPara(st, para, soft)
  <2>1. Bounded(st, X, soft) /\ para \in Seq(X) /\ Ok(n - 1)
    BY <1>0, <1>3
  <2>a. \A i \in 1 .. n - 1 : \A y \in ToSet(paras[i]) : Holds(st, y)
    BY <1>3
  <2>2. F[n] = next
    BY <1>1
  <2> HIDE DEF st, para
  <2>3. Bounded(next, X, soft) /\ \A y : Holds(st, y) \/ y \in ToSet(para) => Holds(next, y)
    <3>1. Len(para) \in Nat /\ st.tokens \in Nat
      BY <2>1 DEF Bounded, Splitting
    <3>2. CASE Len(para) > soft
      BY <2>1, <3>2, AddParaSplits
    <3>3. CASE Len(para) <= soft /\ st.tokens + Len(para) > soft /\ st.paras # <<>>
      BY <2>1, <3>3, AddParaCarries
    <3>4. CASE Len(para) <= soft /\ (st.tokens + Len(para) <= soft \/ st.paras = <<>>)
      BY <2>1, <3>4, AddParaFits
    <3> QED BY <3>1, <3>2, <3>3, <3>4
  <2> HIDE DEF next
  <2>4. ASSUME NEW i \in 1 .. n, NEW y \in ToSet(paras[i]) PROVE Holds(next, y)
    <3>1. CASE i = n
      BY <2>3, <2>4, <3>1 DEF para
    <3>2. CASE i # n
      <4>1. i \in 1 .. n - 1
        BY <3>2
      <4>2. Holds(st, y)
        BY <2>a, <4>1
      <4> QED BY <2>3, <4>2
    <3> QED BY <3>1, <3>2
  <2>5. Ok(n)
    BY <2>2, <2>3, <2>4
  <2> QED BY <2>5
<1>4. Ok(N)
  <2>1. 0 .. N \subseteq T
    <3> HIDE DEF T, N
    <3> QED BY <1>0, <1>2, <1>3, LoopInduction
  <2>2. N \in 0 .. N
    BY <1>0
  <2> QED BY <2>1, <2>2
<1>5. /\ Bounded(end, X, soft)
      /\ \A i \in 1 .. N : \A y \in ToSet(paras[i]) : Holds(end, y)
  BY <1>4
<1> HIDE DEF end, T, Ok
<1> DEFINE Y == Seq(X)
<1>6. /\ end.out \in Seq(Y) /\ last \in Seq(Y)
      /\ ToSet(last) = IF end.paras = <<>> THEN {} ELSE {Joined(end.paras)}
      /\ \A y : y \in ToSet(Joined(end.paras)) => end.paras # <<>>
  <2>1. end.out \in Seq(Y) /\ end.paras \in Seq(Seq(X))
    BY <1>5 DEF Bounded, Splitting
  <2> QED BY <2>1, SomeParts
<1> HIDE DEF last, Y
<1>7. SplitProse(paras, soft) \in Seq(Y) /\ ToSet(SplitProse(paras, soft)) = ToSet(end.out) \cup ToSet(last)
  BY <1>1, <1>6, ConcatProperties, SetOfBoth
<1>8. ASSUME NEW p \in ToSet(end.out) \cup ToSet(last) PROVE Len(p) <= 2 * soft
  BY <1>5, <1>6 DEF Bounded
<1>9. ASSUME NEW para \in ToSet(paras), NEW y \in ToSet(para)
      PROVE  \E p \in ToSet(end.out) \cup ToSet(last) : y \in ToSet(p)
  <2>1. PICK i \in 1 .. N : para = paras[i]
    <3>1. paras \in Seq(Y)
      BY DEF Y
    <3> QED BY <3>1, OfSeq
  <2>2. Holds(end, y)
    BY <1>5, <1>9, <2>1
  <2> QED BY <1>6, <2>2 DEF Holds
<1> QED
  BY <1>7, <1>8, <1>9 DEF Y

(* A single paragraph is one part, or split.                                *)
LEMMA ProseOne ==
  ASSUME NEW para \in Seq(Nat), NEW soft \in Int
  PROVE  /\ SplitProse(<<>>, soft) = <<>>
         /\ SplitProse(<<para>>, soft) = IF Len(para) > soft THEN SplitTokens(para, soft) ELSE <<para>>
<1> DEFINE Y == Seq(Nat)
<1>0. para \in Y
  OBVIOUS
<1>1. NoParts \in Splitting(Nat) /\ NoParts.out = <<>> /\ NoParts.paras = <<>> /\ NoParts.tokens = 0
  BY NoPartsTyped DEF NoParts
<1>2. ASSUME NEW none, none = <<>> PROVE SplitProse(none, soft) = <<>>
  <2>1. none \in Seq(Seq(Nat)) /\ Len(none) = 0
    BY <1>2
  <2>2. SplitProse(none, soft) = NoParts.out \o (IF NoParts.paras = <<>> THEN <<>> ELSE <<Joined(NoParts.paras)>>)
    BY <2>1, ProseLoopIs
  <2>3. SplitProse(none, soft) = none \o none
    BY <1>1, <1>2, <2>2
  <2> QED BY <1>2, <2>1, <2>3, ConcatEmptySeq
<1>3. ASSUME NEW one, one = <<para>>
      PROVE  SplitProse(one, soft) = IF Len(para) > soft THEN SplitTokens(para, soft) ELSE <<para>>
  <2> DEFINE end == AddPara(NoParts, para, soft)
  <2>1. one \in Seq(Seq(Nat)) /\ Len(one) = 1 /\ one[1] = para
    <3> HIDE DEF Y
    <3>1. one \in Seq(Y) /\ Len(one) = 1 /\ one[1] = para
      BY <1>0, <1>3
    <3> QED BY <3>1 DEF Y
  <2>2. SplitProse(one, soft) = end.out \o (IF end.paras = <<>> THEN <<>> ELSE <<Joined(end.paras)>>)
    <3> DEFINE F == ProseLoop(one, soft)
    <3>1. /\ SplitProse(one, soft) =
               F[Len(one)].out \o IF F[Len(one)].paras = <<>> THEN <<>> ELSE <<Joined(F[Len(one)].paras)>>
          /\ F[0] = NoParts
          /\ \A n \in 1 .. Len(one) : F[n] = AddPara(F[n - 1], one[n], soft)
      BY <2>1, ProseLoopIs
    <3> HIDE DEF F
    <3>2. F[1] = AddPara(F[0], one[1], soft)
      BY <2>1, <3>1
    <3>3. F[Len(one)] = end
      BY <2>1, <3>1, <3>2
    <3> HIDE DEF end
    <3> QED BY <3>1, <3>3
  <2>3. CASE Len(para) > soft
    <3>1. end = [out |-> NoParts.out \o (IF NoParts.paras = <<>> THEN <<>> ELSE <<Joined(NoParts.paras)>>)
                           \o SplitTokens(para, soft),
                 paras |-> <<>>, tokens |-> 0]
      BY <1>1, <2>3, AddParaIs
    <3>2. end.out = NoParts.out \o (IF NoParts.paras = <<>> THEN <<>> ELSE <<Joined(NoParts.paras)>>)
                           \o SplitTokens(para, soft)
          /\ end.paras = <<>>
      <4> DEFINE o == NoParts.out \o (IF NoParts.paras = <<>> THEN <<>> ELSE <<Joined(NoParts.paras)>>)
                           \o SplitTokens(para, soft)
      <4>1. end = [out |-> o, paras |-> <<>>, tokens |-> 0]
        BY <3>1
      <4> HIDE DEF o, end
      <4>2. end.out = o /\ end.paras = <<>>
        BY <4>1
      <4> QED BY <4>2 DEF o
    <3> HIDE DEF end
    <3>3. end.out = (<<>> \o <<>>) \o SplitTokens(para, soft)
      BY <1>1, <3>2
    <3>4. SplitTokens(para, soft) \in Seq(Y)
      BY <2>3, SplitTyped
    <3> HIDE DEF Y
    <3>5. <<>> \o <<>> = <<>>
      <4>1. ASSUME NEW none, none = <<>> PROVE none \o none = none
        <5>1. none \in Seq(Y)
          BY <4>1
        <5> QED BY <4>1, <5>1, ConcatEmptySeq
      <4> QED BY <4>1
    <3>6. <<>> \o SplitTokens(para, soft) = SplitTokens(para, soft)
          /\ SplitTokens(para, soft) \o <<>> = SplitTokens(para, soft)
      BY <3>4, ConcatEmptySeq
    <3> QED BY <2>2, <2>3, <3>2, <3>3, <3>5, <3>6
  <2>4. CASE ~(Len(para) > soft)
    <3>0. Len(para) <= soft
      BY <2>4
    <3>1. end = [out |-> NoParts.out, paras |-> Append(NoParts.paras, para),
                 tokens |-> NoParts.tokens + Len(para)]
      BY <1>1, <3>0, AddParaIs
    <3>2. end.out = <<>> /\ end.paras = Append(<<>>, para)
      BY <1>1, <3>1
    <3> HIDE DEF end, Y
    <3>3. ASSUME NEW none, none = <<>> PROVE Append(none, para) = <<para>>
      <4>1. none \in Seq(Y)
        BY <3>3
      <4> QED BY <1>0, <3>3, <4>1
    <3>4. end.paras = <<para>> /\ <<para>> # <<>>
      BY <3>2, <3>3
    <3>5. Joined(<<para>>) = para
      BY ChainedFew DEF Joined
    <3>6. <<para>> \in Seq(Y)
      BY <1>0
    <3>7. <<>> \o <<para>> = <<para>>
      BY <3>6, ConcatEmptySeq
    <3> QED BY <2>2, <2>4, <3>2, <3>4, <3>5, <3>7
  <2> QED BY <2>3, <2>4
<1> QED
  BY <1>2, <1>3

(* The texts: lines of any kinds.                                           *)
Text == Seq(LineKind)

(* What one line does to the paragraphs so far.                             *)
ParaStep(tx, paras, n) ==
  IF tx[n] = "blank" THEN Append(paras, <<>>)
  ELSE [paras EXCEPT ![Len(paras)] = @ \o Tokens(tx, <<n>>)]

(* The loop of Paragraphs.                                                  *)
ParaLoop(tx, lines) ==
  CHOOSE paras : paras = [k \in 0 .. Len(lines) |->
    IF k = 0 THEN <<<<>>>>
    ELSE LET before == paras[k - 1]
         IN  IF tx[lines[k]] = "blank" THEN Append(before, <<>>)
             ELSE [before EXCEPT ![Len(before)] = @ \o Tokens(tx, <<lines[k]>>)]]

(* The paragraphs so far, of which the last is the one being read.          *)
Piled(X) == {paras \in Seq(Seq(X)) : paras # <<>>}

InOne(paras, y) == \E p \in ToSet(paras) : y \in ToSet(p)

LEMMA ParaStepIs ==
  ASSUME NEW tx \in Text, NEW paras \in Piled(1 .. Len(tx)), NEW n \in 1 .. Len(tx)
  PROVE  LET next == ParaStep(tx, paras, n)
         IN  /\ next \in Piled(1 .. Len(tx))
             /\ tx[n] # "blank" => Len(next) = Len(paras)
             /\ \A y : InOne(paras, y) \/ (y = n /\ tx[n] # "blank") => InOne(next, y)
<1> DEFINE X == 1 .. Len(tx)
           Y == Seq(X)
           next == ParaStep(tx, paras, n)
           l == Len(paras)
           more == Tokens(tx, <<n>>)
           longer == paras[l] \o more
<1>0. paras \in Seq(Y) /\ paras # <<>> /\ l \in 1 .. l /\ l \in Nat /\ l >= 1
  BY DEF Piled
<1>1. more \in Seq(X) /\ (tx[n] # "blank" => n \in ToSet(more))
  <2>1. Tokens(tx, <<n>>) = Copies(tx, n)
    <3>1. ASSUME NEW none, none = <<>> PROVE Tokens(tx, <<n>>) = Copies(tx, n)
      <4>1. none \in Seq(1 .. Len(tx)) /\ tx \in Seq(LineKind)
        BY <3>1 DEF Text
      <4> QED BY <4>1, TokensMore
    <3> QED BY <3>1
  <2>2. Copies(tx, n) \in Seq({n}) /\ (tx[n] # "blank" => ToSet(Copies(tx, n)) = {n})
    BY CopiesIs DEF Text
  <2>3. {n} \subseteq X
    OBVIOUS
  <2> QED BY <2>1, <2>2, <2>3, SeqMonotonic
<1> HIDE DEF X, more
<1>2. paras[l] \in Y
  BY <1>0, InSeq
<1>3. longer \in Y /\ ToSet(longer) = ToSet(paras[l]) \cup ToSet(more)
  BY <1>1, <1>2, ConcatProperties, SetOfBoth
<1> HIDE DEF longer
<1>4. <<>> \in Y
  OBVIOUS
<1> HIDE DEF Y
<1>5. CASE tx[n] = "blank"
  <2>1. next = Append(paras, <<>>)
    BY <1>5 DEF ParaStep
  <2>2. next \in Seq(Y) /\ next # <<>> /\ ToSet(next) = ToSet(paras) \cup {<<>>}
    <3>1. Append(paras, <<>>) \in Seq(Y) /\ Len(Append(paras, <<>>)) = l + 1
      BY <1>0, <1>4
    <3>2. Append(paras, <<>>) # <<>>
      BY <1>0, <3>1
    <3> QED BY <1>0, <1>4, <2>1, <3>1, <3>2, SetOfAppend
  <2> HIDE DEF next
  <2>3. \A y : InOne(paras, y) => InOne(next, y)
    BY <2>2 DEF InOne
  <2> QED BY <1>5, <2>2, <2>3 DEF next, Piled, X, Y
<1>6. CASE tx[n] # "blank"
  <2>1. next = [paras EXCEPT ![l] = longer]
    BY <1>6 DEF ParaStep, longer, more
  <2>2. /\ next \in Seq(Y) /\ Len(next) = l
        /\ \A j \in 1 .. l : next[j] = IF j = l THEN longer ELSE paras[j]
    BY <1>0, <1>3, <2>1, ExceptSeq
  <2> HIDE DEF next
  <2>3. next # <<>>
    BY <1>0, <2>2
  <2>4. ASSUME NEW j \in 1 .. l PROVE next[j] \in ToSet(next)
    BY <2>2, InSeq
  <2>5. ASSUME NEW y, InOne(paras, y) \/ y = n PROVE InOne(next, y)
    <3>1. CASE y = n
      <4>1. y \in ToSet(longer) /\ next[l] = longer /\ longer \in ToSet(next)
        BY <1>0, <1>1, <1>3, <1>6, <2>2, <2>4, <3>1
      <4> QED BY <4>1 DEF InOne
    <3>2. CASE InOne(paras, y)
      <4>1. PICK p \in ToSet(paras) : y \in ToSet(p)
        BY <3>2 DEF InOne
      <4>2. PICK j \in 1 .. l : p = paras[j]
        BY <1>0, <4>1, OfSeq
      <4>3. y \in ToSet(next[j])
        BY <1>3, <2>2, <4>1, <4>2
      <4> QED BY <2>4, <4>3 DEF InOne
    <3> QED BY <2>5, <3>1, <3>2
  <2> QED BY <1>6, <2>2, <2>3, <2>5 DEF next, Piled, X, Y
<1> QED
  BY <1>5, <1>6

LEMMA ParaLoopIs ==
  ASSUME NEW tx \in Text, NEW lines \in Seq(1 .. Len(tx))
  PROVE  LET F == ParaLoop(tx, lines)
         IN  /\ Paragraphs(tx, lines) = Only(F[Len(lines)], ToSet(F[Len(lines)]) \ {<<>>})
             /\ F[0] = <<<<>>>> /\ <<<<>>>> \in Piled(1 .. Len(tx))
             /\ \A n \in 1 .. Len(lines) : F[n] = ParaStep(tx, F[n - 1], lines[n])
             /\ \A n \in 0 .. Len(lines) : F[n] \in Piled(1 .. Len(tx))
<1> DEFINE N == Len(lines)
           X == 1 .. Len(tx)
           S == Piled(X)
           Def(f) == [k \in 0 .. Len(lines) |->
             IF k = 0 THEN <<<<>>>>
             ELSE LET before == f[k - 1]
                  IN  IF tx[lines[k]] = "blank" THEN Append(before, <<>>)
                      ELSE [before EXCEPT ![Len(before)] = @ \o Tokens(tx, <<lines[k]>>)]]
           step == [k \in 1 .. N |-> [s \in S |-> ParaStep(tx, s, lines[k])]]
           F == ParaLoop(tx, lines)
<1>1. Paragraphs(tx, lines) = Only(F[Len(lines)], ToSet(F[Len(lines)]) \ {<<>>})
  BY DEF Paragraphs, ParaLoop
<1>l. \A k \in 1 .. N : lines[k] \in X
  OBVIOUS
<1>2. <<<<>>>> \in S
  <2> DEFINE Y == Seq(X)
  <2>1. <<>> \in Y
    OBVIOUS
  <2> HIDE DEF Y
  <2>2. <<<<>>>> \in Seq(Y) /\ <<<<>>>> # <<>>
    BY <2>1
  <2> QED BY <2>2 DEF Piled, Y
<1>3. ASSUME NEW k \in 1 .. N, NEW s \in S PROVE ParaStep(tx, s, lines[k]) \in S
  BY <1>l, ParaStepIs
<1> HIDE DEF S
<1>4. IsLoop(N, S, <<<<>>>>, step)
  <2>1. N \in Nat
    OBVIOUS
  <2> HIDE DEF N
  <2> QED BY <1>2, <1>3, <2>1 DEF IsLoop
<1>5. \E f : f = Def(f)
  <2>0. PICK f : Computes(f, N, S, <<<<>>>>, step)
    <3> HIDE DEF step, N
    <3> QED BY <1>4, LoopExists
  <2>1. /\ f \in [0 .. N -> S] /\ f[0] = <<<<>>>>
        /\ \A n \in 1 .. N : f[n] = step[n][f[n - 1]]
    <3> HIDE DEF step, N
    <3> QED BY <2>0 DEF Computes
  <2>2. ASSUME NEW n \in 0 .. N PROVE f[n] = Def(f)[n]
    <3>1. CASE n = 0
      BY <2>1, <3>1
    <3>2. CASE n # 0
      <4>1. n \in 1 .. N /\ n - 1 \in 0 .. N
        BY <3>2
      <4>2. step[n][f[n - 1]] = ParaStep(tx, f[n - 1], lines[n])
        BY <2>1, <4>1
      <4>3. f[n] = ParaStep(tx, f[n - 1], lines[n])
        BY <2>1, <4>1, <4>2
      <4> QED BY <3>2, <4>1, <4>3 DEF ParaStep
    <3> QED BY <3>1, <3>2
  <2>3. f = Def(f)
    BY <2>1, <2>2
  <2> QED BY <2>3
<1>6. F = Def(F)
  BY <1>5, Zenon DEF ParaLoop
<1>7. F[0] = <<<<>>>> /\ \A n \in 1 .. N : F[n] = ParaStep(tx, F[n - 1], lines[n])
  <2>1. ASSUME NEW f
        PROVE  Def(f)[0] = <<<<>>>> /\ \A n \in 1 .. N : Def(f)[n] = ParaStep(tx, f[n - 1], lines[n])
    BY DEF ParaStep
  <2> HIDE DEF F, Def
  <2> QED BY <1>6, <2>1
<1>8. \A n \in 0 .. N : F[n] \in S
  <2>1. N \in Nat /\ F[0] \in S
    BY <1>2, <1>7
  <2>2. ASSUME NEW n \in 1 .. N, F[n - 1] \in S PROVE F[n] \in S
    <3> HIDE DEF F
    <3> QED BY <1>3, <1>7, <2>2
  <2> HIDE DEF F, N
  <2> QED BY <2>1, <2>2, LoopStays
<1> QED
  BY <1>1, <1>2, <1>7, <1>8 DEF S

(* Each line that is not blank is in a paragraph.                           *)
LEMMA ParagraphsAll ==
  ASSUME NEW tx \in Text, NEW lines \in Seq(1 .. Len(tx))
  PROVE  /\ Paragraphs(tx, lines) \in Seq(Seq(1 .. Len(tx)))
         /\ \A n \in ToSet(lines) : tx[n] # "blank" => InOne(Paragraphs(tx, lines), n)
<1> DEFINE N == Len(lines)
           X == 1 .. Len(tx)
           Y == Seq(X)
           F == ParaLoop(tx, lines)
           Ok(n) == \A i \in 1 .. n : tx[lines[i]] # "blank" => InOne(F[n], lines[i])
           T == {n \in 0 .. N : Ok(n)}
           all == F[N]
<1>1. /\ Paragraphs(tx, lines) = Only(all, ToSet(all) \ {<<>>})
      /\ \A n \in 1 .. N : F[n] = ParaStep(tx, F[n - 1], lines[n])
      /\ \A n \in 0 .. N : F[n] \in Piled(X)
  BY ParaLoopIs
<1>0. N \in Nat /\ \A k \in 1 .. N : lines[k] \in X
  OBVIOUS
<1> HIDE DEF F
<1>2. 0 \in T
  BY <1>0
<1>3. ASSUME NEW n \in 1 .. N, n - 1 \in T PROVE n \in T
  <2>1. /\ n - 1 \in 0 .. N /\ Ok(n - 1)
        /\ F[n - 1] \in Piled(X) /\ F[n] = ParaStep(tx, F[n - 1], lines[n])
    BY <1>1, <1>3
  <2>a. \A i \in 1 .. n - 1 : tx[lines[i]] # "blank" => InOne(F[n - 1], lines[i])
    BY <1>3
  <2>2. \A y : InOne(F[n - 1], y) \/ (y = lines[n] /\ tx[lines[n]] # "blank") => InOne(F[n], y)
    BY <1>0, <2>1, ParaStepIs
  <2>3. ASSUME NEW i \in 1 .. n, tx[lines[i]] # "blank" PROVE InOne(F[n], lines[i])
    <3>1. CASE i = n
      BY <2>2, <2>3, <3>1
    <3>2. CASE i # n
      <4>1. i \in 1 .. n - 1
        BY <3>2
      <4> QED BY <2>a, <2>2, <2>3, <4>1
    <3> QED BY <3>1, <3>2
  <2>4. Ok(n)
    BY <2>3
  <2> QED BY <2>4
<1>4. Ok(N)
  <2>1. 0 .. N \subseteq T
    <3> HIDE DEF T, N
    <3> QED BY <1>0, <1>2, <1>3, LoopInduction
  <2>2. N \in 0 .. N
    BY <1>0
  <2> QED BY <2>1, <2>2
<1>5. all \in Seq(Y)
  BY <1>0, <1>1 DEF Piled
<1>b. \A i \in 1 .. N : tx[lines[i]] # "blank" => InOne(all, lines[i])
  BY <1>4
<1> HIDE DEF all, Y
<1>6. Paragraphs(tx, lines) \in Seq(Y) /\ ToSet(Paragraphs(tx, lines)) = ToSet(all) \cap (ToSet(all) \ {<<>>})
  BY <1>1, <1>5, OnlySet
<1>7. ASSUME NEW y, InOne(all, y) PROVE InOne(Paragraphs(tx, lines), y)
  <2>1. PICK p \in ToSet(all) : y \in ToSet(p)
    BY <1>7 DEF InOne
  <2>2. p # <<>>
    BY <2>1, SetOfFew
  <2> QED BY <1>6, <2>1, <2>2 DEF InOne
<1>8. ASSUME NEW n \in ToSet(lines), tx[n] # "blank" PROVE InOne(Paragraphs(tx, lines), n)
  <2>1. PICK i \in 1 .. N : n = lines[i]
    BY OfSeq
  <2> QED BY <1>b, <1>7, <1>8, <2>1
<1> QED
  BY <1>6, <1>8 DEF Y

(* Lines without a blank one are at most one paragraph.                     *)
LEMMA OneParagraph ==
  ASSUME NEW tx \in Text, NEW lines \in Seq(1 .. Len(tx)), \A n \in ToSet(lines) : tx[n] # "blank"
  PROVE  \E p \in Seq(1 .. Len(tx)) : Paragraphs(tx, lines) \in {<<>>, <<p>>}
<1> DEFINE N == Len(lines)
           X == 1 .. Len(tx)
           Y == Seq(X)
           F == ParaLoop(tx, lines)
           T == {n \in 0 .. N : Len(F[n]) = 1}
           all == F[N]
<1>1. /\ Paragraphs(tx, lines) = Only(all, ToSet(all) \ {<<>>})
      /\ F[0] = <<<<>>>>
      /\ \A n \in 1 .. N : F[n] = ParaStep(tx, F[n - 1], lines[n])
      /\ \A n \in 0 .. N : F[n] \in Piled(X)
  BY ParaLoopIs
<1>0. N \in Nat /\ \A k \in 1 .. N : lines[k] \in X /\ lines[k] \in ToSet(lines)
  BY InSeq
<1> HIDE DEF F
<1>2. 0 \in T
  <2>1. ASSUME NEW none, none = <<>> PROVE Len(<<none>>) = 1
    OBVIOUS
  <2>2. Len(F[0]) = 1
    BY <1>1, <2>1, Zenon
  <2> QED BY <1>0, <2>2
<1>3. ASSUME NEW n \in 1 .. N, n - 1 \in T PROVE n \in T
  <2>1. /\ n - 1 \in 0 .. N /\ Len(F[n - 1]) = 1
        /\ F[n - 1] \in Piled(X) /\ F[n] = ParaStep(tx, F[n - 1], lines[n])
    BY <1>1, <1>3
  <2>2. Len(F[n]) = 1
    BY <1>0, <2>1, ParaStepIs
  <2> QED BY <2>2
<1>4. Len(all) = 1
  <2>1. 0 .. N \subseteq T
    <3> HIDE DEF T, N
    <3> QED BY <1>0, <1>2, <1>3, LoopInduction
  <2>2. N \in 0 .. N
    BY <1>0
  <2> QED BY <2>1, <2>2
<1>5. all \in Seq(Y)
  BY <1>0, <1>1 DEF Piled
<1> HIDE DEF all, Y
<1> DEFINE S == ToSet(all) \ {<<>>}
           G == OnlyLoop(all, S)
<1> HIDE DEF S
<1>6. /\ Only(all, S) = G[Len(all)] /\ G[0] = <<>>
      /\ \A n \in 1 .. Len(all) : G[n] = IF all[n] \in S THEN Append(G[n - 1], all[n]) ELSE G[n - 1]
  BY <1>5, OnlyLoopIs
<1> HIDE DEF G
<1>7. 1 \in 1 .. Len(all) /\ 1 - 1 = 0
  BY <1>4
<1>8. Only(all, S) = IF all[1] \in S THEN Append(<<>>, all[1]) ELSE <<>>
  BY <1>4, <1>6, <1>7
<1>9. all[1] \in Y
  BY <1>5, <1>7
<1>10. ASSUME NEW none, none = <<>> PROVE Append(none, all[1]) = <<all[1]>>
  <2>1. none \in Seq(Y)
    BY <1>10
  <2> QED BY <1>9, <1>10, <2>1
<1>11. Paragraphs(tx, lines) \in {<<>>, <<all[1]>>}
  BY <1>1, <1>8, <1>10 DEF S
<1> QED
  BY <1>9, <1>11 DEF Y

-----------------------------------------------------------------------------
(* chunk_document: lists that are split.                                    *)

(* What SplitList keeps between two items.                                  *)
Listing(X) == [out : Seq(Seq(X)), items : Seq(X), tokens : Nat]

(* The loop of SplitList.                                                   *)
ListLoop(tx, lines, prefix) ==
  CHOOSE st : st = [k \in 0 .. Len(lines) |->
    IF k = 0 THEN [out |-> <<>>, items |-> <<>>, tokens |-> prefix]
    ELSE AddItem(tx, st[k - 1], lines[k], prefix)]

(* The two cases of an item, as records.                                    *)
LEMMA AddItemIs ==
  ASSUME NEW tx \in Text, NEW st \in Listing(1 .. Len(tx)), NEW n \in 1 .. Len(tx), NEW prefix \in Nat
  PROVE  /\ AddItem(tx, st, n, prefix) \in Listing(1 .. Len(tx))
         /\ st.tokens + Size(tx[n]) > SoftMax /\ st.items # <<>> =>
              AddItem(tx, st, n, prefix) =
                [out |-> Append(st.out, Tokens(tx, st.items)), items |-> <<n>>,
                 tokens |-> prefix + Size(tx[n])]
         /\ st.tokens + Size(tx[n]) <= SoftMax \/ st.items = <<>> =>
              AddItem(tx, st, n, prefix) =
                [out |-> st.out, items |-> Append(st.items, n), tokens |-> st.tokens + Size(tx[n])]
<1> DEFINE X == 1 .. Len(tx)
           Y == Seq(X)
           size == Size(tx[n])
<1>0. st.out \in Seq(Y) /\ st.items \in Seq(X) /\ st.tokens \in Nat
  BY DEF Listing
<1>1. size \in Nat
  <2>1. tx[n] \in LineKind
    BY DEF Text
  <2> QED BY <2>1, SizeIs
<1>2. Tokens(tx, st.items) \in Y
  BY <1>0, TokensSet DEF Text
<1>3. n \in X /\ SoftMax \in Nat
  BY ChunkerAssumption
<1> HIDE DEF X, size
<1>4. <<n>> \in Seq(X) /\ Append(st.items, n) \in Seq(X)
  BY <1>0, <1>3
<1> HIDE DEF Y
<1>5. Append(st.out, Tokens(tx, st.items)) \in Seq(Y)
  BY <1>0, <1>2
<1>6. CASE st.tokens + size > SoftMax /\ st.items # <<>>
  <2>1. AddItem(tx, st, n, prefix) =
          [out |-> Append(st.out, Tokens(tx, st.items)), items |-> <<n>>, tokens |-> prefix + size]
    BY <1>6, Zenon DEF AddItem, size
  <2>2. prefix + size \in Nat
    BY <1>1
  <2>3. AddItem(tx, st, n, prefix) \in [out : Seq(Y), items : Seq(X), tokens : Nat]
    BY <1>4, <1>5, <2>1, <2>2
  <2>4. ~(st.tokens + size <= SoftMax)
    BY <1>0, <1>1, <1>3, <1>6
  <2> QED BY <1>6, <2>1, <2>3, <2>4 DEF Listing, X, Y, size
<1>7. CASE ~(st.tokens + size > SoftMax /\ st.items # <<>>)
  <2> DEFINE a == Append(st.items, n)
             t == st.tokens + size
             w == [st EXCEPT !.items = a]
             v == [w EXCEPT !.tokens = t]
  <2>1. AddItem(tx, st, n, prefix) = v
    BY <1>7, Zenon DEF AddItem, size
  <2>2. st \in [out : Seq(Y), items : Seq(X), tokens : Nat]
    BY DEF Listing, X, Y
  <2>3. a \in Seq(X) /\ t \in Nat
    BY <1>0, <1>1, <1>4
  <2> HIDE DEF a, t
  <2>4. w = [out |-> st.out, items |-> a, tokens |-> st.tokens]
    BY <2>2
  <2> HIDE DEF w
  <2>5. v = [out |-> st.out, items |-> a, tokens |-> t]
    BY <2>4
  <2> HIDE DEF v
  <2>6. v \in [out : Seq(Y), items : Seq(X), tokens : Nat]
    BY <1>0, <2>3, <2>5
  <2> QED BY <1>7, <2>1, <2>5, <2>6 DEF Listing, X, Y, a, t, size
<1> QED
  BY <1>6, <1>7

LEMMA ListLoopIs ==
  ASSUME NEW tx \in Text, NEW lines \in Seq(1 .. Len(tx)), NEW prefix \in Nat
  PROVE  LET F == ListLoop(tx, lines, prefix)
         IN  /\ SplitList(tx, lines, prefix) =
                  Append(F[Len(lines)].out, Tokens(tx, F[Len(lines)].items))
             /\ F[0] = [out |-> <<>>, items |-> <<>>, tokens |-> prefix]
             /\ \A n \in 1 .. Len(lines) : F[n] = AddItem(tx, F[n - 1], lines[n], prefix)
             /\ \A n \in 0 .. Len(lines) : F[n] \in Listing(1 .. Len(tx))
<1> DEFINE N == Len(lines)
           X == 1 .. Len(tx)
           S == Listing(X)
           base == [out |-> <<>>, items |-> <<>>, tokens |-> prefix]
           Def(f) == [k \in 0 .. Len(lines) |->
             IF k = 0 THEN base ELSE AddItem(tx, f[k - 1], lines[k], prefix)]
           step == [k \in 1 .. N |-> [s \in S |-> AddItem(tx, s, lines[k], prefix)]]
           F == ListLoop(tx, lines, prefix)
<1>1. SplitList(tx, lines, prefix) = Append(F[Len(lines)].out, Tokens(tx, F[Len(lines)].items))
  BY DEF SplitList, ListLoop
<1>l. \A k \in 1 .. N : lines[k] \in X
  OBVIOUS
<1>2. base \in S
  <2> DEFINE Y == Seq(X)
  <2> HIDE DEF Y
  <2>1. <<>> \in Seq(Y)
    OBVIOUS
  <2>2. <<>> \in Seq(X)
    OBVIOUS
  <2> QED BY <2>1, <2>2 DEF Listing, Y
<1> HIDE DEF base
<1>3. ASSUME NEW k \in 1 .. N, NEW s \in S PROVE AddItem(tx, s, lines[k], prefix) \in S
  BY <1>l, AddItemIs
<1> HIDE DEF S
<1>4. IsLoop(N, S, base, step)
  <2>1. N \in Nat
    OBVIOUS
  <2> HIDE DEF N
  <2> QED BY <1>2, <1>3, <2>1 DEF IsLoop
<1>5. \E f : f = Def(f)
  <2>0. PICK f : Computes(f, N, S, base, step)
    <3> HIDE DEF step, N
    <3> QED BY <1>4, LoopExists
  <2>1. /\ f \in [0 .. N -> S] /\ f[0] = base
        /\ \A n \in 1 .. N : f[n] = step[n][f[n - 1]]
    <3> HIDE DEF step, N
    <3> QED BY <2>0 DEF Computes
  <2>2. ASSUME NEW n \in 0 .. N PROVE f[n] = Def(f)[n]
    <3>1. CASE n = 0
      BY <2>1, <3>1
    <3>2. CASE n # 0
      <4>1. n \in 1 .. N /\ n - 1 \in 0 .. N
        BY <3>2
      <4>2. step[n][f[n - 1]] = AddItem(tx, f[n - 1], lines[n], prefix)
        BY <2>1, <4>1
      <4>3. f[n] = AddItem(tx, f[n - 1], lines[n], prefix)
        BY <2>1, <4>1, <4>2
      <4> QED BY <3>2, <4>1, <4>3
    <3> QED BY <3>1, <3>2
  <2>3. f = Def(f)
    BY <2>1, <2>2
  <2> QED BY <2>3
<1>6. F = Def(F)
  BY <1>5, Zenon DEF ListLoop, base
<1>7. F[0] = base /\ \A n \in 1 .. N : F[n] = AddItem(tx, F[n - 1], lines[n], prefix)
  <2>1. ASSUME NEW f
        PROVE  Def(f)[0] = base /\ \A n \in 1 .. N : Def(f)[n] = AddItem(tx, f[n - 1], lines[n], prefix)
    OBVIOUS
  <2> HIDE DEF F, Def
  <2> QED BY <1>6, <2>1
<1>8. \A n \in 0 .. N : F[n] \in S
  <2>1. N \in Nat /\ F[0] \in S
    BY <1>2, <1>7
  <2>2. ASSUME NEW n \in 1 .. N, F[n - 1] \in S PROVE F[n] \in S
    <3> HIDE DEF F
    <3> QED BY <1>3, <1>7, <2>2
  <2> HIDE DEF F, N
  <2> QED BY <2>1, <2>2, LoopStays
<1> QED
  BY <1>1, <1>7, <1>8 DEF S, base

(* A part of a list: short enough, or one item.                             *)
Fits(prefix, part) == prefix + Len(part) <= SoftMax \/ Cardinality(ToSet(part)) = 1

(* The parts of a list fit, and every item is in one.                       *)
LEMMA SplitListFits ==
  ASSUME NEW tx \in Text, NEW lines \in Seq(1 .. Len(tx)), NEW prefix \in Nat,
         lines # <<>>, \A n \in ToSet(lines) : tx[n] # "blank"
  PROVE  /\ SplitList(tx, lines, prefix) \in Seq(Seq(1 .. Len(tx)))
         /\ \A p \in ToSet(SplitList(tx, lines, prefix)) : Fits(prefix, p)
         /\ \A n \in ToSet(lines) : InOne(SplitList(tx, lines, prefix), n)
<1> DEFINE N == Len(lines)
           X == 1 .. Len(tx)
           Y == Seq(X)
           F == ListLoop(tx, lines, prefix)
           IsOpen(st) == /\ st.tokens = prefix + Len(Tokens(tx, st.items))
                         /\ \A m \in ToSet(st.items) : tx[m] # "blank"
                         /\ st.items # <<>> => Fits(prefix, Tokens(tx, st.items))
           Shut(st) == \A p \in ToSet(st.out) : Fits(prefix, p)
           Here(st, y) == InOne(st.out, y) \/ y \in ToSet(st.items)
           Ok(n) == /\ IsOpen(F[n]) /\ Shut(F[n])
                    /\ n # 0 => F[n].items # <<>>
                    /\ \A i \in 1 .. n : Here(F[n], lines[i])
           T == {n \in 0 .. N : Ok(n)}
           end == F[N]
<1>1. /\ SplitList(tx, lines, prefix) = Append(end.out, Tokens(tx, end.items))
      /\ F[0] = [out |-> <<>>, items |-> <<>>, tokens |-> prefix]
      /\ \A n \in 1 .. N : F[n] = AddItem(tx, F[n - 1], lines[n], prefix)
      /\ \A n \in 0 .. N : F[n] \in Listing(X)
  BY ListLoopIs
<1>0. N \in Nat /\ N # 0 /\ \A k \in 1 .. N : lines[k] \in X /\ tx[lines[k]] # "blank"
  <2>1. \A k \in 1 .. N : lines[k] \in ToSet(lines)
    BY InSeq
  <2> QED BY <2>1
<1> HIDE DEF F
<1>2. 0 \in T
  <2>1. F[0].items = <<>> /\ F[0].out = <<>> /\ F[0].tokens = prefix
    BY <1>1
  <2>2. Tokens(tx, <<>>) = <<>> /\ ToSet(<<>>) = {}
    <3>1. ASSUME NEW none, none = <<>> PROVE Tokens(tx, none) = none
      <4>1. none \in Seq(X) /\ 1 \in 1 .. N /\ lines[1] \in X
        BY <1>0, <3>1
      <4> QED BY <3>1, <4>1, TokensMore DEF Text
    <3> QED BY <3>1, SetOfFew
  <2>3. ASSUME NEW none, none = <<>> PROVE Len(none) = 0
    BY <2>3
  <2>4. IsOpen(F[0]) /\ Shut(F[0])
    BY <2>1, <2>2, <2>3
  <2> QED BY <1>0, <2>4
<1>3. ASSUME NEW n \in 1 .. N, n - 1 \in T PROVE n \in T
  <2> DEFINE st == F[n - 1]
             m == lines[n]
             size == Size(tx[m])
             next == AddItem(tx, st, m, prefix)
  <2>1. /\ n - 1 \in 0 .. N /\ st \in Listing(X) /\ F[n] = next /\ m \in X /\ tx[m] # "blank"
    BY <1>0, <1>1
  <2>2. IsOpen(st) /\ Shut(st) /\ \A i \in 1 .. n - 1 : Here(st, lines[i])
    BY <1>3
  <2> HIDE DEF st, m
  <2>3. st.out \in Seq(Y) /\ st.items \in Seq(X) /\ st.tokens \in Nat /\ SoftMax \in Nat
    BY <2>1, ChunkerAssumption DEF Listing
  <2>4. size \in Nat
    <3>1. tx[m] \in LineKind
      BY <2>1 DEF Text
    <3> QED BY <3>1, SizeIs
  <2>5. Tokens(tx, st.items) \in Y /\ Len(Tokens(tx, st.items)) \in Nat
    BY <2>3, TokensSet DEF Text
  <2> HIDE DEF size
  <2>6. /\ Tokens(tx, <<m>>) = Copies(tx, m) /\ ToSet(Copies(tx, m)) = {m}
        /\ Len(Copies(tx, m)) = size
        /\ Len(Tokens(tx, Append(st.items, m))) = Len(Tokens(tx, st.items)) + size
    <3>1. /\ Tokens(tx, <<m>>) = Copies(tx, m)
          /\ Len(Tokens(tx, Append(st.items, m))) = Len(Tokens(tx, st.items)) + Size(tx[m])
      BY <2>1, <2>3, TokensMore DEF Text
    <3>2. ToSet(Copies(tx, m)) = {m} /\ Len(Copies(tx, m)) = Size(tx[m])
      BY <2>1, CopiesIs DEF Text
    <3> QED BY <3>1, <3>2 DEF size
  <2>7. Fits(prefix, Tokens(tx, <<m>>))
    BY <2>6, FS_Singleton DEF Fits
  <2>8. CASE st.tokens + size > SoftMax /\ st.items # <<>>
    <3>1. next = [out |-> Append(st.out, Tokens(tx, st.items)), items |-> <<m>>, tokens |-> prefix + size]
      BY <2>1, <2>8, AddItemIs DEF size
    <3> HIDE DEF next
    <3>2. /\ next.out = Append(st.out, Tokens(tx, st.items)) /\ next.items = <<m>>
          /\ next.tokens = prefix + size
      BY <3>1
    <3>3. ToSet(next.out) = ToSet(st.out) \cup {Tokens(tx, st.items)} /\ ToSet(next.items) = {m}
      <4> HIDE DEF Y
      <4> QED BY <2>3, <2>5, <3>2, SetOfAppend, SetOfFew
    <3>4. IsOpen(next)
      BY <2>1, <2>6, <2>7, <3>2, <3>3
    <3>5. Shut(next)
      BY <2>2, <2>8, <3>3
    <3>6. next.items # <<>>
      BY <3>2
    <3>7. ASSUME NEW i \in 1 .. n PROVE Here(next, lines[i])
      <4>1. CASE i = n
        BY <3>3, <4>1 DEF m
      <4>2. CASE i # n
        <5>1. i \in 1 .. n - 1
          BY <4>2
        <5>2. Here(st, lines[i])
          BY <2>2, <5>1
        <5>3. lines[i] \in ToSet(st.items) => lines[i] \in ToSet(Tokens(tx, st.items))
          BY <2>2, <2>3, TokensSet DEF Text
        <5> QED BY <3>3, <5>2, <5>3 DEF InOne
      <4> QED BY <4>1, <4>2
    <3> HIDE DEF IsOpen, Shut, Here
    <3>8. Ok(n)
      BY <2>1, <3>4, <3>5, <3>6, <3>7
    <3> HIDE DEF Ok
    <3> QED BY <3>8
  <2>9. CASE ~(st.tokens + size > SoftMax /\ st.items # <<>>)
    <3>0. st.tokens + size <= SoftMax \/ st.items = <<>>
      BY <2>3, <2>4, <2>9
    <3>1. next = [out |-> st.out, items |-> Append(st.items, m), tokens |-> st.tokens + size]
      BY <2>1, <3>0, AddItemIs DEF size
    <3> HIDE DEF next
    <3>2. next.out = st.out /\ next.items = Append(st.items, m) /\ next.tokens = st.tokens + size
      BY <3>1
    <3>3. ToSet(next.items) = ToSet(st.items) \cup {m} /\ next.items # <<>>
      <4>1. ToSet(Append(st.items, m)) = ToSet(st.items) \cup {m}
        BY <2>1, <2>3, SetOfAppend
      <4>2. Append(st.items, m) # <<>>
        <5>1. Len(Append(st.items, m)) = Len(st.items) + 1 /\ Len(st.items) \in Nat
          BY <2>1, <2>3
        <5> DEFINE w == Append(st.items, m)
        <5> HIDE DEF w
        <5>2. Len(w) >= 1
          BY <5>1 DEF w
        <5>3. w # <<>>
          BY <5>2
        <5> QED BY <5>3 DEF w
      <4> QED BY <3>2, <4>1, <4>2
    <3>4. next.tokens = prefix + Len(Tokens(tx, next.items))
      <4>1. st.tokens = prefix + Len(Tokens(tx, st.items))
        BY <2>2
      <4>2. Len(Tokens(tx, next.items)) = Len(Tokens(tx, st.items)) + size
        BY <2>6, <3>2
      <4> DEFINE a == Len(Tokens(tx, st.items))
      <4> HIDE DEF a
      <4>3. st.tokens = prefix + a /\ Len(Tokens(tx, next.items)) = a + size /\ a \in Nat
        BY <2>5, <4>1, <4>2 DEF a
      <4> QED BY <2>4, <3>2, <4>3
    <3>5. Fits(prefix, Tokens(tx, next.items))
      <4>1. CASE st.items = <<>>
        <5>1. ASSUME NEW none, none = <<>> PROVE Append(none, m) = <<m>>
          <6>1. none \in Seq(X)
            BY <5>1
          <6> QED BY <2>1, <5>1, <6>1
        <5>2. next.items = <<m>>
          BY <3>2, <4>1, <5>1
        <5> QED BY <2>7, <5>2
      <4>2. CASE st.tokens + size <= SoftMax
        BY <3>2, <3>4, <4>2 DEF Fits
      <4> QED BY <3>0, <4>1, <4>2
    <3>6. IsOpen(next)
      BY <2>1, <2>2, <3>3, <3>4, <3>5
    <3>7. Shut(next)
      BY <2>2, <3>2
    <3>8. ASSUME NEW i \in 1 .. n PROVE Here(next, lines[i])
      <4>1. CASE i = n
        BY <3>3, <4>1 DEF m
      <4>2. CASE i # n
        <5>1. i \in 1 .. n - 1
          BY <4>2
        <5>2. Here(st, lines[i])
          BY <2>2, <5>1
        <5> QED BY <3>2, <3>3, <5>2
      <4> QED BY <4>1, <4>2
    <3> HIDE DEF IsOpen, Shut, Here
    <3>9. Ok(n)
      BY <2>1, <3>3, <3>6, <3>7, <3>8
    <3> HIDE DEF Ok
    <3> QED BY <3>9
  <2> QED BY <2>8, <2>9
<1>4. Ok(N) /\ end \in Listing(X)
  <2>1. 0 .. N \subseteq T
    <3> HIDE DEF T, N
    <3> QED BY <1>0, <1>2, <1>3, LoopInduction
  <2>2. N \in 0 .. N
    BY <1>0
  <2> QED BY <1>1, <2>1, <2>2
<1> HIDE DEF T
<1>5. IsOpen(end) /\ Shut(end) /\ end.items # <<>> /\ \A i \in 1 .. N : Here(end, lines[i])
  BY <1>0, <1>4
<1>6. end.out \in Seq(Y) /\ end.items \in Seq(X)
  BY <1>4 DEF Listing
<1> HIDE DEF end
<1>7. Tokens(tx, end.items) \in Y /\ ToSet(Tokens(tx, end.items)) = ToSet(end.items)
  <2>1. /\ Tokens(tx, end.items) \in Y
        /\ ToSet(Tokens(tx, end.items)) = {n \in ToSet(end.items) : tx[n] # "blank"}
    BY <1>6, TokensSet DEF Text
  <2> QED BY <1>5, <2>1
<1> HIDE DEF Y
<1>8. /\ SplitList(tx, lines, prefix) \in Seq(Y)
      /\ ToSet(SplitList(tx, lines, prefix)) = ToSet(end.out) \cup {Tokens(tx, end.items)}
  BY <1>1, <1>6, <1>7, SetOfAppend
<1>9. \A p \in ToSet(SplitList(tx, lines, prefix)) : Fits(prefix, p)
  BY <1>5, <1>8
<1>10. ASSUME NEW n \in ToSet(lines) PROVE InOne(SplitList(tx, lines, prefix), n)
  <2>1. PICK i \in 1 .. N : n = lines[i]
    BY OfSeq
  <2> QED BY <1>5, <1>7, <1>8, <2>1 DEF InOne
<1> QED
  BY <1>8, <1>9, <1>10 DEF Y

-----------------------------------------------------------------------------
(* chunk_document: the state of the Markdown parser, and its flushes.       *)

(* Blocks, sections and the state of the Markdown parser.                   *)
BlockTypes == {"paragraph", "list", "table", "code", "heading", "metadata", "message"}

ABlock(tx) == [type : BlockTypes, lines : Seq(1 .. Len(tx))]

ASection(tx) == [head : 0 .. Len(tx), blocks : Seq(ABlock(tx))]

Parsing(tx) ==
  {st \in [sections : Seq(ASection(tx)), para : Seq(1 .. Len(tx)), list : Seq(1 .. Len(tx)),
           table : Seq(1 .. Len(tx))] : st.sections # <<>>}

(* The block stands in a section under the heading.                         *)
InBlocks(st, h, b) ==
  \E i \in 1 .. Len(st.sections) : st.sections[i].head = h /\ b \in ToSet(st.sections[i].blocks)

(* The heading of the section being read, and a block added to that         *)
(* section.                                                                 *)
LastHead(st) == st.sections[Len(st.sections)].head

Put(st, block) == [st EXCEPT !.sections[Len(st.sections)].blocks = Append(@, block)]

LEMMA ParsingIs ==
  ASSUME NEW tx, NEW st \in Parsing(tx)
  PROVE  /\ st \in [sections : Seq(ASection(tx)), para : Seq(1 .. Len(tx)), list : Seq(1 .. Len(tx)),
                    table : Seq(1 .. Len(tx))]
         /\ st.sections \in Seq(ASection(tx)) /\ Len(st.sections) \in 1 .. Len(st.sections)
         /\ st.para \in Seq(1 .. Len(tx)) /\ st.list \in Seq(1 .. Len(tx)) /\ st.table \in Seq(1 .. Len(tx))
         /\ \A i \in 1 .. Len(st.sections) :
              /\ st.sections[i] \in ASection(tx) /\ st.sections[i].head \in 0 .. Len(tx)
              /\ st.sections[i].blocks \in Seq(ABlock(tx))
<1>1. /\ st.sections \in Seq(ASection(tx)) /\ st.sections # <<>>
      /\ st.para \in Seq(1 .. Len(tx)) /\ st.list \in Seq(1 .. Len(tx)) /\ st.table \in Seq(1 .. Len(tx))
  BY DEF Parsing
<1> DEFINE A == ASection(tx)
<1> HIDE DEF A
<1>2. Len(st.sections) \in 1 .. Len(st.sections)
  <2>1. st.sections \in Seq(A) /\ st.sections # <<>>
    BY <1>1 DEF A
  <2> QED BY <2>1
<1>3. ASSUME NEW i \in 1 .. Len(st.sections)
      PROVE  /\ st.sections[i] \in ASection(tx) /\ st.sections[i].head \in 0 .. Len(tx)
             /\ st.sections[i].blocks \in Seq(ABlock(tx))
  <2>1. st.sections[i] \in A
    BY <1>1 DEF A
  <2> QED BY <2>1 DEF A, ASection
<1>4. st \in [sections : Seq(ASection(tx)), para : Seq(1 .. Len(tx)), list : Seq(1 .. Len(tx)),
                    table : Seq(1 .. Len(tx))]
  BY DEF Parsing
<1> QED
  BY <1>1, <1>2, <1>3, <1>4

(* A block that is added is in the section being read; nothing else         *)
(* changes.                                                                 *)
LEMMA PutIs ==
  ASSUME NEW tx, NEW st \in Parsing(tx), NEW block \in ABlock(tx)
  PROVE  /\ Put(st, block) \in Parsing(tx)
         /\ Put(st, block).para = st.para /\ Put(st, block).list = st.list
         /\ Put(st, block).table = st.table
         /\ LastHead(Put(st, block)) = LastHead(st)
         /\ \A h, b : InBlocks(Put(st, block), h, b) <=>
                        InBlocks(st, h, b) \/ (h = LastHead(st) /\ b = block)
<1> DEFINE L == Len(st.sections)
           old == st.sections[L]
           new == [old EXCEPT !.blocks = Append(old.blocks, block)]
           secs == [st.sections EXCEPT ![L] = new]
           r == Put(st, block)
           X == 1 .. Len(tx)
           A == ASection(tx)
           B == ABlock(tx)
<1>0. /\ st \in [sections : Seq(A), para : Seq(X), list : Seq(X), table : Seq(X)]
      /\ st.sections \in Seq(A) /\ L \in 1 .. L
      /\ old \in A /\ old.head \in 0 .. Len(tx) /\ old.blocks \in Seq(B)
  BY ParsingIs
<1>1. r = [st EXCEPT !.sections = secs]
  BY DEF Put
<1>2. new = [head |-> old.head, blocks |-> Append(old.blocks, block)]
  <2>1. old \in [head : 0 .. Len(tx), blocks : Seq(B)]
    BY <1>0 DEF ASection
  <2> HIDE DEF old
  <2> QED BY <2>1
<1> HIDE DEF B, old, new
<1>3. /\ Append(old.blocks, block) \in Seq(B)
      /\ ToSet(Append(old.blocks, block)) = ToSet(old.blocks) \cup {block}
  <2>1. block \in B
    BY DEF B
  <2> QED BY <1>0, <2>1, SetOfAppend
<1>4. new \in A /\ new.head = old.head /\ new.blocks = Append(old.blocks, block)
  BY <1>0, <1>2, <1>3 DEF ASection, B
<1> HIDE DEF A
<1>5. /\ secs \in Seq(A) /\ Len(secs) = L
      /\ \A j \in 1 .. L : secs[j] = IF j = L THEN new ELSE st.sections[j]
  BY <1>0, <1>4, ExceptSeq
<1> HIDE DEF secs
<1>6. r = [sections |-> secs, para |-> st.para, list |-> st.list, table |-> st.table]
  <2> HIDE DEF r, X
  <2> QED BY <1>0, <1>1
<1> HIDE DEF r
<1>7. r.sections = secs /\ r.para = st.para /\ r.list = st.list /\ r.table = st.table
  BY <1>6
<1>8. secs # <<>>
  BY <1>0, <1>5
<1>9. r \in Parsing(tx)
  <2>1. st.para \in Seq(X) /\ st.list \in Seq(X) /\ st.table \in Seq(X)
    BY <1>0
  <2> HIDE DEF X
  <2>2. r \in [sections : Seq(A), para : Seq(X), list : Seq(X), table : Seq(X)]
    BY <1>5, <1>6, <2>1
  <2> QED BY <1>7, <1>8, <2>2 DEF Parsing, X, A
<1>10. LastHead(r) = LastHead(st)
  BY <1>0, <1>4, <1>5, <1>7 DEF LastHead, old
<1>11. ASSUME NEW h, NEW b
       PROVE  InBlocks(r, h, b) <=> InBlocks(st, h, b) \/ (h = LastHead(st) /\ b = block)
  <2>1. ASSUME InBlocks(r, h, b)
        PROVE  InBlocks(st, h, b) \/ (h = LastHead(st) /\ b = block)
    <3>1. PICK i \in 1 .. L : secs[i].head = h /\ b \in ToSet(secs[i].blocks)
      BY <1>5, <1>7, <2>1 DEF InBlocks
    <3>2. CASE i = L
      <4>1. h = old.head /\ (b \in ToSet(old.blocks) \/ b = block)
        BY <1>3, <1>4, <1>5, <3>1, <3>2
      <4> QED BY <1>0, <4>1 DEF InBlocks, LastHead, old
    <3>3. CASE i # L
      BY <1>5, <3>1, <3>3 DEF InBlocks
    <3> QED BY <3>2, <3>3
  <2>2. ASSUME InBlocks(st, h, b) PROVE InBlocks(r, h, b)
    <3>1. PICK i \in 1 .. L : st.sections[i].head = h /\ b \in ToSet(st.sections[i].blocks)
      BY <2>2 DEF InBlocks
    <3>2. CASE i = L
      <4>1. secs[i].head = h /\ b \in ToSet(secs[i].blocks)
        BY <1>3, <1>4, <1>5, <3>1, <3>2 DEF old
      <4> QED BY <1>5, <1>7, <4>1 DEF InBlocks
    <3>3. CASE i # L
      BY <1>5, <1>7, <3>1, <3>3 DEF InBlocks
    <3> QED BY <3>2, <3>3
  <2>3. ASSUME h = LastHead(st), b = block PROVE InBlocks(r, h, b)
    <3>1. secs[L].head = h /\ b \in ToSet(secs[L].blocks)
      BY <1>0, <1>3, <1>4, <1>5, <2>3 DEF LastHead, old
    <3> QED BY <1>0, <1>5, <1>7, <3>1 DEF InBlocks
  <2> QED BY <2>1, <2>2, <2>3
<1> QED
  BY <1>7, <1>9, <1>10, <1>11 DEF r

LEMMA AddBlockIs ==
  ASSUME NEW tx, NEW st \in Parsing(tx), NEW type \in BlockTypes, NEW lines \in Seq(1 .. Len(tx))
  PROVE  LET r == AddBlock(st, type, lines)
         IN  /\ r \in Parsing(tx)
             /\ r.para = st.para /\ r.list = st.list /\ r.table = st.table
             /\ LastHead(r) = LastHead(st)
             /\ \A h, b : InBlocks(r, h, b) <=>
                            \/ InBlocks(st, h, b)
                            \/ h = LastHead(st) /\ b = Block(type, lines) /\ lines # <<>>
<1>1. Block(type, lines) \in ABlock(tx)
  BY DEF Block, ABlock
<1>2. AddBlock(st, type, lines) = IF lines = <<>> THEN st ELSE Put(st, Block(type, lines))
  BY DEF AddBlock, Put
<1>3. CASE lines = <<>>
  BY <1>2, <1>3
<1>4. CASE lines # <<>>
  <2>1. AddBlock(st, type, lines) = Put(st, Block(type, lines))
    BY <1>2, <1>4
  <2> QED BY <1>1, <1>4, <2>1, PutIs
<1> QED
  BY <1>3, <1>4

(* A field of the parser's state that is assigned, as a record.             *)
LEMMA Replacing ==
  ASSUME NEW S, NEW T, NEW st \in [sections : S, para : T, list : T, table : T], NEW v
  PROVE  /\ [st EXCEPT !.para = v] =
              [sections |-> st.sections, para |-> v, list |-> st.list, table |-> st.table]
         /\ [st EXCEPT !.list = v] =
              [sections |-> st.sections, para |-> st.para, list |-> v, table |-> st.table]
         /\ [st EXCEPT !.table = v] =
              [sections |-> st.sections, para |-> st.para, list |-> st.list, table |-> v]
<1>1. [st EXCEPT !.para = v] = [sections |-> st.sections, para |-> v, list |-> st.list, table |-> st.table]
  OBVIOUS
<1>2. [st EXCEPT !.list = v] = [sections |-> st.sections, para |-> st.para, list |-> v, table |-> st.table]
  OBVIOUS
<1>3. [st EXCEPT !.table = v] = [sections |-> st.sections, para |-> st.para, list |-> st.list, table |-> v]
  OBVIOUS
<1> QED BY <1>1, <1>2, <1>3, Zenon

WithPara(st, lines)  == [st EXCEPT !.para = lines]
WithList(st, lines)  == [st EXCEPT !.list = lines]
WithTable(st, lines) == [st EXCEPT !.table = lines]

(* No block is added, and no section.                                       *)
SameBlocks(tx, st, r) ==
  /\ r \in Parsing(tx) /\ LastHead(r) = LastHead(st)
  /\ \A h, b : InBlocks(r, h, b) <=> InBlocks(st, h, b)

LEMMA PendingIs ==
  ASSUME NEW tx, NEW st \in Parsing(tx), NEW lines \in Seq(1 .. Len(tx))
  PROVE  /\ LET r == WithPara(st, lines)
            IN  SameBlocks(tx, st, r) /\ r.para = lines /\ r.list = st.list /\ r.table = st.table
         /\ LET r == WithList(st, lines)
            IN  SameBlocks(tx, st, r) /\ r.para = st.para /\ r.list = lines /\ r.table = st.table
         /\ LET r == WithTable(st, lines)
            IN  SameBlocks(tx, st, r) /\ r.para = st.para /\ r.list = st.list /\ r.table = lines
<1> USE DEF WithPara, WithList, WithTable
<1> DEFINE X == 1 .. Len(tx)
           A == ASection(tx)
           P == [st EXCEPT !.para = lines]
           Q == [st EXCEPT !.list = lines]
           R == [st EXCEPT !.table = lines]
<1>0. /\ st \in [sections : Seq(A), para : Seq(X), list : Seq(X), table : Seq(X)]
      /\ st.sections # <<>> /\ lines \in Seq(X)
  BY DEF Parsing
<1> HIDE DEF A, X
<1> DEFINE SA == Seq(A)
           SX == Seq(X)
<1>d. st \in [sections : SA, para : SX, list : SX, table : SX]
  BY <1>0
<1> HIDE DEF SA, SX
<1>a. P = [sections |-> st.sections, para |-> lines, list |-> st.list, table |-> st.table]
  BY <1>d, Replacing
<1>b. Q = [sections |-> st.sections, para |-> st.para, list |-> lines, table |-> st.table]
  BY <1>d, Replacing
<1>c. R = [sections |-> st.sections, para |-> st.para, list |-> st.list, table |-> lines]
  BY <1>d, Replacing
<1> HIDE DEF P, Q, R
<1>1. /\ P = [sections |-> st.sections, para |-> lines, list |-> st.list, table |-> st.table]
      /\ Q = [sections |-> st.sections, para |-> st.para, list |-> lines, table |-> st.table]
      /\ R = [sections |-> st.sections, para |-> st.para, list |-> st.list, table |-> lines]
  BY <1>a, <1>b, <1>c, Zenon
<1>2. ASSUME NEW r \in {P, Q, R} PROVE r.sections = st.sections /\ r \in Parsing(tx)
  <2> HIDE DEF P, Q, R
  <2>1. CASE r = P
    BY <1>0, <1>1, <2>1 DEF Parsing, A, X
  <2>2. CASE r = Q
    BY <1>0, <1>1, <2>2 DEF Parsing, A, X
  <2>3. CASE r = R
    BY <1>0, <1>1, <2>3 DEF Parsing, A, X
  <2> QED BY <2>1, <2>2, <2>3
<1>3. /\ P.para = lines /\ P.list = st.list /\ P.table = st.table
      /\ Q.para = st.para /\ Q.list = lines /\ Q.table = st.table
      /\ R.para = st.para /\ R.list = st.list /\ R.table = lines
  <2> HIDE DEF P, Q, R
  <2> QED BY <1>1
<1> HIDE DEF P, Q, R
<1>4. ASSUME NEW r \in {P, Q, R} PROVE SameBlocks(tx, st, r)
  BY <1>2 DEF LastHead, InBlocks, SameBlocks
<1> QED
  BY <1>3, <1>4 DEF P, Q, R

(* The lines that wait to be flushed.                                       *)
Pending(st) == ToSet(st.para) \cup ToSet(st.list) \cup ToSet(st.table)

(* A block that a flush adds: some of the lines that waited.                *)
Flushed(tx, st, h, b) ==
  /\ h = LastHead(st) /\ b.type \in {"paragraph", "list", "table"}
  /\ b.lines \in Seq(1 .. Len(tx)) /\ b.lines # <<>> /\ ToSet(b.lines) \subseteq Pending(st)

(* The line is in a block that is no code.                                  *)
InBlock(st, h, m) == \E b : InBlocks(st, h, b) /\ b.type # "code" /\ m \in ToSet(b.lines)

(* Lines that waited are moved to blocks of the section being read, and     *)
(* none is lost.                                                            *)
Flushes(tx, st, r) ==
  /\ r \in Parsing(tx) /\ LastHead(r) = LastHead(st) /\ Pending(r) \subseteq Pending(st)
  /\ \A h, b : InBlocks(st, h, b) => InBlocks(r, h, b)
  /\ \A h, b : InBlocks(r, h, b) => InBlocks(st, h, b) \/ Flushed(tx, st, h, b)
  /\ \A m \in Pending(st) : m \in Pending(r) \/ InBlock(r, LastHead(st), m)

(* One flush: the lines of one kind become a block.                         *)
Moves(tx, st, type, lines, r) ==
  /\ type \in {"paragraph", "list", "table"} /\ lines \in Seq(1 .. Len(tx))
  /\ ToSet(lines) \subseteq Pending(st)
  /\ r \in Parsing(tx) /\ LastHead(r) = LastHead(AddBlock(st, type, lines))
  /\ \A h, b : InBlocks(r, h, b) <=> InBlocks(AddBlock(st, type, lines), h, b)
  /\ Pending(r) \subseteq Pending(st) /\ Pending(st) \subseteq Pending(r) \cup ToSet(lines)

LEMMA FlushOf ==
  ASSUME NEW tx, NEW st \in Parsing(tx), NEW type, NEW lines, NEW r, Moves(tx, st, type, lines, r)
  PROVE  Flushes(tx, st, r)
<1> USE DEF Moves
<1> DEFINE mid == AddBlock(st, type, lines)
<1> DEFINE new == Block(type, lines)
<1>0. type \in BlockTypes /\ lines \in Seq(1 .. Len(tx))
  BY DEF BlockTypes
<1>1. /\ LastHead(mid) = LastHead(st)
      /\ \A h, b : InBlocks(mid, h, b) <=>
           InBlocks(st, h, b) \/ (h = LastHead(st) /\ b = new /\ lines # <<>>)
  BY <1>0, AddBlockIs
<1>2. new.type = type /\ new.lines = lines
  BY DEF Block
<1> HIDE DEF new
<1>3. ASSUME NEW h, NEW b, InBlocks(r, h, b)
      PROVE  InBlocks(st, h, b) \/ Flushed(tx, st, h, b)
  <2>1. InBlocks(st, h, b) \/ (h = LastHead(st) /\ b = new /\ lines # <<>>)
    BY <1>1, <1>3
  <2> QED BY <1>2, <2>1 DEF Flushed
<1>4. ASSUME NEW m \in Pending(st) PROVE m \in Pending(r) \/ InBlock(r, LastHead(st), m)
  <2>1. CASE m \in ToSet(lines)
    <3>1. lines # <<>>
      BY <2>1, SetOfFew
    <3>2. InBlocks(r, LastHead(st), new)
      BY <1>1, <3>1
    <3> QED BY <1>2, <2>1, <3>2 DEF InBlock
  <2> QED BY <2>1
<1> QED
  BY <1>1, <1>3, <1>4 DEF Flushes

(* Each of the three flushes empties its own list, and is such a move.      *)
LEMMA FlushParaIs ==
  ASSUME NEW tx, NEW st \in Parsing(tx)
  PROVE  LET r == FlushPara(st)
         IN  Flushes(tx, st, r) /\ r.para = <<>> /\ r.list = st.list /\ r.table = st.table
<1> DEFINE none == <<>>
           mid == AddBlock(st, "paragraph", st.para)
           r == WithPara(mid, none)
<1>0. FlushPara(st) = r
  BY DEF FlushPara, WithPara
<1>1. st.para \in Seq(1 .. Len(tx)) /\ "paragraph" \in BlockTypes
  BY DEF BlockTypes, Parsing
<1>a. mid = AddBlock(st, "paragraph", st.para)
  OBVIOUS
<1>2. mid \in Parsing(tx) /\ mid.para = st.para /\ mid.list = st.list /\ mid.table = st.table
  BY <1>1, AddBlockIs
<1> HIDE DEF mid
<1>3. none \in Seq(1 .. Len(tx)) /\ ToSet(none) = {}
  BY SetOfFew
<1> HIDE DEF none
<1>4. /\ SameBlocks(tx, mid, r)
      /\ r.para = none /\ r.list = mid.list /\ r.table = mid.table
  BY <1>2, <1>3, PendingIs
<1> HIDE DEF r
<1>5. /\ Pending(r) \subseteq Pending(st) /\ Pending(st) \subseteq Pending(r) \cup ToSet(st.para)
      /\ ToSet(st.para) \subseteq Pending(st)
  BY <1>2, <1>3, <1>4 DEF Pending
<1>b. Moves(tx, st, "paragraph", st.para, r)
  BY <1>1, <1>4, <1>5, <1>a DEF Moves, SameBlocks
<1>6. Flushes(tx, st, r)
  BY <1>b, FlushOf
<1> QED
  BY <1>0, <1>2, <1>4, <1>6 DEF none

LEMMA FlushListIs ==
  ASSUME NEW tx, NEW st \in Parsing(tx)
  PROVE  LET r == FlushList(st)
         IN  Flushes(tx, st, r) /\ r.para = st.para /\ r.list = <<>> /\ r.table = st.table
<1> DEFINE none == <<>>
           mid == AddBlock(st, "list", st.list)
           r == WithList(mid, none)
<1>0. FlushList(st) = r
  BY DEF FlushList, WithList
<1>1. st.list \in Seq(1 .. Len(tx)) /\ "list" \in BlockTypes
  BY DEF BlockTypes, Parsing
<1>a. mid = AddBlock(st, "list", st.list)
  OBVIOUS
<1>2. mid \in Parsing(tx) /\ mid.para = st.para /\ mid.list = st.list /\ mid.table = st.table
  BY <1>1, AddBlockIs
<1> HIDE DEF mid
<1>3. none \in Seq(1 .. Len(tx)) /\ ToSet(none) = {}
  BY SetOfFew
<1> HIDE DEF none
<1>4. /\ SameBlocks(tx, mid, r)
      /\ r.para = mid.para /\ r.list = none /\ r.table = mid.table
  BY <1>2, <1>3, PendingIs
<1> HIDE DEF r
<1>5. /\ Pending(r) \subseteq Pending(st) /\ Pending(st) \subseteq Pending(r) \cup ToSet(st.list)
      /\ ToSet(st.list) \subseteq Pending(st)
  BY <1>2, <1>3, <1>4 DEF Pending
<1>b. Moves(tx, st, "list", st.list, r)
  BY <1>1, <1>4, <1>5, <1>a DEF Moves, SameBlocks
<1>6. Flushes(tx, st, r)
  BY <1>b, FlushOf
<1> QED
  BY <1>0, <1>2, <1>4, <1>6 DEF none

LEMMA FlushTableIs ==
  ASSUME NEW tx, NEW st \in Parsing(tx)
  PROVE  LET r == FlushTable(st)
         IN  Flushes(tx, st, r) /\ r.para = st.para /\ r.list = st.list /\ r.table = <<>>
<1> DEFINE none == <<>>
           mid == AddBlock(st, "table", st.table)
           r == WithTable(mid, none)
<1>0. FlushTable(st) = r
  BY DEF FlushTable, WithTable
<1>1. st.table \in Seq(1 .. Len(tx)) /\ "table" \in BlockTypes
  BY DEF BlockTypes, Parsing
<1>a. mid = AddBlock(st, "table", st.table)
  OBVIOUS
<1>2. mid \in Parsing(tx) /\ mid.para = st.para /\ mid.list = st.list /\ mid.table = st.table
  BY <1>1, AddBlockIs
<1> HIDE DEF mid
<1>3. none \in Seq(1 .. Len(tx)) /\ ToSet(none) = {}
  BY SetOfFew
<1> HIDE DEF none
<1>4. /\ SameBlocks(tx, mid, r)
      /\ r.para = mid.para /\ r.list = mid.list /\ r.table = none
  BY <1>2, <1>3, PendingIs
<1> HIDE DEF r
<1>5. /\ Pending(r) \subseteq Pending(st) /\ Pending(st) \subseteq Pending(r) \cup ToSet(st.table)
      /\ ToSet(st.table) \subseteq Pending(st)
  BY <1>2, <1>3, <1>4 DEF Pending
<1>b. Moves(tx, st, "table", st.table, r)
  BY <1>1, <1>4, <1>5, <1>a DEF Moves, SameBlocks
<1>6. Flushes(tx, st, r)
  BY <1>b, FlushOf
<1> QED
  BY <1>0, <1>2, <1>4, <1>6 DEF none

-----------------------------------------------------------------------------
(* chunk_document: what the Markdown parser has read.                       *)

(* The line is in a span of code, its fences included.                      *)
Inside(spans, n) == \E s \in spans : s[1] <= n /\ n <= s[2]

(* A heading that is not code.                                              *)
Free(tx, from, spans, g) == g \in from .. Len(tx) /\ tx[g] \in Headings /\ ~Inside(spans, g)

(* The heading, or none, is the last that is free above the line.           *)
Governs(tx, from, spans, h, m) ==
  /\ m \in from .. Len(tx) /\ h < m
  /\ h = 0 \/ Free(tx, from, spans, h)
  /\ \A g : Free(tx, from, spans, g) /\ g < m => g <= h

(* The lines between the fences.                                            *)
Interior(s) == s[1] + 1 .. s[2] - 1

(* Spans of code: each from a fence to the next bare one, none within       *)
(* another.                                                                 *)
Spanned(tx, from, spans) ==
  /\ tx \in Text /\ from \in Nat \ {0}
  /\ spans \subseteq (from .. Len(tx)) \X (from .. Len(tx))
  /\ \A s \in spans : s[1] < s[2] /\ tx[s[1]] \in {"fence", "lang"} /\ tx[s[2]] = "fence"
  /\ \A s, t \in spans : (s[1] = t[1] => s = t) /\ (s[1] < t[1] => s[2] < t[1])

(* A block as it should be: under the heading that governs each of its      *)
(* lines, without blank lines, or the interior of a span.                   *)
BlockRight(tx, from, spans, h, b) ==
  /\ b.type \in {"paragraph", "list", "table", "code"}
  /\ \A m \in ToSet(b.lines) : Governs(tx, from, spans, h, m)
  /\ b.type # "code" => b.lines # <<>> /\ \A m \in ToSet(b.lines) : tx[m] # "blank"
  /\ b.type = "code" => \E s \in spans : ToSet(b.lines) = Interior(s)

(* A line that a block other than code must have.                           *)
Plain(tx, from, spans, m) ==
  m \in from .. Len(tx) /\ tx[m] \notin Headings \cup {"blank"} /\ ~Inside(spans, m)

(* The span has become a block.                                             *)
CodeIn(st, s) == \E h, b : InBlocks(st, h, b) /\ b.type = "code" /\ ToSet(b.lines) = Interior(s)

(* The section being read is that of the last free heading.                 *)
HeadRight(tx, from, spans, h, n) ==
  /\ h = 0 \/ Free(tx, from, spans, h)
  /\ h \in 0 .. n
  /\ \A g : Free(tx, from, spans, g) /\ g <= n => g <= h

(* The invariant of the Markdown parser after n lines.  What waits is under *)
(* the heading of the section being read, so a heading must flush it first. *)
Reading(tx, from, spans, st, n) ==
  /\ st \in Parsing(tx)
  /\ HeadRight(tx, from, spans, LastHead(st), n)
  /\ \A m \in Pending(st) : tx[m] # "blank" /\ Governs(tx, from, spans, LastHead(st), m)
  /\ \A h, b : InBlocks(st, h, b) => BlockRight(tx, from, spans, h, b)
  /\ \A s \in spans : s[1] <= n => CodeIn(st, s)
  /\ \A m : Plain(tx, from, spans, m) /\ m <= n => m \in Pending(st) \/ \E h : InBlock(st, h, m)

(* A flush keeps the invariant, whenever it comes.                          *)
LEMMA FlushKeeps ==
  ASSUME NEW tx, NEW from, NEW spans, NEW st, NEW n, Reading(tx, from, spans, st, n),
         NEW r, Flushes(tx, st, r)
  PROVE  Reading(tx, from, spans, r, n)
<1>1. /\ r \in Parsing(tx) /\ LastHead(r) = LastHead(st) /\ Pending(r) \subseteq Pending(st)
      /\ \A h, b : InBlocks(st, h, b) => InBlocks(r, h, b)
      /\ \A h, b : InBlocks(r, h, b) => InBlocks(st, h, b) \/ Flushed(tx, st, h, b)
      /\ \A m \in Pending(st) : m \in Pending(r) \/ InBlock(r, LastHead(st), m)
  BY DEF Flushes
<1>2. /\ HeadRight(tx, from, spans, LastHead(st), n)
      /\ \A m \in Pending(st) : tx[m] # "blank" /\ Governs(tx, from, spans, LastHead(st), m)
      /\ \A h, b : InBlocks(st, h, b) => BlockRight(tx, from, spans, h, b)
      /\ \A s \in spans : s[1] <= n => CodeIn(st, s)
      /\ \A m : Plain(tx, from, spans, m) /\ m <= n => m \in Pending(st) \/ \E h : InBlock(st, h, m)
  BY DEF Reading
<1>3. ASSUME NEW h, NEW b, InBlocks(r, h, b) PROVE BlockRight(tx, from, spans, h, b)
  <2>1. CASE InBlocks(st, h, b)
    BY <1>2, <2>1
  <2>2. CASE Flushed(tx, st, h, b)
    BY <1>2, <2>2 DEF Flushed, BlockRight
  <2> QED BY <1>1, <1>3, <2>1, <2>2
<1>4. ASSUME NEW s \in spans, s[1] <= n PROVE CodeIn(r, s)
  BY <1>1, <1>2, <1>4 DEF CodeIn
<1>5. ASSUME NEW m, Plain(tx, from, spans, m), m <= n
      PROVE  m \in Pending(r) \/ \E h : InBlock(r, h, m)
  BY <1>1, <1>2, <1>5 DEF InBlock
<1> QED
  BY <1>1, <1>2, <1>3, <1>4, <1>5 DEF Reading

(* A line read without a new section or block.                              *)
Adds(tx, from, spans, st, r, n) ==
  /\ SameBlocks(tx, st, r)
  /\ Pending(st) \subseteq Pending(r) /\ Pending(r) \subseteq Pending(st) \cup {n}
  /\ n \in Pending(r) => tx[n] # "blank"
  /\ Plain(tx, from, spans, n) => n \in Pending(r)
  /\ ~Free(tx, from, spans, n)
  /\ \A s \in spans : s[1] # n

LEMMA AddsKeeps ==
  ASSUME NEW tx, NEW from, NEW spans, Spanned(tx, from, spans), NEW n \in from .. Len(tx),
         NEW st, Reading(tx, from, spans, st, n - 1),
         NEW r, Adds(tx, from, spans, st, r, n)
  PROVE  Reading(tx, from, spans, r, n)
<1>1. /\ r \in Parsing(tx) /\ LastHead(r) = LastHead(st)
      /\ \A h, b : InBlocks(r, h, b) <=> InBlocks(st, h, b)
      /\ Pending(st) \subseteq Pending(r) /\ Pending(r) \subseteq Pending(st) \cup {n}
      /\ n \in Pending(r) => tx[n] # "blank"
      /\ Plain(tx, from, spans, n) => n \in Pending(r)
      /\ ~Free(tx, from, spans, n)
      /\ \A s \in spans : s[1] # n
  BY DEF Adds, SameBlocks
<1>2. /\ HeadRight(tx, from, spans, LastHead(st), n - 1)
      /\ \A m \in Pending(st) : tx[m] # "blank" /\ Governs(tx, from, spans, LastHead(st), m)
      /\ \A h, b : InBlocks(st, h, b) => BlockRight(tx, from, spans, h, b)
      /\ \A s \in spans : s[1] <= n - 1 => CodeIn(st, s)
      /\ \A m : Plain(tx, from, spans, m) /\ m <= n - 1 => m \in Pending(st) \/ \E h : InBlock(st, h, m)
  BY DEF Reading
<1>0. from \in Nat /\ n \in Nat /\ n >= 1 /\ Len(tx) \in Nat
      /\ \A s \in spans : s[1] \in from .. Len(tx)
  BY DEF Spanned, Text
<1>3. HeadRight(tx, from, spans, LastHead(r), n) /\ Governs(tx, from, spans, LastHead(r), n)
  <2>1. \A g : Free(tx, from, spans, g) /\ g <= n => g <= n - 1
    BY <1>0, <1>1 DEF Free
  <2>2. \A g : Free(tx, from, spans, g) /\ g < n => g <= n - 1
    BY <1>0 DEF Free
  <2> QED BY <1>0, <1>1, <1>2, <2>1, <2>2 DEF HeadRight, Governs
<1>4. \A s \in spans : s[1] <= n => CodeIn(r, s)
  BY <1>0, <1>1, <1>2 DEF CodeIn
<1>5. ASSUME NEW m, Plain(tx, from, spans, m), m <= n
      PROVE  m \in Pending(r) \/ \E h : InBlock(r, h, m)
  <2>1. m \in from .. Len(tx)
    BY <1>5 DEF Plain
  <2>2. CASE m = n
    BY <1>1, <1>5, <2>2
  <2>3. CASE m # n
    <3>1. m <= n - 1
      BY <1>0, <1>5, <2>1, <2>3
    <3> QED BY <1>1, <1>2, <1>5, <3>1 DEF InBlock
  <2> QED BY <2>2, <2>3
<1>6. \A m \in Pending(r) : tx[m] # "blank" /\ Governs(tx, from, spans, LastHead(r), m)
  BY <1>1, <1>2, <1>3
<1> QED
  BY <1>1, <1>2, <1>3, <1>4, <1>5, <1>6 DEF Reading

(* The line where a span begins adds the block of the span.                 *)
LEMMA CodeKeeps ==
  ASSUME NEW tx, NEW from, NEW spans, Spanned(tx, from, spans), NEW s \in spans,
         NEW st, Reading(tx, from, spans, st, s[1] - 1),
         NEW block \in ABlock(tx), block.type = "code", ToSet(block.lines) = Interior(s)
  PROVE  Reading(tx, from, spans, Put(st, block), s[1])
<1> DEFINE n == s[1]
           r == Put(st, block)
<1>0. /\ from \in Nat /\ from >= 1 /\ Len(tx) \in Nat
      /\ \A t \in spans : t[1] \in from .. Len(tx) /\ t[2] \in from .. Len(tx) /\ t[1] < t[2]
      /\ \A t \in spans : t[1] = n => t = s
  BY DEF Spanned, Text
<1>1. st \in Parsing(tx)
  BY DEF Reading
<1>2. /\ r \in Parsing(tx) /\ Pending(r) = Pending(st) /\ LastHead(r) = LastHead(st)
      /\ \A h, b : InBlocks(r, h, b) <=> InBlocks(st, h, b) \/ (h = LastHead(st) /\ b = block)
  BY <1>1, PutIs DEF Pending
<1>3. /\ HeadRight(tx, from, spans, LastHead(st), n - 1)
      /\ \A m \in Pending(st) : tx[m] # "blank" /\ Governs(tx, from, spans, LastHead(st), m)
      /\ \A h, b : InBlocks(st, h, b) => BlockRight(tx, from, spans, h, b)
      /\ \A t \in spans : t[1] <= n - 1 => CodeIn(st, t)
      /\ \A m : Plain(tx, from, spans, m) /\ m <= n - 1 => m \in Pending(st) \/ \E h : InBlock(st, h, m)
  BY DEF Reading
<1> HIDE DEF r
<1>4. \A m : Inside(spans, m) => ~Free(tx, from, spans, m) /\ ~Plain(tx, from, spans, m)
  BY DEF Free, Plain
<1>5. \A m \in s[1] .. s[2] : Inside(spans, m)
  BY <1>0 DEF Inside
<1>6. \A g : Free(tx, from, spans, g) /\ g <= s[2] => g <= n - 1
  BY <1>0, <1>4, <1>5 DEF Free
<1>7. HeadRight(tx, from, spans, LastHead(r), n)
  <2>1. \A g : Free(tx, from, spans, g) /\ g <= n => g <= n - 1
    BY <1>0, <1>6 DEF Free
  <2>2. n \in Nat
    BY <1>0
  <2> HIDE DEF n
  <2> QED BY <1>2, <1>3, <2>1, <2>2 DEF HeadRight
<1>8. ASSUME NEW m \in Interior(s) PROVE Governs(tx, from, spans, LastHead(st), m)
  BY <1>0, <1>3, <1>6 DEF HeadRight, Governs, Interior, Free
<1>9. BlockRight(tx, from, spans, LastHead(st), block)
  BY <1>8 DEF BlockRight
<1>10. \A h, b : InBlocks(r, h, b) => BlockRight(tx, from, spans, h, b)
  BY <1>2, <1>3, <1>9
<1>11. ASSUME NEW t \in spans, t[1] <= n PROVE CodeIn(r, t)
  <2>1. CASE t = s
    <3>1. InBlocks(r, LastHead(st), block)
      BY <1>2
    <3> QED BY <2>1, <3>1 DEF CodeIn
  <2>2. CASE t # s
    <3>1. t[1] <= n - 1
      BY <1>0, <1>11, <2>2
    <3> QED BY <1>2, <1>3, <3>1 DEF CodeIn
  <2> QED BY <2>1, <2>2
<1>12. ASSUME NEW m, Plain(tx, from, spans, m), m <= n
       PROVE  m \in Pending(r) \/ \E h : InBlock(r, h, m)
  <2>1. m \in from .. Len(tx) /\ m # n
    BY <1>0, <1>4, <1>5, <1>12 DEF Plain
  <2>2. m <= n - 1
    BY <1>0, <1>12, <2>1
  <2> QED BY <1>2, <1>3, <1>12, <2>2 DEF InBlock
<1> QED
  BY <1>2, <1>3, <1>7, <1>10, <1>11, <1>12 DEF Reading, r

(* A section that begins.                                                   *)
NewSection(st, n) == [st EXCEPT !.sections = Append(@, Section(n, <<>>))]

LEMMA NewSectionIs ==
  ASSUME NEW tx, NEW st \in Parsing(tx), NEW n \in 0 .. Len(tx)
  PROVE  LET r == NewSection(st, n)
         IN  /\ r \in Parsing(tx) /\ Pending(r) = Pending(st) /\ LastHead(r) = n
             /\ \A h, b : InBlocks(r, h, b) <=> InBlocks(st, h, b)
<1> DEFINE L == Len(st.sections)
           X == 1 .. Len(tx)
           A == ASection(tx)
           new == Section(n, <<>>)
           secs == Append(st.sections, new)
           r == NewSection(st, n)
<1>0. /\ st \in [sections : Seq(A), para : Seq(X), list : Seq(X), table : Seq(X)]
      /\ st.sections \in Seq(A) /\ L \in 1 .. L
      /\ st.para \in Seq(X) /\ st.list \in Seq(X) /\ st.table \in Seq(X)
  BY ParsingIs
<1>1. r = [st EXCEPT !.sections = secs]
  BY DEF NewSection
<1>2. new \in A /\ new.head = n /\ ToSet(new.blocks) = {}
  <2>1. ToSet(<<>>) = {}
    BY SetOfFew
  <2>2. <<>> \in Seq(ABlock(tx))
    OBVIOUS
  <2>3. new.blocks = <<>> /\ new.head = n
    BY DEF Section
  <2>4. new \in A
    BY <2>2 DEF Section, ASection
  <2> QED BY <2>1, <2>3, <2>4
<1> HIDE DEF A, new
<1>3. /\ secs \in Seq(A) /\ Len(secs) = L + 1 /\ secs[L + 1] = new
      /\ \A i \in 1 .. L : secs[i] = st.sections[i]
  BY <1>0, <1>2, AppendProperties
<1> HIDE DEF secs
<1>4. r = [sections |-> secs, para |-> st.para, list |-> st.list, table |-> st.table]
  <2> DEFINE SA == Seq(A)
             SX == Seq(X)
  <2>1. st \in [sections : SA, para : SX, list : SX, table : SX]
    BY <1>0
  <2> HIDE DEF SA, SX, r
  <2> QED BY <1>1, <2>1
<1> HIDE DEF r
<1>5. r.sections = secs /\ r.para = st.para /\ r.list = st.list /\ r.table = st.table
  BY <1>4
<1>6. r \in Parsing(tx)
  <2>1. secs # <<>>
    BY <1>0, <1>3
  <2> HIDE DEF X
  <2>2. r \in [sections : Seq(A), para : Seq(X), list : Seq(X), table : Seq(X)]
    BY <1>0, <1>3, <1>4
  <2> QED BY <1>5, <2>1, <2>2 DEF Parsing, X, A
<1>7. LastHead(r) = n
  BY <1>0, <1>2, <1>3, <1>5 DEF LastHead
<1>8. ASSUME NEW h, NEW b PROVE InBlocks(r, h, b) <=> InBlocks(st, h, b)
  <2>1. ASSUME InBlocks(r, h, b) PROVE InBlocks(st, h, b)
    <3>1. PICK i \in 1 .. L + 1 : secs[i].head = h /\ b \in ToSet(secs[i].blocks)
      BY <1>3, <1>5, <2>1 DEF InBlocks
    <3>2. i # L + 1
      BY <1>2, <1>3, <3>1
    <3>3. i \in 1 .. L
      BY <1>0, <3>2
    <3>4. secs[i] = st.sections[i]
      BY <1>3, <3>3
    <3> QED BY <3>1, <3>3, <3>4 DEF InBlocks
  <2>2. ASSUME InBlocks(st, h, b) PROVE InBlocks(r, h, b)
    <3>1. PICK i \in 1 .. L : st.sections[i].head = h /\ b \in ToSet(st.sections[i].blocks)
      BY <2>2 DEF InBlocks
    <3>2. i \in 1 .. Len(r.sections) /\ r.sections[i] = st.sections[i]
      BY <1>0, <1>3, <1>5, <3>1
    <3> QED BY <3>1, <3>2 DEF InBlocks
  <2> QED BY <2>1, <2>2
<1> QED
  BY <1>5, <1>6, <1>7, <1>8 DEF r, Pending

(* A heading begins a section, when nothing waits.                          *)
LEMMA HeadingKeeps ==
  ASSUME NEW tx, NEW from, NEW spans, Spanned(tx, from, spans), NEW n, Free(tx, from, spans, n),
         NEW st, Reading(tx, from, spans, st, n - 1), Pending(st) = {}
  PROVE  Reading(tx, from, spans, NewSection(st, n), n)
<1> DEFINE r == NewSection(st, n)
<1>0. /\ from \in Nat /\ from >= 1 /\ Len(tx) \in Nat /\ n \in from .. Len(tx) /\ n \in Nat
      /\ \A t \in spans : t[1] \in from .. Len(tx) /\ t[2] \in from .. Len(tx) /\ t[1] < t[2]
  BY DEF Spanned, Text, Free
<1>1. /\ st \in Parsing(tx)
      /\ HeadRight(tx, from, spans, LastHead(st), n - 1)
      /\ \A h, b : InBlocks(st, h, b) => BlockRight(tx, from, spans, h, b)
      /\ \A t \in spans : t[1] <= n - 1 => CodeIn(st, t)
      /\ \A m : Plain(tx, from, spans, m) /\ m <= n - 1 => m \in Pending(st) \/ \E h : InBlock(st, h, m)
  BY DEF Reading
<1>2. /\ r \in Parsing(tx) /\ Pending(r) = {} /\ LastHead(r) = n
      /\ \A h, b : InBlocks(r, h, b) <=> InBlocks(st, h, b)
  <2>1. n \in 0 .. Len(tx)
    BY <1>0
  <2> QED BY <1>1, <2>1, NewSectionIs
<1> HIDE DEF r
<1>3. HeadRight(tx, from, spans, LastHead(r), n)
  BY <1>0, <1>2 DEF HeadRight
<1>4. ~Plain(tx, from, spans, n) /\ ~Inside(spans, n)
  BY DEF Free, Plain
<1>5. ASSUME NEW t \in spans, t[1] <= n PROVE CodeIn(r, t)
  <2>1. t[1] # n
    BY <1>0, <1>4 DEF Inside
  <2>2. t[1] <= n - 1
    BY <1>0, <1>5, <2>1
  <2> QED BY <1>1, <1>2, <2>2 DEF CodeIn
<1>6. ASSUME NEW m, Plain(tx, from, spans, m), m <= n
      PROVE  m \in Pending(r) \/ \E h : InBlock(r, h, m)
  <2>1. m \in from .. Len(tx) /\ m # n
    BY <1>4, <1>6 DEF Plain
  <2>2. m <= n - 1
    BY <1>0, <1>6, <2>1
  <2> QED BY <1>1, <1>2, <1>6, <2>2 DEF InBlock
<1> QED
  BY <1>1, <1>2, <1>3, <1>5, <1>6 DEF Reading, r

(* After the three flushes nothing waits.                                   *)
LEMMA FlushAllKeeps ==
  ASSUME NEW tx, NEW from, NEW spans, NEW st, NEW n, Reading(tx, from, spans, st, n)
  PROVE  Reading(tx, from, spans, FlushAll(st), n) /\ Pending(FlushAll(st)) = {}
<1> DEFINE p == FlushPara(st)
           l == FlushList(p)
           t == FlushTable(l)
<1>1. Reading(tx, from, spans, p, n) /\ p \in Parsing(tx) /\ p.para = <<>>
  <2>1. st \in Parsing(tx)
    BY DEF Reading
  <2>2. Flushes(tx, st, p) /\ p.para = <<>>
    BY <2>1, FlushParaIs
  <2> QED BY <2>2, FlushKeeps DEF Flushes
<1> HIDE DEF p
<1>2. Reading(tx, from, spans, l, n) /\ l \in Parsing(tx) /\ l.para = <<>> /\ l.list = <<>>
  <2>1. Flushes(tx, p, l) /\ l.para = p.para /\ l.list = <<>>
    BY <1>1, FlushListIs
  <2> QED BY <1>1, <2>1, FlushKeeps DEF Flushes
<1> HIDE DEF l
<1>3. Reading(tx, from, spans, t, n) /\ t.para = <<>> /\ t.list = <<>> /\ t.table = <<>>
  <2>1. Flushes(tx, l, t) /\ t.para = l.para /\ t.list = l.list /\ t.table = <<>>
    BY <1>2, FlushTableIs
  <2> QED BY <1>2, <2>1, FlushKeeps DEF Flushes
<1> HIDE DEF t
<1>4. Pending(t) = {}
  <2>1. ToSet(<<>>) = {}
    BY SetOfFew
  <2> QED BY <1>3, <2>1, Zenon DEF Pending
<1> QED
  BY <1>3, <1>4 DEF FlushAll, t, l, p

LEMMA AppendsLine ==
  ASSUME NEW X, NEW lines \in Seq(X), NEW n \in X
  PROVE  Append(lines, n) \in Seq(X) /\ ToSet(Append(lines, n)) = ToSet(lines) \cup {n}
BY SetOfAppend

(* A line of the text that is no code and no heading.                       *)
Ordinary(tx, from, spans, n) ==
  /\ n \in from .. Len(tx) /\ ~Inside(spans, n) /\ tx[n] \notin Headings

(* Such a line may be added to any of the three lists.                      *)
LEMMA PendingGrows ==
  ASSUME NEW tx, NEW from, NEW spans, Spanned(tx, from, spans),
         NEW n, Ordinary(tx, from, spans, n), tx[n] # "blank",
         NEW st, Reading(tx, from, spans, st, n - 1)
  PROVE  /\ Reading(tx, from, spans, WithPara(st, Append(st.para, n)), n)
         /\ Reading(tx, from, spans, WithList(st, Append(st.list, n)), n)
         /\ Reading(tx, from, spans, WithTable(st, Append(st.table, n)), n)
<1>0. /\ n \in from .. Len(tx) /\ n \in 1 .. Len(tx) /\ from \in Nat
      /\ ~Free(tx, from, spans, n) /\ \A s \in spans : s[1] # n
  <2>1. \A s \in spans : s[1] \in from .. Len(tx) /\ s[2] \in from .. Len(tx) /\ s[1] < s[2]
    BY DEF Spanned
  <2>2. from \in Nat /\ from >= 1 /\ n \in from .. Len(tx) /\ Len(tx) \in Nat
    BY DEF Spanned, Ordinary, Text
  <2>3. ASSUME NEW s \in spans PROVE s[1] # n
    BY <2>1, <2>2, <2>3 DEF Ordinary, Inside
  <2> QED BY <2>2, <2>3 DEF Ordinary, Free
<1>1. /\ st \in Parsing(tx)
      /\ st.para \in Seq(1 .. Len(tx)) /\ st.list \in Seq(1 .. Len(tx)) /\ st.table \in Seq(1 .. Len(tx))
  BY ParsingIs DEF Reading
<1>a. ASSUME NEW old \in Seq(1 .. Len(tx))
      PROVE  Append(old, n) \in Seq(1 .. Len(tx)) /\ ToSet(Append(old, n)) = ToSet(old) \cup {n}
  <2> DEFINE X == 1 .. Len(tx)
  <2>1. n \in X /\ old \in Seq(X)
    BY <1>0
  <2> HIDE DEF X
  <2>2. Append(old, n) \in Seq(X) /\ ToSet(Append(old, n)) = ToSet(old) \cup {n}
    BY <2>1, AppendsLine
  <2> QED BY <2>2 DEF X
<1>2. ASSUME NEW r, SameBlocks(tx, st, r), Pending(r) = Pending(st) \cup {n}
      PROVE  Reading(tx, from, spans, r, n)
  <2>1. Adds(tx, from, spans, st, r, n)
    BY <1>0, <1>2 DEF Adds
  <2> QED BY <1>0, <2>1, AddsKeeps
<1>3. Reading(tx, from, spans, WithPara(st, Append(st.para, n)), n)
  <2> DEFINE lines == Append(st.para, n)
             r == WithPara(st, lines)
  <2>1. lines \in Seq(1 .. Len(tx)) /\ ToSet(lines) = ToSet(st.para) \cup {n}
    BY <1>1, <1>a
  <2> HIDE DEF lines
  <2>2. SameBlocks(tx, st, r) /\ r.para = lines /\ r.list = st.list /\ r.table = st.table
    BY <1>1, <2>1, PendingIs
  <2> HIDE DEF r
  <2>3. Pending(r) = Pending(st) \cup {n}
    BY <2>1, <2>2 DEF Pending
  <2>4. Reading(tx, from, spans, r, n)
    BY <1>2, <2>2, <2>3
  <2> QED BY <2>4 DEF r, lines
<1>4. Reading(tx, from, spans, WithList(st, Append(st.list, n)), n)
  <2> DEFINE lines == Append(st.list, n)
             r == WithList(st, lines)
  <2>1. lines \in Seq(1 .. Len(tx)) /\ ToSet(lines) = ToSet(st.list) \cup {n}
    BY <1>1, <1>a
  <2> HIDE DEF lines
  <2>2. SameBlocks(tx, st, r) /\ r.para = st.para /\ r.list = lines /\ r.table = st.table
    BY <1>1, <2>1, PendingIs
  <2> HIDE DEF r
  <2>3. Pending(r) = Pending(st) \cup {n}
    BY <2>1, <2>2 DEF Pending
  <2>4. Reading(tx, from, spans, r, n)
    BY <1>2, <2>2, <2>3
  <2> QED BY <2>4 DEF r, lines
<1>5. Reading(tx, from, spans, WithTable(st, Append(st.table, n)), n)
  <2> DEFINE lines == Append(st.table, n)
             r == WithTable(st, lines)
  <2>1. lines \in Seq(1 .. Len(tx)) /\ ToSet(lines) = ToSet(st.table) \cup {n}
    BY <1>1, <1>a
  <2> HIDE DEF lines
  <2>2. SameBlocks(tx, st, r) /\ r.para = st.para /\ r.list = st.list /\ r.table = lines
    BY <1>1, <2>1, PendingIs
  <2> HIDE DEF r
  <2>3. Pending(r) = Pending(st) \cup {n}
    BY <2>1, <2>2 DEF Pending
  <2>4. Reading(tx, from, spans, r, n)
    BY <1>2, <2>2, <2>3
  <2> QED BY <2>4 DEF r, lines
<1> QED
  BY <1>3, <1>4, <1>5

(* A blank line, or one inside a span, may be passed over.                  *)
LEMMA NothingAdded ==
  ASSUME NEW tx, NEW from, NEW spans, Spanned(tx, from, spans), NEW n \in from .. Len(tx),
         ~Free(tx, from, spans, n), ~Plain(tx, from, spans, n), \A s \in spans : s[1] # n,
         NEW st, Reading(tx, from, spans, st, n - 1)
  PROVE  Reading(tx, from, spans, st, n)
<1>1. SameBlocks(tx, st, st)
  BY DEF SameBlocks, Reading
<1>2. n \in Pending(st) => tx[n] # "blank"
  BY DEF Reading
<1>3. Adds(tx, from, spans, st, st, n)
  BY <1>1, <1>2 DEF Adds
<1> QED
  BY <1>3, AddsKeeps

(* ReadLine, ReadRow and ReadCode keep the invariant.                       *)
LEMMA LineKeeps ==
  ASSUME NEW tx, NEW from, NEW spans, Spanned(tx, from, spans),
         NEW n, Ordinary(tx, from, spans, n),
         NEW st, Reading(tx, from, spans, st, n - 1)
  PROVE  Reading(tx, from, spans, ReadLine(tx, st, n), n)
<1>0. st \in Parsing(tx)
  BY DEF Reading
<1>1. CASE tx[n] \in {"item", "longitem"}
  <2> DEFINE p == FlushPara(st)
  <2>1. ReadLine(tx, st, n) = WithList(p, Append(p.list, n))
    BY <1>1 DEF ReadLine, WithList
  <2>2. Reading(tx, from, spans, p, n - 1)
    BY <1>0, FlushParaIs, FlushKeeps
  <2> HIDE DEF p
  <2> QED BY <1>1, <2>1, <2>2, PendingGrows
<1>2. CASE tx[n] = "cont" /\ st.list # <<>>
  <2>1. ReadLine(tx, st, n) = WithList(st, Append(st.list, n))
    BY <1>2 DEF ReadLine, WithList
  <2> QED BY <1>2, <2>1, PendingGrows
<1>3. CASE tx[n] = "blank"
  <2> DEFINE l == FlushList(st)
             p == FlushPara(l)
  <2>1. ReadLine(tx, st, n) = p
    BY <1>3 DEF ReadLine
  <2>2. Reading(tx, from, spans, l, n - 1)
    BY <1>0, FlushListIs, FlushKeeps
  <2> HIDE DEF l
  <2>3. l \in Parsing(tx)
    BY <2>2 DEF Reading
  <2>4. Reading(tx, from, spans, p, n - 1)
    BY <2>2, <2>3, FlushParaIs, FlushKeeps
  <2> HIDE DEF p
  <2>5. ~Free(tx, from, spans, n) /\ ~Plain(tx, from, spans, n) /\ n \in from .. Len(tx)
    BY <1>3 DEF Free, Plain, Ordinary
  <2>6. \A s \in spans : s[1] # n
    BY DEF Ordinary, Inside, Spanned
  <2> QED BY <2>1, <2>4, <2>5, <2>6, NothingAdded
<1>4. CASE tx[n] \notin {"item", "longitem", "blank"} /\ ~(tx[n] = "cont" /\ st.list # <<>>)
  <2> DEFINE l == FlushList(st)
  <2>1. ReadLine(tx, st, n) = WithPara(l, Append(l.para, n))
    BY <1>4 DEF ReadLine, WithPara
  <2>2. Reading(tx, from, spans, l, n - 1)
    BY <1>0, FlushListIs, FlushKeeps
  <2> HIDE DEF l
  <2> QED BY <1>4, <2>1, <2>2, PendingGrows
<1> QED
  BY <1>1, <1>2, <1>3, <1>4

LEMMA RowKeeps ==
  ASSUME NEW tx, NEW from, NEW spans, Spanned(tx, from, spans),
         NEW n, Ordinary(tx, from, spans, n), tx[n] # "blank",
         NEW st, Reading(tx, from, spans, st, n - 1)
  PROVE  Reading(tx, from, spans, ReadRow(st, n), n)
<1> DEFINE p == FlushPara(st)
           l == FlushList(p)
<1>0. st \in Parsing(tx)
  BY DEF Reading
<1>1. ReadRow(st, n) = WithTable(l, Append(l.table, n))
  BY DEF ReadRow, WithTable
<1>2. Reading(tx, from, spans, p, n - 1)
  BY <1>0, FlushParaIs, FlushKeeps
<1> HIDE DEF p
<1>3. p \in Parsing(tx)
  BY <1>2 DEF Reading
<1>4. Reading(tx, from, spans, l, n - 1)
  BY <1>2, <1>3, FlushListIs, FlushKeeps
<1> HIDE DEF l
<1> QED
  BY <1>1, <1>4, PendingGrows

LEMMA CodeRead ==
  ASSUME NEW tx, NEW from, NEW spans, Spanned(tx, from, spans), NEW s \in spans,
         NEW st, Reading(tx, from, spans, st, s[1] - 1)
  PROVE  Reading(tx, from, spans, ReadCode(st, s), s[1])
<1> DEFINE lines == [i \in 1 .. s[2] - s[1] - 1 |-> s[1] + i]
           block == Block("code", lines)
           f == FlushAll(st)
<1>1. Reading(tx, from, spans, f, s[1] - 1)
  BY FlushAllKeeps
<1>2. ReadCode(st, s) = Put(f, block)
  BY DEF ReadCode, Put
<1> HIDE DEF f
<1>3. /\ from \in Nat /\ from >= 1 /\ Len(tx) \in Nat
      /\ s[1] \in from .. Len(tx) /\ s[2] \in from .. Len(tx) /\ s[1] < s[2]
  BY DEF Spanned, Text
<1>4. lines \in Seq(1 .. Len(tx)) /\ ToSet(lines) = Interior(s)
  <2> DEFINE d == s[2] - s[1] - 1
  <2>1. d \in Nat /\ \A i \in 1 .. d : s[1] + i \in 1 .. Len(tx) /\ s[1] + i \in Interior(s)
    BY <1>3 DEF Interior
  <2>2. \A m \in Interior(s) : m - s[1] \in 1 .. d /\ s[1] + (m - s[1]) = m
    BY <1>3 DEF Interior
  <2>3. ToSet(lines) = {s[1] + i : i \in 1 .. d}
    <3>1. DOMAIN lines = 1 .. d
      OBVIOUS
    <3> QED BY <3>1 DEF ToSet
  <2>4. ToSet(lines) = Interior(s)
    <3>1. \A m \in ToSet(lines) : m \in Interior(s)
      BY <2>1, <2>3
    <3>2. \A m \in Interior(s) : m \in ToSet(lines)
      BY <2>2, <2>3
    <3> QED BY <3>1, <3>2
  <2>5. lines \in Seq(1 .. Len(tx))
    <3> DEFINE X == 1 .. Len(tx)
    <3>1. \A i \in 1 .. d : s[1] + i \in X
      BY <2>1
    <3> HIDE DEF X
    <3>2. lines \in Seq(X)
      BY <2>1, <3>1
    <3> QED BY <3>2 DEF X
  <2> QED BY <2>4, <2>5
<1> HIDE DEF lines
<1>5. block \in ABlock(tx) /\ block.type = "code" /\ block.lines = lines
  BY <1>4 DEF Block, ABlock, BlockTypes
<1> HIDE DEF block
<1>6. Reading(tx, from, spans, Put(f, block), s[1])
  BY <1>1, <1>4, <1>5, CodeKeeps
<1> QED
  BY <1>2, <1>6

(* Every line keeps the invariant.                                          *)
LEMMA MarkdownStep ==
  ASSUME NEW tx, NEW from, NEW spans, Spanned(tx, from, spans), NEW n \in from .. Len(tx),
         NEW st, Reading(tx, from, spans, st, n - 1)
  PROVE  Reading(tx, from, spans, ReadMarkdown(tx, spans, st, n), n)
<1> DEFINE r == ReadMarkdown(tx, spans, st, n)
<1>0. /\ \A s \in spans : s[1] \in from .. Len(tx) /\ s[2] \in from .. Len(tx) /\ s[1] < s[2]
      /\ from \in Nat /\ Len(tx) \in Nat
  BY DEF Spanned, Text
<1>1. CASE \E s \in spans : n = s[1]
  <2> DEFINE s == CHOOSE s \in spans : n = s[1]
  <2>1. s \in spans /\ n = s[1]
    BY <1>1
  <2>2. r = ReadCode(st, s)
    <3>1. ~(\E t \in spans : t[1] < n /\ n <= t[2])
      BY <1>0, <2>1 DEF Spanned
    <3> HIDE DEF s
    <3>2. ~(\E t \in spans : t[1] < n /\ n <= t[2]) => r = ReadCode(st, CHOOSE t \in spans : n = t[1])
      BY <1>1 DEF ReadMarkdown
    <3> QED BY <3>1, <3>2 DEF s
  <2> HIDE DEF s, r
  <2>3. Reading(tx, from, spans, ReadCode(st, s), s[1])
    BY <2>1, CodeRead
  <2> QED BY <2>1, <2>2, <2>3 DEF r
<1>2. CASE ~(\E s \in spans : n = s[1]) /\ \E s \in spans : s[1] < n /\ n <= s[2]
  <2>1. r = st
    BY <1>2 DEF ReadMarkdown
  <2>2. Inside(spans, n)
    BY <1>0, <1>2 DEF Inside
  <2>3. ~Free(tx, from, spans, n) /\ ~Plain(tx, from, spans, n)
    BY <2>2 DEF Free, Plain
  <2> HIDE DEF r
  <2>4. Reading(tx, from, spans, st, n)
    BY <1>2, <2>3, NothingAdded
  <2> QED BY <2>1, <2>4 DEF r
<1>3. CASE ~(\E s \in spans : n = s[1]) /\ ~(\E s \in spans : s[1] < n /\ n <= s[2])
  <2>0. ~Inside(spans, n)
    BY <1>0, <1>3 DEF Inside
  <2>1. CASE tx[n] \in Headings
    <3>1. r = NewSection(FlushAll(st), n)
      <4>1. r = ReadHeading(st, n)
        BY <1>3, <2>1 DEF ReadMarkdown, Headings
      <4> HIDE DEF r
      <4> QED BY <4>1 DEF ReadHeading, NewSection
    <3>2. Free(tx, from, spans, n)
      BY <2>0, <2>1 DEF Free
    <3> HIDE DEF r
    <3>3. Reading(tx, from, spans, FlushAll(st), n - 1) /\ Pending(FlushAll(st)) = {}
      BY FlushAllKeeps
    <3>4. Reading(tx, from, spans, NewSection(FlushAll(st), n), n)
      BY <3>2, <3>3, HeadingKeeps
    <3> QED BY <3>1, <3>4 DEF r
  <2>2. CASE tx[n] \notin Headings
    <3>0. Ordinary(tx, from, spans, n)
      BY <2>0, <2>2 DEF Ordinary
    <3>1. CASE tx[n] = "row"
      <4>1. r = ReadRow(st, n)
        BY <1>3, <2>2, <3>1 DEF ReadMarkdown
      <4> HIDE DEF r
      <4>2. Reading(tx, from, spans, ReadRow(st, n), n)
        BY <3>0, <3>1, RowKeeps
      <4> QED BY <4>1, <4>2 DEF r
    <3>2. CASE tx[n] # "row"
      <4> DEFINE t == FlushTable(st)
      <4>1. r = ReadLine(tx, t, n)
        BY <1>3, <2>2, <3>2 DEF ReadMarkdown
      <4>2. st \in Parsing(tx)
        BY DEF Reading
      <4>3. Reading(tx, from, spans, t, n - 1)
        BY <4>2, FlushTableIs, FlushKeeps
      <4> HIDE DEF r, t
      <4>4. Reading(tx, from, spans, ReadLine(tx, t, n), n)
        BY <3>0, <4>3, LineKeeps
      <4> QED BY <4>1, <4>4 DEF r
    <3> QED BY <3>1, <3>2
  <2> QED BY <2>1, <2>2
<1> QED
  BY <1>1, <1>2, <1>3

-----------------------------------------------------------------------------
(* chunk_document: the spans of code, and the loop over the lines.          *)

(* What a line does to the spans so far.                                    *)
SpanStep(tx, before, n) ==
  LET ends == {m \in n + 1 .. Len(tx) : tx[m] = "fence"}
  IN  IF \/ \E s \in before : n <= s[2]
         \/ tx[n] \notin {"fence", "lang"} \/ ends = {}
      THEN before ELSE before \cup {<<n, Least(ends)>>}

(* The loop of CodeSpans.                                                   *)
SpanLoop(tx, from) ==
  CHOOSE spans : spans = [n \in 0 .. Len(tx) |->
    IF n < from THEN {}
    ELSE LET before == spans[n - 1]
             ends   == {m \in n + 1 .. Len(tx) : tx[m] = "fence"}
         IN  IF \/ \E s \in before : n <= s[2]
                \/ tx[n] \notin {"fence", "lang"} \/ ends = {}
             THEN before ELSE before \cup {<<n, Least(ends)>>}]

LEMMA SpanStepIs ==
  ASSUME NEW tx, NEW from \in Nat \ {0}, NEW n \in from .. Len(tx),
         NEW before, Spanned(tx, from, before), \A s \in before : s[1] < n
  PROVE  /\ Spanned(tx, from, SpanStep(tx, before, n))
         /\ \A s \in SpanStep(tx, before, n) : s[1] <= n
<1> DEFINE ends == {m \in n + 1 .. Len(tx) : tx[m] = "fence"}
           b == Least(ends)
           new == <<n, b>>
           next == SpanStep(tx, before, n)
<1>0. tx \in Text /\ Len(tx) \in Nat /\ before \subseteq (from .. Len(tx)) \X (from .. Len(tx))
      /\ \A s \in before : s[1] \in from .. Len(tx) /\ s[2] \in from .. Len(tx)
  BY DEF Spanned, Text
<1>1. CASE next = before
  BY <1>0, <1>1
<1>2. CASE next # before
  <2>1. /\ next = before \cup {new} /\ ends # {} /\ tx[n] \in {"fence", "lang"}
        /\ \A s \in before : s[2] < n
    BY <1>0, <1>2 DEF SpanStep
  <2>2. ends \in SUBSET Nat
    BY <1>0
  <2>3. b \in ends
    <3> HIDE DEF ends
    <3> QED BY <2>1, <2>2, LeastIs
  <2>4. b \in from .. Len(tx) /\ n < b /\ tx[b] = "fence"
    BY <1>0, <2>3
  <2>5. new \in (from .. Len(tx)) \X (from .. Len(tx)) /\ new[1] = n /\ new[2] = b
    BY <2>4
  <2> HIDE DEF new, b, ends, next
  <2>6. \A s \in next : s[1] < s[2] /\ tx[s[1]] \in {"fence", "lang"} /\ tx[s[2]] = "fence"
    BY <2>1, <2>4, <2>5 DEF Spanned
  <2>7. ASSUME NEW s \in next, NEW t \in next
        PROVE  (s[1] = t[1] => s = t) /\ (s[1] < t[1] => s[2] < t[1])
    <3>1. CASE s \in before /\ t \in before
      BY <3>1 DEF Spanned
    <3>2. CASE s = new
      BY <1>0, <2>1, <2>5, <3>2
    <3>3. CASE t = new
      BY <1>0, <2>1, <2>5, <3>3
    <3> QED BY <2>1, <3>1, <3>2, <3>3
  <2>8. next \subseteq (from .. Len(tx)) \X (from .. Len(tx))
    BY <1>0, <2>1, <2>5
  <2>9. \A s \in next : s[1] <= n
    BY <1>0, <2>1, <2>5
  <2> QED BY <1>0, <2>6, <2>7, <2>8, <2>9 DEF Spanned, next
<1> QED
  BY <1>1, <1>2

LEMMA SpanLoopIs ==
  ASSUME NEW tx \in Text, NEW from \in Nat \ {0}
  PROVE  LET F == SpanLoop(tx, from)
         IN  /\ CodeSpans(tx, from) = F[Len(tx)]
             /\ \A n \in 0 .. Len(tx) :
                  F[n] = IF n < from THEN {} ELSE SpanStep(tx, F[n - 1], n)
<1> DEFINE N == Len(tx)
           S == SUBSET (Nat \X Nat)
           Def(f) == [n \in 0 .. Len(tx) |->
             IF n < from THEN {}
             ELSE LET before == f[n - 1]
                      ends   == {m \in n + 1 .. Len(tx) : tx[m] = "fence"}
                  IN  IF \/ \E s \in before : n <= s[2]
                         \/ tx[n] \notin {"fence", "lang"} \/ ends = {}
                      THEN before ELSE before \cup {<<n, Least(ends)>>}]
           step == [n \in 1 .. N |-> [s \in S |-> IF n < from THEN {} ELSE SpanStep(tx, s, n)]]
           F == SpanLoop(tx, from)
<1>0. N \in Nat
  BY DEF Text
<1>1. CodeSpans(tx, from) = F[Len(tx)]
  BY DEF CodeSpans, SpanLoop
<1>2. {} \in S
  OBVIOUS
<1>3. ASSUME NEW n \in 1 .. N, NEW s \in S
      PROVE  (IF n < from THEN {} ELSE SpanStep(tx, s, n)) \in S
  <2> DEFINE ends == {m \in n + 1 .. Len(tx) : tx[m] = "fence"}
  <2>1. ends \in SUBSET Nat
    BY <1>0
  <2>2. ends # {} => Least(ends) \in Nat
    <3> HIDE DEF ends
    <3> QED BY <2>1, LeastIs
  <2>3. SpanStep(tx, s, n) = s \/ (ends # {} /\ SpanStep(tx, s, n) = s \cup {<<n, Least(ends)>>})
    BY DEF SpanStep
  <2> HIDE DEF ends
  <2> QED BY <2>2, <2>3
<1> HIDE DEF S
<1>4. IsLoop(N, S, {}, step)
  <2> HIDE DEF N
  <2> QED BY <1>0, <1>2, <1>3 DEF IsLoop
<1>5. \E f : f = Def(f)
  <2>0. PICK f : Computes(f, N, S, {}, step)
    <3> HIDE DEF step, N
    <3> QED BY <1>4, LoopExists
  <2>1. /\ f \in [0 .. N -> S] /\ f[0] = {}
        /\ \A n \in 1 .. N : f[n] = step[n][f[n - 1]]
    <3> HIDE DEF step, N
    <3> QED BY <2>0 DEF Computes
  <2>2. ASSUME NEW n \in 0 .. N PROVE f[n] = Def(f)[n]
    <3>1. CASE n = 0
      BY <2>1, <3>1
    <3>2. CASE n # 0
      <4>1. n \in 1 .. N /\ n - 1 \in 0 .. N
        BY <1>0, <3>2
      <4>2. step[n][f[n - 1]] = IF n < from THEN {} ELSE SpanStep(tx, f[n - 1], n)
        BY <2>1, <4>1
      <4>3. f[n] = IF n < from THEN {} ELSE SpanStep(tx, f[n - 1], n)
        BY <2>1, <4>1, <4>2
      <4> HIDE DEF step
      <4> QED BY <3>2, <4>1, <4>3 DEF SpanStep
    <3> QED BY <3>1, <3>2
  <2>3. f = Def(f)
    BY <2>1, <2>2
  <2> QED BY <2>3
<1>6. F = Def(F)
  BY <1>5, Zenon DEF SpanLoop
<1>7. \A n \in 0 .. N : F[n] = IF n < from THEN {} ELSE SpanStep(tx, F[n - 1], n)
  <2>1. ASSUME NEW f
        PROVE  \A n \in 0 .. N : Def(f)[n] = IF n < from THEN {} ELSE SpanStep(tx, f[n - 1], n)
    BY DEF SpanStep
  <2> HIDE DEF F, Def
  <2> QED BY <1>6, <2>1
<1> QED
  BY <1>1, <1>7

(* The spans found are spans of code.                                       *)
LEMMA CodeSpansIs ==
  ASSUME NEW tx \in Text, NEW from \in Nat \ {0}
  PROVE  Spanned(tx, from, CodeSpans(tx, from))
<1> DEFINE F == SpanLoop(tx, from)
           N == Len(tx)
           T == {n \in 0 .. N : Spanned(tx, from, F[n]) /\ \A s \in F[n] : s[1] <= n}
<1>1. /\ CodeSpans(tx, from) = F[N]
      /\ \A n \in 0 .. N : F[n] = IF n < from THEN {} ELSE SpanStep(tx, F[n - 1], n)
  BY SpanLoopIs
<1>0. N \in Nat
  BY DEF Text
<1>2. Spanned(tx, from, {})
  BY DEF Spanned
<1> HIDE DEF F
<1>3. 0 \in T
  <2>1. F[0] = {}
    BY <1>0, <1>1
  <2> QED BY <1>0, <1>2, <2>1
<1>4. ASSUME NEW n \in 1 .. N, n - 1 \in T PROVE n \in T
  <2>0. Spanned(tx, from, F[n - 1]) /\ \A s \in F[n - 1] : s[1] <= n - 1
    BY <1>4
  <2>1. CASE n < from
    <3>1. F[n] = {}
      BY <1>0, <1>1, <2>1
    <3>2. Spanned(tx, from, F[n])
      BY <1>2, <3>1, Zenon
    <3>3. \A s \in F[n] : s[1] <= n
      BY <3>1
    <3>4. n \in 0 .. N
      BY <1>0
    <3> QED BY <3>2, <3>3, <3>4
  <2>2. CASE n >= from
    <3>1. F[n] = SpanStep(tx, F[n - 1], n) /\ n \in from .. N
      <4>1. n \in from .. N /\ n \in 0 .. N /\ ~(n < from)
        BY <1>0, <2>2
      <4> QED BY <1>1, <4>1
    <3>2. \A s \in F[n - 1] : s[1] < n
      <4>1. \A s \in F[n - 1] : s[1] \in from .. Len(tx)
        BY <2>0 DEF Spanned
      <4> QED BY <1>0, <2>0, <4>1
    <3>3. Spanned(tx, from, F[n]) /\ \A s \in F[n] : s[1] <= n
      BY <2>0, <3>1, <3>2, SpanStepIs
    <3> QED BY <1>0, <3>3
  <2> QED BY <1>0, <2>1, <2>2
<1>5. 0 .. N \subseteq T
  <2> HIDE DEF T, N
  <2> QED BY <1>0, <1>3, <1>4, LoopInduction
<1> QED
  BY <1>0, <1>1, <1>5

(* The loop of ParseMarkdown.                                               *)
MarkdownLoop(tx, from) ==
  CHOOSE st : st = [n \in 0 .. Len(tx) |->
    IF n < from THEN NoSections ELSE ReadMarkdown(tx, CodeSpans(tx, from), st[n - 1], n)]

(* The parser begins with one section that has no heading and no block.     *)
LEMMA NoSectionsTyped ==
  ASSUME NEW tx
  PROVE  /\ NoSections \in Parsing(tx) /\ LastHead(NoSections) = 0 /\ Pending(NoSections) = {}
         /\ \A h, b : ~InBlocks(NoSections, h, b)
<1> DEFINE none == <<>>
           X == 1 .. Len(tx)
           A == ASection(tx)
           one == Section(0, none)
<1>1. ToSet(none) = {} /\ none \in Seq(X) /\ none \in Seq(ABlock(tx))
  BY SetOfFew
<1>2. NoSections = [sections |-> <<one>>, para |-> none, list |-> none, table |-> none]
  BY DEF NoSections
<1> HIDE DEF none
<1>3. one \in [head : {0}, blocks : Seq(ABlock(tx))] /\ one.head = 0 /\ one.blocks = none
  BY <1>1 DEF Section
<1>4. one \in A
  BY <1>3 DEF ASection
<1> HIDE DEF one, X, A
<1>5. <<one>> \in Seq(A) /\ <<one>> # <<>> /\ Len(<<one>>) = 1 /\ <<one>>[1] = one
  BY <1>4
<1> DEFINE list == <<one>>
           r == [sections |-> list, para |-> none, list |-> none, table |-> none]
<1>6. list \in Seq(A) /\ list # <<>> /\ Len(list) = 1 /\ list[1] = one
  BY <1>5
<1> HIDE DEF list
<1>7. r.sections = list /\ r.para = none /\ r.list = none /\ r.table = none
  OBVIOUS
<1>8. r \in [sections : Seq(A), para : Seq(X), list : Seq(X), table : Seq(X)]
  BY <1>1, <1>6
<1>9. NoSections = r
  BY <1>2 DEF list
<1> HIDE DEF r
<1>10. r \in Parsing(tx)
  BY <1>6, <1>7, <1>8 DEF Parsing, A, X
<1>11. LastHead(r) = 0 /\ Pending(r) = {}
  BY <1>1, <1>3, <1>6, <1>7 DEF LastHead, Pending
<1>12. ASSUME NEW h, NEW b PROVE ~InBlocks(r, h, b)
  <2>1. ASSUME NEW i \in 1 .. Len(r.sections) PROVE b \notin ToSet(r.sections[i].blocks)
    <3>1. r.sections[i] = one
      BY <1>6, <1>7
    <3> QED BY <1>1, <1>3, <3>1
  <2> QED BY <2>1 DEF InBlocks
<1> QED
  BY <1>9, <1>10, <1>11, <1>12

LEMMA ReadingStarts ==
  ASSUME NEW tx, NEW from, NEW spans, Spanned(tx, from, spans), NEW n \in Nat, n < from
  PROVE  Reading(tx, from, spans, NoSections, n)
<1>0. /\ from \in Nat /\ Len(tx) \in Nat
      /\ \A s \in spans : s[1] \in from .. Len(tx)
  BY DEF Spanned, Text
<1>1. HeadRight(tx, from, spans, 0, n)
  BY <1>0 DEF HeadRight, Free
<1>2. \A s \in spans : ~(s[1] <= n)
  BY <1>0
<1>3. \A m : ~(Plain(tx, from, spans, m) /\ m <= n)
  BY <1>0 DEF Plain
<1> QED
  BY <1>1, <1>2, <1>3, NoSectionsTyped DEF Reading

(* A line before the first one parsed is not read.                          *)
ReadNext(tx, from, st, n) ==
  IF n < from THEN NoSections ELSE ReadMarkdown(tx, CodeSpans(tx, from), st, n)

LEMMA ReadNextKeeps ==
  ASSUME NEW tx \in Text, NEW from \in Nat \ {0}, NEW n \in 1 .. Len(tx), NEW st,
         Reading(tx, from, CodeSpans(tx, from), st, n - 1)
  PROVE  Reading(tx, from, CodeSpans(tx, from), ReadNext(tx, from, st, n), n)
<1>0. Spanned(tx, from, CodeSpans(tx, from)) /\ Len(tx) \in Nat
  BY CodeSpansIs DEF Text
<1>1. CASE n < from
  <2>1. ReadNext(tx, from, st, n) = NoSections
    BY <1>1 DEF ReadNext
  <2> QED BY <1>0, <1>1, <2>1, ReadingStarts
<1>2. CASE n >= from
  <2>1. ReadNext(tx, from, st, n) = ReadMarkdown(tx, CodeSpans(tx, from), st, n) /\ n \in from .. Len(tx)
    BY <1>0, <1>2 DEF ReadNext
  <2> QED BY <1>0, <2>1, MarkdownStep
<1> QED
  BY <1>1, <1>2

(* The loop has the invariant at its end, by induction over the lines.      *)
LEMMA MarkdownLoopIs ==
  ASSUME NEW tx \in Text, NEW from \in Nat \ {0}
  PROVE  LET F == MarkdownLoop(tx, from)
             last == FlushAll(F[Len(tx)]).sections
         IN  /\ ParseMarkdown(tx, from) = Only(last, {s \in ToSet(last) : s.blocks # <<>> \/ s.head # 0})
             /\ Reading(tx, from, CodeSpans(tx, from), F[Len(tx)], Len(tx))
<1> DEFINE N == Len(tx)
           S == Parsing(tx)
           Good(st, n) == Reading(tx, from, CodeSpans(tx, from), st, n)
           Def(f) == [n \in 0 .. Len(tx) |->
             IF n < from THEN NoSections ELSE ReadMarkdown(tx, CodeSpans(tx, from), f[n - 1], n)]
           Step(n, st) == IF Good(st, n - 1) THEN ReadNext(tx, from, st, n) ELSE NoSections
           step == [n \in 1 .. N |-> [st \in S |-> Step(n, st)]]
           F == MarkdownLoop(tx, from)
<1>0. N \in Nat /\ Spanned(tx, from, CodeSpans(tx, from))
  BY CodeSpansIs DEF Text
<1>1. LET last == FlushAll(F[Len(tx)]).sections
      IN  ParseMarkdown(tx, from) = Only(last, {s \in ToSet(last) : s.blocks # <<>> \/ s.head # 0})
  BY DEF ParseMarkdown, MarkdownLoop
<1>2. NoSections \in S /\ Good(NoSections, 0)
  BY <1>0, NoSectionsTyped, ReadingStarts
<1>3. ASSUME NEW n \in 1 .. N, NEW st, Good(st, n - 1)
      PROVE  Good(ReadNext(tx, from, st, n), n) /\ ReadNext(tx, from, st, n) \in S
  <2>1. Good(ReadNext(tx, from, st, n), n)
    BY <1>3, ReadNextKeeps
  <2> QED BY <2>1 DEF Reading
<1>4. \A n \in 1 .. N : \A st \in S : Step(n, st) \in S
  BY <1>2, <1>3
<1> HIDE DEF S, Good
<1>5. IsLoop(N, S, NoSections, step)
  <2> HIDE DEF N, Step
  <2> QED BY <1>0, <1>2, <1>4 DEF IsLoop
<1>6. \E f : f = Def(f)
  <2>0. PICK f : Computes(f, N, S, NoSections, step)
    <3> HIDE DEF step, N
    <3> QED BY <1>5, LoopExists
  <2>1. /\ f \in [0 .. N -> S] /\ f[0] = NoSections
        /\ \A n \in 1 .. N : f[n] = step[n][f[n - 1]]
    <3> HIDE DEF step, N
    <3> QED BY <2>0 DEF Computes
  <2>2. ASSUME NEW n \in 1 .. N PROVE f[n] = Step(n, f[n - 1])
    <3>1. n - 1 \in 0 .. N
      BY <1>0
    <3>2. f[n - 1] \in S
      BY <2>1, <3>1
    <3> HIDE DEF Step
    <3>3. step[n][f[n - 1]] = Step(n, f[n - 1])
      BY <3>2
    <3> QED BY <2>1, <3>3
  <2> DEFINE T == {n \in 0 .. N : Good(f[n], n)}
  <2>3. 0 \in T
    BY <1>0, <1>2, <2>1
  <2>4. ASSUME NEW n \in 1 .. N, n - 1 \in T PROVE n \in T
    <3>1. f[n] = ReadNext(tx, from, f[n - 1], n)
      BY <2>2, <2>4
    <3>2. Good(f[n - 1], n - 1)
      BY <2>4
    <3>3. Good(f[n], n)
      BY <1>3, <3>1, <3>2
    <3> QED BY <1>0, <3>3
  <2>5. 0 .. N \subseteq T
    <3> HIDE DEF T, N
    <3> QED BY <1>0, <2>3, <2>4, LoopInduction
  <2>6. ASSUME NEW n \in 0 .. N PROVE f[n] = Def(f)[n]
    <3>1. CASE n = 0
      BY <2>1, <3>1
    <3>2. CASE n # 0
      <4>1. n \in 1 .. N /\ n - 1 \in 0 .. N
        BY <1>0, <3>2
      <4>2. n - 1 \in T
        BY <2>5, <4>1
      <4>3. f[n] = ReadNext(tx, from, f[n - 1], n)
        BY <2>2, <4>1, <4>2
      <4> QED BY <4>1, <4>3 DEF ReadNext
    <3> QED BY <3>1, <3>2
  <2>7. f = Def(f)
    <3> HIDE DEF step
    <3>1. f = [n \in 0 .. N |-> f[n]]
      BY <2>1
    <3> QED BY <2>6, <3>1
  <2> QED BY <2>7
<1>7. F = Def(F)
  BY <1>6, Zenon DEF MarkdownLoop
<1>8. F[0] = NoSections /\ \A n \in 1 .. N : F[n] = ReadNext(tx, from, F[n - 1], n)
  <2>1. ASSUME NEW f
        PROVE  Def(f)[0] = NoSections /\ \A n \in 1 .. N : Def(f)[n] = ReadNext(tx, from, f[n - 1], n)
    BY <1>0 DEF ReadNext
  <2> HIDE DEF F, Def
  <2> QED BY <1>7, <2>1
<1> HIDE DEF F
<1> DEFINE T == {n \in 0 .. N : Good(F[n], n)}
<1>9. 0 \in T
  BY <1>0, <1>2, <1>8
<1>10. ASSUME NEW n \in 1 .. N, n - 1 \in T PROVE n \in T
  <2>1. Good(F[n - 1], n - 1)
    BY <1>10
  <2>2. Good(F[n], n)
    BY <1>3, <1>8, <2>1
  <2> QED BY <1>0, <2>2
<1>11. 0 .. N \subseteq T
  <2> HIDE DEF T, N
  <2> QED BY <1>0, <1>9, <1>10, LoopInduction
<1>12. Good(F[N], N)
  BY <1>0, <1>11
<1> QED
  BY <1>1, <1>12 DEF Good, F

(* The tokens of a line are of no other line.                               *)
LEMMA OneLine ==
  ASSUME NEW tx \in Text, NEW n \in 1 .. Len(tx)
  PROVE  Tokens(tx, <<n>>) \in Seq(1 .. Len(tx)) /\ ToSet(Tokens(tx, <<n>>)) \subseteq {n}
<1> DEFINE X == 1 .. Len(tx)
<1>1. Tokens(tx, <<n>>) = Copies(tx, n)
  <2> DEFINE none == <<>>
  <2>1. none \in Seq(X) /\ tx \in Seq(LineKind)
    BY DEF Text
  <2> HIDE DEF none
  <2> QED BY <2>1, TokensMore
<1>2. Copies(tx, n) \in Seq({n}) /\ ToSet(Copies(tx, n)) \subseteq {n}
  BY CopiesIs DEF Text
<1>3. {n} \subseteq X
  OBVIOUS
<1> QED
  BY <1>1, <1>2, <1>3, SeqMonotonic

LEMMA ParaStepWithin ==
  ASSUME NEW tx \in Text, NEW paras \in Piled(1 .. Len(tx)), NEW n \in 1 .. Len(tx),
         NEW y, InOne(ParaStep(tx, paras, n), y)
  PROVE  InOne(paras, y) \/ y = n
<1> DEFINE X == 1 .. Len(tx)
           Y == Seq(X)
           next == ParaStep(tx, paras, n)
           l == Len(paras)
           more == Tokens(tx, <<n>>)
           longer == paras[l] \o more
           none == <<>>
<1>0. paras \in Seq(Y) /\ paras # <<>> /\ l \in 1 .. l /\ l \in Nat /\ l >= 1
  BY DEF Piled
<1>1. more \in Seq(X) /\ ToSet(more) \subseteq {n}
  BY OneLine
<1>2. none \in Y /\ ToSet(none) = {}
  BY SetOfFew
<1>a. next = IF tx[n] = "blank" THEN Append(paras, none) ELSE [paras EXCEPT ![l] = longer]
  BY DEF ParaStep
<1> HIDE DEF X, more, none, next
<1>3. paras[l] \in Y /\ paras[l] \in ToSet(paras)
  BY <1>0, InSeq
<1>4. longer \in Y /\ ToSet(longer) = ToSet(paras[l]) \cup ToSet(more)
  BY <1>1, <1>3, ConcatProperties, SetOfBoth
<1> HIDE DEF longer, Y
<1>b. PICK p \in ToSet(next) : y \in ToSet(p)
  BY DEF InOne, next
<1>5. CASE tx[n] = "blank"
  <2>1. ToSet(next) = ToSet(paras) \cup {none}
    BY <1>0, <1>2, <1>5, <1>a, SetOfAppend
  <2> QED BY <1>2, <1>b, <2>1 DEF InOne
<1>6. CASE tx[n] # "blank"
  <2>1. /\ next \in Seq(Y) /\ Len(next) = l
        /\ \A j \in 1 .. l : next[j] = IF j = l THEN longer ELSE paras[j]
    BY <1>0, <1>4, <1>6, <1>a, ExceptSeq
  <2>2. PICK j \in 1 .. l : p = next[j]
    BY <1>b, <2>1, OfSeq
  <2>3. CASE j = l
    <3>1. p = longer
      BY <2>1, <2>2, <2>3
    <3> QED BY <1>1, <1>3, <1>4, <1>b, <3>1 DEF InOne
  <2>4. CASE j # l
    <3>1. p = paras[j] /\ paras[j] \in ToSet(paras)
      BY <1>0, <2>1, <2>2, <2>4, InSeq
    <3> QED BY <1>b, <3>1 DEF InOne
  <2> QED BY <2>3, <2>4
<1> QED
  BY <1>5, <1>6

(* Paragraphs and parts of a list have no tokens but those of their lines.  *)
LEMMA ParagraphsWithin ==
  ASSUME NEW tx \in Text, NEW lines \in Seq(1 .. Len(tx)), NEW y, InOne(Paragraphs(tx, lines), y)
  PROVE  y \in ToSet(lines)
<1> DEFINE N == Len(lines)
           X == 1 .. Len(tx)
           Y == Seq(X)
           F == ParaLoop(tx, lines)
           T == {n \in 0 .. N : InOne(F[n], y) => y \in ToSet(lines)}
           all == F[N]
<1>1. /\ Paragraphs(tx, lines) = Only(all, ToSet(all) \ {<<>>})
      /\ F[0] = <<<<>>>>
      /\ \A n \in 1 .. N : F[n] = ParaStep(tx, F[n - 1], lines[n])
      /\ \A n \in 0 .. N : F[n] \in Piled(X)
  BY ParaLoopIs
<1>0. N \in Nat /\ \A k \in 1 .. N : lines[k] \in X /\ lines[k] \in ToSet(lines)
  BY InSeq
<1> HIDE DEF F
<1>2. 0 \in T
  <2>1. ToSet(<<>>) = {} /\ \A e : ToSet(<<e>>) = {e}
    BY SetOfFew
  <2>2. ToSet(F[0]) = {<<>>}
    BY <1>1, <2>1, Zenon
  <2>3. ~InOne(F[0], y)
    BY <2>1, <2>2 DEF InOne
  <2> QED BY <1>0, <2>3
<1>3. ASSUME NEW n \in 1 .. N, n - 1 \in T PROVE n \in T
  <2>1. /\ n - 1 \in 0 .. N /\ (InOne(F[n - 1], y) => y \in ToSet(lines))
        /\ F[n - 1] \in Piled(X) /\ F[n] = ParaStep(tx, F[n - 1], lines[n])
    BY <1>1, <1>3
  <2>2. InOne(F[n], y) => InOne(F[n - 1], y) \/ y = lines[n]
    BY <1>0, <2>1, ParaStepWithin
  <2> QED BY <1>0, <2>1, <2>2
<1>4. InOne(all, y) => y \in ToSet(lines)
  <2>1. 0 .. N \subseteq T
    <3> HIDE DEF T, N
    <3> QED BY <1>0, <1>2, <1>3, LoopInduction
  <2>2. N \in 0 .. N
    BY <1>0
  <2> QED BY <2>1, <2>2
<1>5. all \in Seq(Y)
  BY <1>0, <1>1 DEF Piled
<1> HIDE DEF all, Y
<1>6. ToSet(Paragraphs(tx, lines)) = ToSet(all) \cap (ToSet(all) \ {<<>>})
  BY <1>1, <1>5, OnlySet
<1> QED
  BY <1>4, <1>6 DEF InOne

LEMMA SplitListWithin ==
  ASSUME NEW tx \in Text, NEW lines \in Seq(1 .. Len(tx)), NEW prefix \in Nat,
         NEW y, InOne(SplitList(tx, lines, prefix), y)
  PROVE  y \in ToSet(lines)
<1> DEFINE N == Len(lines)
           X == 1 .. Len(tx)
           Y == Seq(X)
           F == ListLoop(tx, lines, prefix)
           Here(st) == InOne(st.out, y) \/ y \in ToSet(st.items)
           T == {n \in 0 .. N : Here(F[n]) => y \in ToSet(lines)}
           end == F[N]
<1>1. /\ SplitList(tx, lines, prefix) = Append(end.out, Tokens(tx, end.items))
      /\ F[0] = [out |-> <<>>, items |-> <<>>, tokens |-> prefix]
      /\ \A n \in 1 .. N : F[n] = AddItem(tx, F[n - 1], lines[n], prefix)
      /\ \A n \in 0 .. N : F[n] \in Listing(X)
  BY ListLoopIs
<1>0. N \in Nat /\ \A k \in 1 .. N : lines[k] \in X /\ lines[k] \in ToSet(lines)
  BY InSeq
<1> HIDE DEF F
<1>2. 0 \in T
  <2>1. F[0].items = <<>> /\ F[0].out = <<>>
    BY <1>1
  <2>2. ToSet(<<>>) = {}
    BY SetOfFew
  <2>3. ~Here(F[0])
    BY <2>1, <2>2, Zenon DEF InOne
  <2> HIDE DEF Here
  <2> QED BY <1>0, <2>3
<1>t. ASSUME NEW items \in Seq(X)
      PROVE  Tokens(tx, items) \in Y /\ ToSet(Tokens(tx, items)) \subseteq ToSet(items)
  BY <1>t, TokensSet DEF Text
<1>3. ASSUME NEW n \in 1 .. N, n - 1 \in T PROVE n \in T
  <2> DEFINE st == F[n - 1]
             m == lines[n]
             size == Size(tx[m])
             next == AddItem(tx, st, m, prefix)
  <2>1. n - 1 \in 0 .. N /\ st \in Listing(X) /\ F[n] = next /\ m \in X /\ m \in ToSet(lines)
    BY <1>0, <1>1
  <2>2. Here(st) => y \in ToSet(lines)
    BY <1>3
  <2> HIDE DEF st, m
  <2>3. st.out \in Seq(Y) /\ st.items \in Seq(X) /\ st.tokens \in Nat /\ SoftMax \in Nat
    BY <2>1, ChunkerAssumption DEF Listing
  <2>4. size \in Nat
    <3>1. tx[m] \in LineKind
      BY <2>1 DEF Text
    <3> QED BY <3>1, SizeIs
  <2>5. Tokens(tx, st.items) \in Y /\ ToSet(Tokens(tx, st.items)) \subseteq ToSet(st.items)
    BY <1>t, <2>3
  <2> HIDE DEF Y
  <2>8. CASE st.tokens + size > SoftMax /\ st.items # <<>>
    <3>1. next = [out |-> Append(st.out, Tokens(tx, st.items)), items |-> <<m>>, tokens |-> prefix + size]
      BY <2>1, <2>8, AddItemIs
    <3> HIDE DEF next
    <3>2. next.out = Append(st.out, Tokens(tx, st.items)) /\ next.items = <<m>>
      BY <3>1
    <3>3. ToSet(next.out) = ToSet(st.out) \cup {Tokens(tx, st.items)} /\ ToSet(next.items) = {m}
      BY <2>3, <2>5, <3>2, SetOfAppend, SetOfFew
    <3>4. Here(next) => Here(st) \/ y = m
      BY <2>5, <3>3 DEF InOne
    <3> HIDE DEF Here
    <3> QED BY <1>0, <2>1, <2>2, <3>4 DEF m
  <2>9. CASE ~(st.tokens + size > SoftMax /\ st.items # <<>>)
    <3>0. st.tokens + size <= SoftMax \/ st.items = <<>>
      BY <2>3, <2>4, <2>9
    <3>1. next = [out |-> st.out, items |-> Append(st.items, m), tokens |-> st.tokens + size]
      BY <2>1, <3>0, AddItemIs
    <3> HIDE DEF next
    <3>2. next.out = st.out /\ next.items = Append(st.items, m)
      BY <3>1
    <3>3. ToSet(next.items) = ToSet(st.items) \cup {m}
      <4>1. m \in X /\ st.items \in Seq(X)
        BY <2>1, <2>3
      <4> HIDE DEF X
      <4> QED BY <3>2, <4>1, SetOfAppend
    <3>4. Here(next) => Here(st) \/ y = m
      BY <3>2, <3>3
    <3> HIDE DEF Here
    <3> QED BY <1>0, <2>1, <2>2, <3>4 DEF m
  <2> QED BY <2>8, <2>9
<1>4. (Here(end) => y \in ToSet(lines)) /\ end \in Listing(X)
  <2>1. 0 .. N \subseteq T
    <3> HIDE DEF T, N
    <3> QED BY <1>0, <1>2, <1>3, LoopInduction
  <2>2. N \in 0 .. N
    BY <1>0
  <2> QED BY <1>1, <2>1, <2>2
<1>6. end.out \in Seq(Y) /\ end.items \in Seq(X)
  BY <1>4 DEF Listing
<1> HIDE DEF end
<1>7. Tokens(tx, end.items) \in Y /\ ToSet(Tokens(tx, end.items)) \subseteq ToSet(end.items)
  BY <1>6, <1>t
<1> HIDE DEF Y
<1>8. ToSet(SplitList(tx, lines, prefix)) = ToSet(end.out) \cup {Tokens(tx, end.items)}
  BY <1>1, <1>6, <1>7, SetOfAppend
<1>9. Here(end)
  BY <1>7, <1>8 DEF InOne
<1> QED
  BY <1>4, <1>9

-----------------------------------------------------------------------------
(* chunk_document: the three parsers.                                       *)

(* The block stands in a section under the heading.                         *)
InSections(secs, h, b) ==
  \E i \in 1 .. Len(secs) : secs[i].head = h /\ b \in ToSet(secs[i].blocks)

(* The sections of ParseMarkdown: every block is right, every span is a     *)
(* block, and every other line is in one.                                   *)
LEMMA MarkdownRight ==
  ASSUME NEW tx \in Text, NEW from \in Nat \ {0}
  PROVE  LET secs == ParseMarkdown(tx, from)
             spans == CodeSpans(tx, from)
         IN  /\ secs \in Seq(ASection(tx))
             /\ \A h, b : InSections(secs, h, b) => BlockRight(tx, from, spans, h, b)
             /\ \A s \in spans : \E h, b :
                  InSections(secs, h, b) /\ b.type = "code" /\ ToSet(b.lines) = Interior(s)
             /\ \A m : Plain(tx, from, spans, m) => \E h, b :
                  InSections(secs, h, b) /\ b.type # "code" /\ m \in ToSet(b.lines)
<1> DEFINE N == Len(tx)
           spans == CodeSpans(tx, from)
           r == FlushAll(MarkdownLoop(tx, from)[N])
           last == r.sections
           S == {s \in ToSet(last) : s.blocks # <<>> \/ s.head # 0}
           secs == ParseMarkdown(tx, from)
           A == ASection(tx)
<1>0. N \in Nat /\ Spanned(tx, from, spans)
  BY CodeSpansIs DEF Text
<1>1. secs = Only(last, S)
  BY MarkdownLoopIs
<1>2. Reading(tx, from, spans, r, N) /\ Pending(r) = {}
  BY MarkdownLoopIs, FlushAllKeeps
<1> HIDE DEF r, spans
<1>3. last \in Seq(A)
  <2>1. r \in Parsing(tx)
    BY <1>2 DEF Reading
  <2> QED BY <2>1, ParsingIs
<1> HIDE DEF A, S
<1>4. secs \in Seq(A) /\ ToSet(secs) = ToSet(last) \cap S
  BY <1>1, <1>3, OnlySet
<1> HIDE DEF secs
<1>5. ASSUME NEW h, NEW b PROVE InSections(secs, h, b) <=> InBlocks(r, h, b)
  <2>1. InSections(secs, h, b) <=> \E s \in ToSet(secs) : s.head = h /\ b \in ToSet(s.blocks)
    <3>1. \A i \in 1 .. Len(secs) : secs[i] \in ToSet(secs)
      BY <1>4, InSeq
    <3>2. \A s \in ToSet(secs) : \E i \in 1 .. Len(secs) : s = secs[i]
      BY <1>4, OfSeq
    <3> QED BY <3>1, <3>2 DEF InSections
  <2>2. InBlocks(r, h, b) <=> \E s \in ToSet(last) : s.head = h /\ b \in ToSet(s.blocks)
    <3>1. \A i \in 1 .. Len(last) : last[i] \in ToSet(last)
      BY <1>3, InSeq
    <3>2. \A s \in ToSet(last) : \E i \in 1 .. Len(last) : s = last[i]
      BY <1>3, OfSeq
    <3> QED BY <3>1, <3>2 DEF InBlocks
  <2>3. \A s \in ToSet(last) : b \in ToSet(s.blocks) => s \in S
    <3>1. ToSet(<<>>) = {}
      BY SetOfFew
    <3>2. \A s : b \in ToSet(s.blocks) => s.blocks # <<>>
      BY <3>1, Zenon
    <3> QED BY <3>2 DEF S
  <2> QED BY <1>4, <2>1, <2>2, <2>3
<1>6. \A h, b : InSections(secs, h, b) => BlockRight(tx, from, spans, h, b)
  BY <1>2, <1>5 DEF Reading
<1>7. ASSUME NEW s \in spans
      PROVE  \E h, b : InSections(secs, h, b) /\ b.type = "code" /\ ToSet(b.lines) = Interior(s)
  <2>1. s[1] <= N
    <3>1. s[1] \in from .. N
      BY <1>0 DEF Spanned
    <3> QED BY <1>0, <3>1
  <2> QED BY <1>2, <1>5, <2>1 DEF Reading, CodeIn
<1>8. ASSUME NEW m, Plain(tx, from, spans, m)
      PROVE  \E h, b : InSections(secs, h, b) /\ b.type # "code" /\ m \in ToSet(b.lines)
  <2>1. m <= N
    BY <1>0, <1>8 DEF Plain
  <2>2. \E h : InBlock(r, h, m)
    BY <1>2, <1>8, <2>1 DEF Reading
  <2> QED BY <1>5, <2>2 DEF InBlock
<1> QED
  BY <1>4, <1>6, <1>7, <1>8 DEF A, spans, secs

(* What the three parsers have in common.  Headings count from the line     *)
(* first on, the text is parsed as Markdown from the line from on: a Jira   *)
(* record's title and its line of fields come before.                       *)
Parsed(tx, first, from, spans, secs) ==
  /\ Spanned(tx, from, spans) /\ secs \in Seq(ASection(tx))
  /\ first \in Nat \ {0} /\ \A g \in 1 .. Len(tx) :
       (g >= from => g >= first) /\ (g >= first /\ tx[g] \in Headings => g >= from)
  /\ \A h, b : InSections(secs, h, b) =>
       b.type \in {"heading", "metadata", "message"} \/ BlockRight(tx, from, spans, h, b)
  /\ \A s \in spans : \E h, b :
       InSections(secs, h, b) /\ b.type = "code" /\ ToSet(b.lines) = Interior(s)
  /\ \A m \in 1 .. Len(tx) : tx[m] \notin Headings \cup {"blank"} /\ ~Inside(spans, m) =>
       \E h, b : InSections(secs, h, b) /\ m \in ToSet(b.lines)

(* Each of the three parsers parses a text so.                              *)
LEMMA MarkdownParsed ==
  ASSUME NEW tx \in Text
  PROVE  Parsed(tx, 1, 1, CodeSpans(tx, 1), ParseMarkdown(tx, 1))
<1>1. Spanned(tx, 1, CodeSpans(tx, 1))
  BY CodeSpansIs
<1>2. \A m \in 1 .. Len(tx) : tx[m] \notin Headings \cup {"blank"} /\ ~Inside(CodeSpans(tx, 1), m)
        => Plain(tx, 1, CodeSpans(tx, 1), m)
  BY DEF Plain
<1> QED
  BY <1>1, <1>2, MarkdownRight DEF Parsed

LEMMA LinesIs ==
  ASSUME NEW tx \in Text
  PROVE  Lines(tx, 1) \in Seq(1 .. Len(tx)) /\ ToSet(Lines(tx, 1)) = 1 .. Len(tx)
<1> DEFINE N == Len(tx)
           list == Lines(tx, 1)
<1>0. N \in Nat
  BY DEF Text
<1>1. list = [i \in 1 .. N |-> i]
  BY <1>0 DEF Lines
<1> HIDE DEF list, N
<1>2. list \in Seq(1 .. N)
  BY <1>0, <1>1
<1>3. DOMAIN list = 1 .. N
  BY <1>1
<1>4. ToSet(list) = 1 .. N
  BY <1>1, <1>3 DEF ToSet
<1> QED
  BY <1>2, <1>4 DEF list, N

(* A list of one section with one block.                                    *)
LEMMA OneSection ==
  ASSUME NEW tx, NEW h \in 0 .. Len(tx), NEW block \in ABlock(tx)
  PROVE  /\ <<Section(h, <<block>>)>> \in Seq(ASection(tx))
         /\ \A g, b : InSections(<<Section(h, <<block>>)>>, g, b) <=> g = h /\ b = block
<1> DEFINE B == ABlock(tx)
           bs == <<block>>
           sec == Section(h, bs)
           A == ASection(tx)
           secs == <<sec>>
<1>1. bs \in Seq(B) /\ ToSet(bs) = {block}
  BY SetOfFew
<1> HIDE DEF bs, B
<1>2. sec \in A /\ sec.head = h /\ sec.blocks = bs
  BY <1>1 DEF Section, ASection, B
<1> HIDE DEF sec, A
<1>3. secs \in Seq(A) /\ Len(secs) = 1 /\ secs[1] = sec
  BY <1>2
<1> HIDE DEF secs
<1>4. \A i : i \in 1 .. 1 <=> i = 1
  OBVIOUS
<1>5. \A g, b : InSections(secs, g, b) <=> g = h /\ b = block
  BY <1>1, <1>2, <1>3, <1>4 DEF InSections
<1> QED
  BY <1>3, <1>5 DEF secs, A, sec, bs

LEMMA SlackParsed ==
  ASSUME NEW tx \in Text
  PROVE  Parsed(tx, 1, 1, {}, ParseSlack(tx))
<1> DEFINE block == Block("message", Lines(tx, 1))
<1>1. Spanned(tx, 1, {})
  BY DEF Spanned
<1>2. block \in ABlock(tx) /\ block.type = "message" /\ block.lines = Lines(tx, 1)
  BY LinesIs DEF Block, ABlock, BlockTypes
<1>3. ParseSlack(tx) = <<Section(0, <<block>>)>>
  BY DEF ParseSlack
<1> HIDE DEF block
<1>0. 0 \in 0 .. Len(tx)
  BY DEF Text
<1>4. /\ ParseSlack(tx) \in Seq(ASection(tx))
      /\ \A g, b : InSections(ParseSlack(tx), g, b) <=> g = 0 /\ b = block
  BY <1>0, <1>2, <1>3, OneSection
<1>5. \A m \in 1 .. Len(tx) : m \in ToSet(block.lines)
  BY <1>2, LinesIs
<1>6. \A m \in 1 .. Len(tx) : \E h, b : InSections(ParseSlack(tx), h, b) /\ m \in ToSet(b.lines)
  BY <1>4, <1>5
<1>7. \A h, b : InSections(ParseSlack(tx), h, b) => b.type = "message"
  BY <1>2, <1>4
<1>8. \A g \in 1 .. Len(tx) : g >= 1
  BY DEF Text
<1> QED
  BY <1>1, <1>4, <1>6, <1>7, <1>8 DEF Parsed

(* The blocks of sections that are joined.                                  *)
LEMMA InSectionsBoth ==
  ASSUME NEW tx, NEW a \in Seq(ASection(tx)), NEW c \in Seq(ASection(tx))
  PROVE  \A h, b : InSections(a \o c, h, b) <=> InSections(a, h, b) \/ InSections(c, h, b)
<1> SUFFICES ASSUME NEW h, NEW b
             PROVE  InSections(a \o c, h, b) <=> InSections(a, h, b) \/ InSections(c, h, b)
  OBVIOUS
<1> DEFINE A == ASection(tx)
           In(secs) == \E s \in ToSet(secs) : s.head = h /\ b \in ToSet(s.blocks)
<1>1. ASSUME NEW secs \in Seq(A) PROVE InSections(secs, h, b) <=> In(secs)
  <2>1. \A i \in 1 .. Len(secs) : secs[i] \in ToSet(secs)
    BY <1>1, InSeq
  <2>2. \A s \in ToSet(secs) : \E i \in 1 .. Len(secs) : s = secs[i]
    BY <1>1, OfSeq
  <2> QED BY <2>1, <2>2 DEF InSections
<1>2. a \o c \in Seq(A) /\ ToSet(a \o c) = ToSet(a) \cup ToSet(c)
  BY SetOfBoth, ConcatProperties
<1> HIDE DEF A
<1>5. In(a \o c) <=> In(a) \/ In(c)
  BY <1>2
<1>6. /\ InSections(a \o c, h, b) <=> In(a \o c)
      /\ InSections(a, h, b) <=> In(a)
      /\ InSections(c, h, b) <=> In(c)
  <2> HIDE DEF In
  <2> QED BY <1>1, <1>2 DEF A
<1> QED
  BY <1>5, <1>6

LEMMA JiraParsed ==
  ASSUME NEW tx \in Text
  PROVE  \E from \in Nat \ {0} : Parsed(tx, 2, from, CodeSpans(tx, from), ParseJira(tx))
<1> DEFINE N == Len(tx)
           title == IF tx = <<>> \/ tx[1] = "blank" THEN <<>> ELSE <<1>>
           rest == {n \in 2 .. N : tx[n] # "blank"}
           meta == rest # {} /\ tx[Least(rest)] = "meta"
           from == IF rest = {} THEN N + 1 ELSE Least(rest) + IF meta THEN 1 ELSE 0
           spans == CodeSpans(tx, from)
           head == Block("heading", title)
           fields == Block("metadata", Append(title, Least(rest)))
           top == IF title = <<>> THEN <<>> ELSE <<Section(1, <<head>>)>>
           mid == IF meta THEN <<Section(0, <<fields>>)>> ELSE <<>>
           tail == ParseMarkdown(tx, from)
           secs == ParseJira(tx)
           A == ASection(tx)
           B == ABlock(tx)
<1>0. N \in Nat /\ (tx = <<>> <=> N = 0) /\ rest \in SUBSET Nat
  BY DEF Text
<1>1. secs = top \o mid \o tail
  BY DEF ParseJira
<1>2. /\ title \in Seq(1 .. N)
      /\ title = <<>> => ToSet(title) = {} /\ (1 \in 1 .. N => tx[1] = "blank")
      /\ title # <<>> => ToSet(title) = {1} /\ 1 \in 1 .. N
  <2>1. CASE tx = <<>> \/ tx[1] = "blank"
    <3>1. title = <<>>
      BY <2>1
    <3> HIDE DEF title
    <3> QED BY <1>0, <2>1, <3>1, SetOfFew, EmptySeq
  <2>2. CASE ~(tx = <<>> \/ tx[1] = "blank")
    <3>1. title = <<1>>
      BY <2>2
    <3>2. 1 \in 1 .. N
      BY <1>0, <2>2
    <3>3. <<1>> \in Seq(1 .. N) /\ <<1>> # <<>>
      BY <3>2
    <3> HIDE DEF title
    <3> QED BY <3>1, <3>2, <3>3, SetOfFew
  <2> QED BY <2>1, <2>2
<1>3. rest # {} => Least(rest) \in rest /\ \A m \in rest : Least(rest) <= m
  BY <1>0, LeastIs
<1> DEFINE low == Least(rest)
<1>5. /\ meta => rest # {} /\ tx[low] = "meta"
      /\ rest # {} => low \in 2 .. N /\ \A g \in 1 .. N : g >= 2 /\ g < low => tx[g] = "blank"
      /\ rest = {} => \A g \in 1 .. N : g >= 2 => tx[g] = "blank"
  <2>1. \A g \in 2 .. N : tx[g] # "blank" => g \in rest
    OBVIOUS
  <2>2. rest # {} => low \in 2 .. N
    BY <1>3
  <2>3. \A g \in rest : low <= g
    BY <1>3
  <2> HIDE DEF rest, low
  <2>4. rest = {} => \A g \in 1 .. N : g >= 2 => tx[g] = "blank"
    BY <1>0, <2>1
  <2>5. rest # {} => \A g \in 1 .. N : g >= 2 /\ g < low => tx[g] = "blank"
    BY <1>0, <2>1, <2>2, <2>3
  <2> QED BY <2>2, <2>4, <2>5 DEF low
<1>4. from \in Nat \ {0} /\ \A g \in 1 .. N :
        /\ g >= from => g >= 2 \/ N = 0
        /\ g >= 2 /\ g < from => tx[g] = "blank" \/ (meta /\ g = low /\ tx[g] = "meta")
  <2>0. from = IF rest = {} THEN N + 1 ELSE IF meta THEN low + 1 ELSE low
    BY <1>0, <1>3
  <2> HIDE DEF from, meta, rest, low
  <2>1. CASE rest = {}
    BY <1>0, <1>5, <2>0, <2>1
  <2>2. CASE rest # {} /\ meta
    BY <1>0, <1>5, <2>0, <2>2
  <2>3. CASE rest # {} /\ ~meta
    BY <1>0, <1>5, <2>0, <2>3
  <2> QED BY <2>1, <2>2, <2>3
<1>e. \A g \in 1 .. N : g >= from => g >= 2
  <2>1. CASE rest = {}
    <3>1. from = N + 1
      BY <2>1
    <3> QED BY <1>0, <3>1
  <2>2. CASE rest # {}
    BY <1>0, <1>4
  <2> QED BY <2>1, <2>2
<1> HIDE DEF from
<1>f. meta => Least(rest) \in 1 .. N
  BY <1>0, <1>5
<1> HIDE DEF low, rest, title, meta
<1>6. /\ tail \in Seq(A) /\ Spanned(tx, from, spans)
      /\ \A h, b : InSections(tail, h, b) => BlockRight(tx, from, spans, h, b)
      /\ \A s \in spans : \E h, b :
           InSections(tail, h, b) /\ b.type = "code" /\ ToSet(b.lines) = Interior(s)
      /\ \A m : Plain(tx, from, spans, m) => \E h, b :
           InSections(tail, h, b) /\ b.type # "code" /\ m \in ToSet(b.lines)
  BY <1>4, MarkdownRight, CodeSpansIs
<1>7. /\ top \in Seq(A)
      /\ \A h, b : InSections(top, h, b) => b.type = "heading"
      /\ title # <<>> => InSections(top, 1, head) /\ head.lines = title
  <2>1. CASE title = <<>>
    <3>1. top = <<>>
      BY <2>1
    <3> HIDE DEF top
    <3>2. <<>> \in Seq(A) /\ \A h, b : ~InSections(<<>>, h, b)
      BY <3>1 DEF InSections
    <3> QED BY <2>1, <3>1, <3>2
  <2>2. CASE title # <<>>
    <3>1. top = <<Section(1, <<head>>)>>
      BY <2>2
    <3>2. head \in B /\ head.type = "heading" /\ head.lines = title
      BY <1>2 DEF Block, ABlock, BlockTypes
    <3>3. 1 \in 0 .. Len(tx)
      BY <1>0, <1>2, <2>2
    <3> HIDE DEF top, head
    <3> QED BY <3>1, <3>2, <3>3, OneSection
  <2> QED BY <2>1, <2>2
<1>8. /\ mid \in Seq(A)
      /\ \A h, b : InSections(mid, h, b) => b.type = "metadata"
      /\ meta => InSections(mid, 0, fields) /\ Least(rest) \in ToSet(fields.lines)
  <2>1. CASE ~meta
    <3>1. mid = <<>>
      BY <2>1
    <3> HIDE DEF mid
    <3>2. <<>> \in Seq(A) /\ \A h, b : ~InSections(<<>>, h, b)
      BY <3>1 DEF InSections
    <3> QED BY <2>1, <3>1, <3>2
  <2>2. CASE meta
    <3>1. mid = <<Section(0, <<fields>>)>>
      BY <2>2
    <3> DEFINE X == 1 .. N
    <3>0. title \in Seq(X) /\ Least(rest) \in X
      BY <1>2, <1>f, <2>2
    <3> HIDE DEF X
    <3>2. Append(title, Least(rest)) \in Seq(X)
          /\ ToSet(Append(title, Least(rest))) = ToSet(title) \cup {Least(rest)}
      BY <3>0, SetOfAppend, AppendProperties
    <3>3. fields \in B /\ fields.type = "metadata" /\ fields.lines = Append(title, Least(rest))
      BY <3>2 DEF Block, ABlock, BlockTypes, X
    <3>4. 0 \in 0 .. Len(tx)
      BY <1>0
    <3> HIDE DEF mid, fields
    <3> QED BY <3>1, <3>2, <3>3, <3>4, OneSection
  <2> QED BY <2>1, <2>2
<1> HIDE DEF top, mid, tail, secs, A, spans, head, fields
<1>9. /\ secs \in Seq(A)
      /\ \A h, b : InSections(secs, h, b) <=>
           InSections(top, h, b) \/ InSections(mid, h, b) \/ InSections(tail, h, b)
  <2>1. top \o mid \in Seq(A) /\ top \o mid \o tail \in Seq(A)
    BY <1>6, <1>7, <1>8, ConcatProperties
  <2>2. \A h, b : InSections(top \o mid, h, b) <=> InSections(top, h, b) \/ InSections(mid, h, b)
    BY <1>7, <1>8, InSectionsBoth DEF A
  <2>3. \A h, b : InSections(top \o mid \o tail, h, b) <=> InSections(top \o mid, h, b) \/ InSections(tail, h, b)
    BY <1>6, <2>1,  InSectionsBoth DEF A
  <2> QED BY <1>1, <2>1, <2>2, <2>3
<1>10. \A h, b : InSections(secs, h, b) =>
         b.type \in {"heading", "metadata", "message"} \/ BlockRight(tx, from, spans, h, b)
  BY <1>6, <1>7, <1>8, <1>9
<1>11. \A s \in spans : \E h, b :
         InSections(secs, h, b) /\ b.type = "code" /\ ToSet(b.lines) = Interior(s)
  BY <1>6, <1>9
<1>12. ASSUME NEW m \in 1 .. N, tx[m] \notin Headings \cup {"blank"}, ~Inside(spans, m)
       PROVE  \E h, b : InSections(secs, h, b) /\ m \in ToSet(b.lines)
  <2>1. CASE m >= from
    <3>1. Plain(tx, from, spans, m)
      BY <1>0, <1>4, <1>12, <2>1 DEF Plain
    <3> QED BY <1>6, <1>9, <3>1
  <2>2. CASE m < from /\ m >= 2
    <3>1. meta /\ m = Least(rest)
      BY <1>4, <1>12, <2>2 DEF low
    <3> QED BY <1>8, <1>9, <3>1
  <2>3. CASE m = 1
    <3>1. title # <<>> /\ ToSet(title) = {1}
      BY <1>2, <1>12, <2>3
    <3>2. InSections(secs, 1, head) /\ head.lines = title
      BY <1>7, <1>9, <3>1
    <3> QED BY <2>3, <3>1, <3>2
  <2> QED BY <1>0, <1>4, <2>1, <2>2, <2>3
<1>13. \A g \in 1 .. N : (g >= from => g >= 2) /\ (g >= 2 /\ tx[g] \in Headings => g >= from)
  <2>1. \A g \in 1 .. N : tx[g] \in Headings => tx[g] \notin {"blank", "meta"}
    BY DEF Headings
  <2> QED BY <1>0, <1>4, <1>e, <2>1
<1>14. Parsed(tx, 2, from, spans, secs)
  BY <1>6, <1>9, <1>10, <1>11, <1>12, <1>13 DEF Parsed, A
<1> QED
  BY <1>4, <1>14 DEF spans, secs

(* For every source.                                                        *)
LEMMA ParseIs ==
  ASSUME NEW tx \in Text, NEW source
  PROVE  LET first == IF source = "jira" THEN 2 ELSE 1
         IN  \E from \in Nat \ {0} : \E spans : Parsed(tx, first, from, spans, Parse(source, tx))
<1>1. CASE source = "jira"
  BY <1>1, JiraParsed DEF Parse
<1>2. CASE source = "slack"
  BY <1>2, SlackParsed DEF Parse
<1>3. CASE source # "jira" /\ source # "slack"
  <2>1. Parse(source, tx) = ParseMarkdown(tx, 1)
    BY <1>3 DEF Parse
  <2> QED BY <1>3, <2>1, MarkdownParsed
<1> QED
  BY <1>1, <1>2, <1>3

-----------------------------------------------------------------------------
(* chunk_document: the chunks of the blocks.                                *)

(* The types of chunks.                                                     *)
ChunkKinds == {"title", "body", "metadata", "message", "code", "table", "list"}

KindOf(type) ==
  IF type = "heading" THEN "title" ELSE IF type = "paragraph" THEN "body" ELSE type

AChunk == [type : ChunkKinds, head : Nat, prefix : Nat, tokens : Seq(Nat)]

(* The bounds that ChunksBounded states.                                    *)
Bound(type, prefix, tokens) ==
  \/ prefix + Len(tokens) <= HardMax
  \/ type \in {"code", "table", "metadata", "title"}
  \/ type = "list" /\ Cardinality(ToSet(tokens)) = 1
  \/ type = "message" /\ Len(tokens) <= 2 * SoftMax

(* A chunk of a block: under its heading, within bounds, or endless because *)
(* the heading leaves no room.                                              *)
ChunkRight(tx, h, b, c) ==
  /\ c \in AChunk /\ c.head = h /\ c.type = KindOf(b.type)
  /\ \/ Endless(c) /\ c.prefix >= SoftMax - Overlap /\ c.type = "body"
     \/ /\ ~Endless(c) /\ Bound(c.type, c.prefix, c.tokens)
        /\ c.type # "message" => ToSet(c.tokens) \subseteq ToSet(b.lines)

(* The chunks of a block: each is right, and together they have its lines,  *)
(* unless one is endless.                                                   *)
ChunksRight(tx, h, b, chunks) ==
  /\ chunks \in Seq(AChunk)
  /\ \A c \in ToSet(chunks) : ChunkRight(tx, h, b, c)
  /\ \/ \E c \in ToSet(chunks) : Endless(c)
     \/ \A m \in ToSet(b.lines) : tx[m] # "blank" => \E c \in ToSet(chunks) : m \in ToSet(c.tokens)

(* No tokens are mistaken for Forever, as lines count from 1.               *)
LEMMA NotForever ==
  ASSUME NEW N \in Nat, NEW tokens \in Seq(1 .. N)
  PROVE  tokens # Forever /\ tokens \in Seq(Nat) /\ Forever \in Seq(Nat)
<1>1. ASSUME tokens = Forever PROVE FALSE
  <2>1. 0 \in ToSet(tokens)
    <3>1. ToSet(<<0>>) = {0}
      BY SetOfFew
    <3> QED BY <1>1, <3>1 DEF Forever
  <2>2. 0 \in 1 .. N
    BY <2>1, OfSeq
  <2> QED BY <2>2
<1>2. 1 .. N \subseteq Nat
  OBVIOUS
<1> QED
  BY <1>1, <1>2, SeqMonotonic DEF Forever

(* The chunks made of parts.                                                *)
PartsOf(type, h, prefix, parts) ==
  [k \in DOMAIN parts |-> StructuredChunk(type, h, prefix, parts[k])]

LEMMA PartsOfIs ==
  ASSUME NEW type \in ChunkKinds, NEW h \in Nat, NEW prefix \in Nat, NEW parts \in Seq(Seq(Nat))
  PROVE  /\ PartsOf(type, h, prefix, parts) \in Seq(AChunk)
         /\ \A c \in ToSet(PartsOf(type, h, prefix, parts)) :
              /\ c \in AChunk /\ c.type = type /\ c.head = h /\ c.prefix = prefix
              /\ c.tokens \in ToSet(parts)
         /\ \A p \in ToSet(parts) : \E c \in ToSet(PartsOf(type, h, prefix, parts)) : c.tokens = p
<1> DEFINE cs == PartsOf(type, h, prefix, parts)
           Y == Seq(Nat)
           C == AChunk
<1>0. parts \in Seq(Y) /\ DOMAIN parts = 1 .. Len(parts) /\ Len(parts) \in Nat
  OBVIOUS
<1>1. \A k \in 1 .. Len(parts) : parts[k] \in Y
  OBVIOUS
<1> HIDE DEF Y
<1>2. \A k \in 1 .. Len(parts) :
        LET c == StructuredChunk(type, h, prefix, parts[k])
        IN  c \in C /\ c.type = type /\ c.head = h /\ c.prefix = prefix /\ c.tokens = parts[k]
  BY <1>1 DEF StructuredChunk, AChunk, Y
<1>3. cs = [k \in 1 .. Len(parts) |-> StructuredChunk(type, h, prefix, parts[k])]
  BY <1>0 DEF PartsOf
<1> HIDE DEF cs, C
<1>4. cs \in Seq(C) /\ Len(cs) = Len(parts)
  BY <1>0, <1>2, <1>3
<1>5. \A k \in 1 .. Len(parts) : cs[k] = StructuredChunk(type, h, prefix, parts[k])
  BY <1>3
<1>6. ASSUME NEW c \in ToSet(cs)
      PROVE  c \in C /\ c.type = type /\ c.head = h /\ c.prefix = prefix /\ c.tokens \in ToSet(parts)
  <2>1. PICK k \in 1 .. Len(cs) : c = cs[k]
    BY <1>4, OfSeq
  <2>2. parts[k] \in ToSet(parts)
    BY <1>0, <1>4, <2>1, InSeq
  <2> QED BY <1>2, <1>4, <1>5, <2>1, <2>2
<1>7. ASSUME NEW p \in ToSet(parts) PROVE \E c \in ToSet(cs) : c.tokens = p
  <2>1. PICK k \in 1 .. Len(parts) : p = parts[k]
    BY <1>0, OfSeq
  <2>2. cs[k] \in ToSet(cs)
    BY <1>4, <2>1, InSeq
  <2> QED BY <1>2, <1>5, <2>1, <2>2
<1> QED
  BY <1>4, <1>6, <1>7 DEF cs, C, Y

(* A block that is one chunk.                                               *)
LEMMA WholeRight ==
  ASSUME NEW tx \in Text, NEW h \in 0 .. Len(tx), NEW b \in ABlock(tx), NEW prefix \in Nat,
         Bound(KindOf(b.type), prefix, Tokens(tx, b.lines))
  PROVE  ChunksRight(tx, h, b, <<StructuredChunk(KindOf(b.type), h, prefix, Tokens(tx, b.lines))>>)
<1> DEFINE tokens == Tokens(tx, b.lines)
           c == StructuredChunk(KindOf(b.type), h, prefix, tokens)
           cs == <<c>>
<1>0. b.lines \in Seq(1 .. Len(tx)) /\ Len(tx) \in Nat /\ h \in Nat /\ KindOf(b.type) \in ChunkKinds
  BY DEF Text, ABlock, BlockTypes, KindOf, ChunkKinds
<1>1. tokens \in Seq(1 .. Len(tx)) /\ ToSet(tokens) = {n \in ToSet(b.lines) : tx[n] # "blank"}
  BY <1>0, TokensSet DEF Text
<1>2. tokens # Forever /\ tokens \in Seq(Nat)
  BY <1>0, <1>1, NotForever
<1> HIDE DEF tokens
<1>3. /\ c \in AChunk /\ c.head = h /\ c.type = KindOf(b.type) /\ c.prefix = prefix
      /\ c.tokens = tokens
  BY <1>0, <1>2 DEF StructuredChunk, AChunk
<1> HIDE DEF c
<1>4. cs \in Seq(AChunk) /\ ToSet(cs) = {c}
  BY <1>3, SetOfFew
<1> HIDE DEF cs
<1>5. ChunkRight(tx, h, b, c)
  <2>1. ~Endless(c)
    BY <1>2, <1>3 DEF Endless
  <2>2. Bound(c.type, c.prefix, c.tokens)
    BY <1>3 DEF tokens
  <2> QED BY <1>1, <1>3, <2>1, <2>2 DEF ChunkRight
<1>6. \A m \in ToSet(b.lines) : tx[m] # "blank" => m \in ToSet(c.tokens)
  BY <1>1, <1>3
<1> QED
  BY <1>4, <1>5, <1>6 DEF ChunksRight, cs, c, tokens

(* A block that is one chunk for each part.                                 *)
LEMMA PartsRight ==
  ASSUME NEW tx \in Text, NEW h \in 0 .. Len(tx), NEW b \in ABlock(tx), NEW prefix \in Nat,
         NEW parts \in Seq(Seq(1 .. Len(tx))),
         \A p \in ToSet(parts) : /\ Bound(KindOf(b.type), prefix, p)
                                 /\ b.type # "message" => ToSet(p) \subseteq ToSet(b.lines),
         \A m \in ToSet(b.lines) : tx[m] # "blank" => InOne(parts, m)
  PROVE  ChunksRight(tx, h, b, PartsOf(KindOf(b.type), h, prefix, parts))
<1> DEFINE X == 1 .. Len(tx)
           Y == Seq(X)
           cs == PartsOf(KindOf(b.type), h, prefix, parts)
<1>0. /\ Len(tx) \in Nat /\ h \in Nat /\ KindOf(b.type) \in ChunkKinds
      /\ (KindOf(b.type) = "message" <=> b.type = "message")
  BY DEF Text, ABlock, BlockTypes, KindOf, ChunkKinds
<1>1. \A p \in Y : p # Forever /\ p \in Seq(Nat)
  BY <1>0, NotForever
<1>2. parts \in Seq(Y) /\ Y \subseteq Seq(Nat)
  BY <1>1
<1>3. parts \in Seq(Seq(Nat))
  BY <1>2, SeqMonotonic
<1>4. /\ cs \in Seq(AChunk)
      /\ \A c \in ToSet(cs) : /\ c \in AChunk /\ c.type = KindOf(b.type) /\ c.head = h
                              /\ c.prefix = prefix /\ c.tokens \in ToSet(parts)
      /\ \A p \in ToSet(parts) : \E c \in ToSet(cs) : c.tokens = p
  BY <1>0, <1>3, PartsOfIs
<1> HIDE DEF Y, cs
<1>5. ASSUME NEW c \in ToSet(cs) PROVE ChunkRight(tx, h, b, c)
  <2>1. c.tokens \in Y
    BY <1>2, <1>4, OfSeq
  <2>2. ~Endless(c)
    BY <1>1, <2>1 DEF Endless
  <2>3. Bound(c.type, c.prefix, c.tokens)
    BY <1>4
  <2>4. c.type # "message" => ToSet(c.tokens) \subseteq ToSet(b.lines)
    BY <1>0, <1>4
  <2> QED BY <1>4, <2>2, <2>3, <2>4 DEF ChunkRight
<1>6. \A m \in ToSet(b.lines) : tx[m] # "blank" => \E c \in ToSet(cs) : m \in ToSet(c.tokens)
  BY <1>4 DEF InOne
<1> QED
  BY <1>4, <1>5, <1>6 DEF ChunksRight, cs

(* A paragraph that is split for ever.                                      *)
LEMMA EndlessRight ==
  ASSUME NEW tx, NEW h \in Nat, NEW b, b.type = "paragraph",
         NEW prefix \in Nat, prefix >= SoftMax - Overlap
  PROVE  ChunksRight(tx, h, b, PartsOf("body", h, prefix, <<Forever>>))
<1> DEFINE cs == PartsOf("body", h, prefix, <<Forever>>)
           parts == <<Forever>>
           Y == Seq(Nat)
           type == "body"
<1>1. Forever \in Y /\ type \in ChunkKinds
  BY DEF Forever, ChunkKinds
<1> HIDE DEF Y, type
<1>2. parts \in Seq(Y) /\ ToSet(parts) = {Forever}
  BY <1>1, SetOfFew
<1> HIDE DEF parts
<1>3. /\ PartsOf(type, h, prefix, parts) \in Seq(AChunk)
      /\ \A c \in ToSet(PartsOf(type, h, prefix, parts)) :
           /\ c \in AChunk /\ c.type = type /\ c.head = h /\ c.prefix = prefix
           /\ c.tokens \in ToSet(parts)
      /\ \A p \in ToSet(parts) : \E c \in ToSet(PartsOf(type, h, prefix, parts)) : c.tokens = p
  <2>1. parts \in Seq(Seq(Nat)) /\ type \in ChunkKinds
    BY <1>1, <1>2 DEF Y
  <2> QED BY <2>1, PartsOfIs
<1>4. cs = PartsOf(type, h, prefix, parts)
  BY DEF parts, type
<1> HIDE DEF cs
<1>5. ASSUME NEW c \in ToSet(cs) PROVE ChunkRight(tx, h, b, c)
  <2>1. c \in AChunk /\ c.type = "body" /\ c.head = h /\ c.prefix = prefix
    BY <1>3, <1>4 DEF type
  <2>2. c.tokens = Forever
    BY <1>2, <1>3, <1>4
  <2>3. KindOf(b.type) = "body"
    BY DEF KindOf
  <2> QED BY <2>1, <2>2, <2>3 DEF Endless, ChunkRight
<1>6. \E c \in ToSet(cs) : Endless(c)
  BY <1>2, <1>3, <1>4 DEF Endless
<1> QED
  BY <1>3, <1>4, <1>5, <1>6 DEF ChunksRight, cs

(* A block as it is found in a section: no paragraph or list is empty or    *)
(* has a blank line.                                                        *)
Full(tx, b) ==
  /\ b \in ABlock(tx)
  /\ b.type \in {"paragraph", "list"} =>
       b.lines # <<>> /\ \A n \in ToSet(b.lines) : tx[n] # "blank"

(* The tokens of the heading in front of every chunk.                       *)
HeadSize(tx, h) == IF h = 0 THEN 0 ELSE Size(tx[h])

LEMMA HeadSizeIs ==
  ASSUME NEW tx \in Text, NEW h \in 0 .. Len(tx)
  PROVE  HeadSize(tx, h) \in Nat
<1>1. CASE h = 0
  BY <1>1 DEF HeadSize
<1>2. CASE h # 0
  <2>1. tx[h] \in LineKind
    BY <1>2 DEF Text
  <2> QED BY <1>2, <2>1, SizeIs DEF HeadSize
<1> QED
  BY <1>1, <1>2

(* The cases of BlockChunks.                                                *)
LEMMA BlockChunksIs ==
  ASSUME NEW tx, NEW s, NEW b
  PROVE  LET pre == HeadSize(tx, s.head)
             tokens == Tokens(tx, b.lines)
             Whole(prefix) == <<StructuredChunk(KindOf(b.type), s.head, prefix, tokens)>>
             Parts(prefix, parts) == PartsOf(KindOf(b.type), s.head, prefix, parts)
         IN  /\ b.type \in {"heading", "metadata"} => BlockChunks(tx, s, b) = Whole(0)
             /\ b.type \in {"code", "table"} => BlockChunks(tx, s, b) = Whole(pre)
             /\ b.type = "message" => BlockChunks(tx, s, b) =
                  IF Len(tokens) <= HardMax THEN Whole(0)
                  ELSE Parts(0, SplitProse(Paragraphs(tx, b.lines), SoftMax))
             /\ b.type = "list" => BlockChunks(tx, s, b) =
                  IF pre + Len(tokens) <= HardMax THEN Whole(pre)
                  ELSE Parts(pre, SplitList(tx, b.lines, pre))
             /\ b.type = "paragraph" => BlockChunks(tx, s, b) =
                  Parts(pre, SplitProse(Paragraphs(tx, b.lines), SoftMax - pre))
<1>1. b.type \in {"heading", "metadata"} => BlockChunks(tx, s, b) =
        <<StructuredChunk(KindOf(b.type), s.head, 0, Tokens(tx, b.lines))>>
  BY DEF BlockChunks, KindOf
<1>2. b.type \in {"code", "table"} => BlockChunks(tx, s, b) =
        <<StructuredChunk(KindOf(b.type), s.head, HeadSize(tx, s.head), Tokens(tx, b.lines))>>
  BY DEF BlockChunks, KindOf, HeadSize
<1>3. b.type = "message" => BlockChunks(tx, s, b) =
        IF Len(Tokens(tx, b.lines)) <= HardMax
        THEN <<StructuredChunk(KindOf(b.type), s.head, 0, Tokens(tx, b.lines))>>
        ELSE PartsOf(KindOf(b.type), s.head, 0, SplitProse(Paragraphs(tx, b.lines), SoftMax))
  BY DEF BlockChunks, KindOf, PartsOf
<1>4. b.type = "list" => BlockChunks(tx, s, b) =
        IF HeadSize(tx, s.head) + Len(Tokens(tx, b.lines)) <= HardMax
        THEN <<StructuredChunk(KindOf(b.type), s.head, HeadSize(tx, s.head), Tokens(tx, b.lines))>>
        ELSE PartsOf(KindOf(b.type), s.head, HeadSize(tx, s.head),
                     SplitList(tx, b.lines, HeadSize(tx, s.head)))
  BY DEF BlockChunks, KindOf, PartsOf, HeadSize
<1>5. b.type = "paragraph" => BlockChunks(tx, s, b) =
        PartsOf(KindOf(b.type), s.head, HeadSize(tx, s.head),
                SplitProse(Paragraphs(tx, b.lines), SoftMax - HeadSize(tx, s.head)))
  BY DEF BlockChunks, KindOf, PartsOf, HeadSize
<1> QED
  BY <1>1, <1>2, <1>3, <1>4, <1>5

(* The chunks of a block are right, type by type.                           *)
LEMMA MessageRight ==
  ASSUME NEW tx \in Text, NEW s, s.head \in 0 .. Len(tx), NEW b, Full(tx, b), b.type = "message"
  PROVE  ChunksRight(tx, s.head, b, BlockChunks(tx, s, b))
<1> DEFINE tokens == Tokens(tx, b.lines)
           X == 1 .. Len(tx)
           paras == Paragraphs(tx, b.lines)
           parts == SplitProse(paras, SoftMax)
<1>0. /\ Len(tx) \in Nat /\ b \in ABlock(tx) /\ b.lines \in Seq(X) /\ KindOf(b.type) = "message"
      /\ SoftMax \in Int /\ HardMax \in Nat /\ SoftMax > Overlap /\ X \in SUBSET Nat /\ 0 \in Nat
  BY ChunkerAssumption DEF Text, Full, ABlock, KindOf
<1>1. BlockChunks(tx, s, b) =
        IF Len(tokens) <= HardMax THEN <<StructuredChunk(KindOf(b.type), s.head, 0, tokens)>>
        ELSE PartsOf(KindOf(b.type), s.head, 0, parts)
  BY BlockChunksIs
<1>2. CASE Len(tokens) <= HardMax
  <2>0. tokens \in Seq(X)
    BY <1>0, TokensSet DEF Text
  <2>1. Bound(KindOf(b.type), 0, tokens)
    BY <1>0, <1>2, <2>0 DEF Bound
  <2> HIDE DEF X
  <2> QED BY <1>0, <1>1, <1>2, <2>1, WholeRight
<1>3. CASE ~(Len(tokens) <= HardMax)
  <2>1. paras \in Seq(Seq(X)) /\ \A n \in ToSet(b.lines) : tx[n] # "blank" => InOne(paras, n)
    BY <1>0, ParagraphsAll
  <2> HIDE DEF paras, X
  <2>2. /\ parts \in Seq(Seq(X))
        /\ \A p \in ToSet(parts) : Len(p) <= 2 * SoftMax
        /\ \A para \in ToSet(paras) : \A y \in ToSet(para) : \E p \in ToSet(parts) : y \in ToSet(p)
    BY <1>0, <2>1, ProseMany
  <2> HIDE DEF parts
  <2>3. \A p \in ToSet(parts) : Bound(KindOf(b.type), 0, p)
    BY <1>0, <2>2 DEF Bound
  <2>4. \A m \in ToSet(b.lines) : tx[m] # "blank" => InOne(parts, m)
    BY <2>1, <2>2 DEF InOne
  <2>5. ChunksRight(tx, s.head, b, PartsOf(KindOf(b.type), s.head, 0, parts))
    BY <1>0, <2>2, <2>3, <2>4, PartsRight DEF X
  <2> QED BY <1>1, <1>3, <2>5
<1> QED
  BY <1>2, <1>3

LEMMA ListRight ==
  ASSUME NEW tx \in Text, NEW s, s.head \in 0 .. Len(tx), NEW b, Full(tx, b), b.type = "list"
  PROVE  ChunksRight(tx, s.head, b, BlockChunks(tx, s, b))
<1> DEFINE tokens == Tokens(tx, b.lines)
           X == 1 .. Len(tx)
           pre == HeadSize(tx, s.head)
           parts == SplitList(tx, b.lines, pre)
<1>0. /\ Len(tx) \in Nat /\ b \in ABlock(tx) /\ b.lines \in Seq(X) /\ KindOf(b.type) = "list"
      /\ SoftMax \in Nat /\ HardMax \in Nat /\ SoftMax <= HardMax
      /\ b.lines # <<>> /\ \A n \in ToSet(b.lines) : tx[n] # "blank"
  BY ChunkerAssumption DEF Text, Full, ABlock, KindOf
<1>p. pre \in Nat
  BY HeadSizeIs
<1>1. BlockChunks(tx, s, b) =
        IF pre + Len(tokens) <= HardMax THEN <<StructuredChunk(KindOf(b.type), s.head, pre, tokens)>>
        ELSE PartsOf(KindOf(b.type), s.head, pre, parts)
  BY BlockChunksIs
<1> HIDE DEF pre
<1>2. CASE pre + Len(tokens) <= HardMax
  <2>1. Bound(KindOf(b.type), pre, tokens)
    BY <1>2 DEF Bound
  <2> QED BY <1>0, <1>1, <1>2, <1>p, <2>1, WholeRight
<1>3. CASE ~(pre + Len(tokens) <= HardMax)
  <2>2. /\ parts \in Seq(Seq(X))
        /\ \A p \in ToSet(parts) : Fits(pre, p)
        /\ \A n \in ToSet(b.lines) : InOne(parts, n)
    BY <1>0, <1>p, SplitListFits
  <2>3. \A p \in ToSet(parts) : \A y \in ToSet(p) : y \in ToSet(b.lines)
    BY <1>0, <1>p, SplitListWithin DEF InOne
  <2> DEFINE Y == Seq(X)
  <2>4. \A p \in Y : Len(p) \in Nat
    OBVIOUS
  <2> HIDE DEF parts, Y
  <2>5. ASSUME NEW p \in ToSet(parts) PROVE Bound(KindOf(b.type), pre, p)
    <3>1. p \in Y
      BY <2>2, OfSeq DEF Y
    <3>2. Fits(pre, p) /\ Len(p) \in Nat
      BY <2>2, <2>4, <3>1
    <3> QED BY <1>0, <1>p, <3>2 DEF Fits, Bound
  <2>6. ChunksRight(tx, s.head, b, PartsOf(KindOf(b.type), s.head, pre, parts))
    BY <1>0, <1>p, <2>2, <2>3, <2>5, PartsRight
  <2> QED BY <1>1, <1>3, <2>6
<1> QED
  BY <1>2, <1>3

LEMMA ParagraphRight ==
  ASSUME NEW tx \in Text, NEW s, s.head \in 0 .. Len(tx), NEW b, Full(tx, b), b.type = "paragraph"
  PROVE  ChunksRight(tx, s.head, b, BlockChunks(tx, s, b))
<1> DEFINE X == 1 .. Len(tx)
           Z == ToSet(b.lines)
           pre == HeadSize(tx, s.head)
           soft == SoftMax - pre
           paras == Paragraphs(tx, b.lines)
           parts == SplitProse(paras, soft)
<1>0. /\ Len(tx) \in Nat /\ b \in ABlock(tx) /\ b.lines \in Seq(X) /\ KindOf(b.type) = "body"
      /\ SoftMax \in Nat /\ HardMax \in Nat /\ SoftMax <= HardMax /\ Overlap \in Nat
      /\ \A n \in Z : tx[n] # "blank"
      /\ s.head \in Nat
  BY ChunkerAssumption DEF Text, Full, ABlock, KindOf
<1>p. pre \in Nat /\ soft \in Int
  BY <1>0, HeadSizeIs
<1>1. BlockChunks(tx, s, b) = PartsOf("body", s.head, pre, parts)
  BY <1>0, BlockChunksIs
<1> HIDE DEF pre
<1>2. PICK p \in Seq(X) : paras \in {<<>>, <<p>>}
  BY <1>0, OneParagraph
<1>3. \A y : InOne(paras, y) => y \in Z
  BY <1>0, ParagraphsWithin
<1>4. \A n \in Z : InOne(paras, n)
  BY <1>0, ParagraphsAll
<1>5. Z \subseteq X
  BY <1>0, OfSeq
<1>6. SUFFICES ASSUME NEW q \in Seq(Z), q = p, paras = <<q>>
               PROVE  ChunksRight(tx, s.head, b, PartsOf("body", s.head, pre, parts))
  <2>1. CASE paras = <<>>
    <3> DEFINE none == <<>>
    <3>1. ToSet(none) = {} /\ none \in Seq(Seq(X))
      BY SetOfFew
    <3>0. p \in Seq(Nat)
      <4>1. X \subseteq Nat
        OBVIOUS
      <4> HIDE DEF X
      <4> QED BY <1>2, <4>1, SeqMonotonic
    <3>2. parts = none
      BY <1>p, <2>1, <3>0, ProseOne
    <3>3. paras = none
      BY <2>1
    <3> HIDE DEF none, paras, parts, X, soft
    <3>4. \A n \in Z : InOne(none, n)
      BY <1>4, <3>3
    <3>5. ~\E y \in ToSet(none) : TRUE
      BY <3>1
    <3>6. ChunksRight(tx, s.head, b, PartsOf(KindOf(b.type), s.head, pre, none))
      BY <1>0, <1>p, <3>1, <3>4, <3>5, PartsRight DEF X
    <3> QED BY <1>0, <1>1, <3>2, <3>6
  <2>2. CASE paras = <<p>>
    <3>1. ToSet(paras) = {p}
      BY <2>2, SetOfFew
    <3> HIDE DEF paras, X
    <3>2. ToSet(p) \subseteq Z
      BY <1>3, <3>1 DEF InOne
    <3>3. p \in Seq(Z)
      <4>1. DOMAIN p = 1 .. Len(p) /\ Len(p) \in Nat
        BY <1>2
      <4>2. \A i \in 1 .. Len(p) : p[i] \in Z
        BY <1>2, <3>2, InSeq
      <4> HIDE DEF Z
      <4> QED BY <1>2, <4>1, <4>2
    <3> QED BY <1>1, <2>2, <3>3
  <2> QED BY <1>2, <2>1, <2>2
<1>7. /\ q \in Seq(X) /\ q \in Seq(Nat) /\ Len(q) \in Nat
      /\ ToSet(paras) = {q}
      /\ parts = IF Len(q) > soft THEN SplitTokens(q, soft) ELSE <<q>>
  <2>1. q \in Seq(X) /\ q \in Seq(Nat)
    <3>1. X \subseteq Nat
      OBVIOUS
    <3> HIDE DEF Z, X
    <3> QED BY <1>5, <1>6, <3>1, SeqMonotonic
  <2>2. ToSet(paras) = {q}
    BY <1>6, SetOfFew
  <2>3. parts = IF Len(q) > soft THEN SplitTokens(q, soft) ELSE <<q>>
    BY <1>6, <1>p, <2>1, ProseOne
  <2> QED BY <2>1, <2>2, <2>3
<1> HIDE DEF Z, X, soft, paras, parts
<1>8. ASSUME parts \in Seq(Seq(Z)), \A r \in ToSet(parts) : Len(r) <= soft, soft \in Int,
             \A y \in ToSet(q) : InOne(parts, y)
      PROVE  ChunksRight(tx, s.head, b, PartsOf("body", s.head, pre, parts))
  <2>1. parts \in Seq(Seq(X))
    <3>1. Seq(Z) \subseteq Seq(X)
      BY <1>5, SeqMonotonic
    <3> HIDE DEF Z, X
    <3> QED BY <1>8, <3>1, SeqMonotonic
  <2>2. ASSUME NEW r \in ToSet(parts)
        PROVE  Bound(KindOf(b.type), pre, r) /\ ToSet(r) \subseteq Z
    <3> DEFINE Y == Seq(Z)
    <3>1. \A t \in Y : Len(t) \in Nat /\ ToSet(t) \subseteq Z
      BY OfSeq
    <3>2. r \in Y
      <4> HIDE DEF Y
      <4> QED BY <1>8, <2>2, OfSeq DEF Y
    <3>3. Len(r) \in Nat /\ Len(r) <= soft /\ ToSet(r) \subseteq Z
      BY <1>8, <3>1, <3>2
    <3> QED BY <1>0, <1>p, <3>3 DEF soft, Bound
  <2>3. \A m \in Z : InOne(parts, m)
    BY <1>4, <1>7, <1>8 DEF InOne
  <2>4. ChunksRight(tx, s.head, b, PartsOf(KindOf(b.type), s.head, pre, parts))
    BY <1>0, <1>p, <2>1, <2>2, <2>3, PartsRight DEF X, Z
  <2> QED BY <1>0, <2>4
<1>9. CASE Len(q) <= soft
  <2> DEFINE Y == Seq(Z)
  <2>1. parts = <<q>> /\ q \in Y
    BY <1>6, <1>7, <1>9, <1>p DEF soft
  <2> HIDE DEF Y
  <2>2. parts \in Seq(Y) /\ ToSet(parts) = {q}
    BY <2>1, SetOfFew
  <2> QED BY <1>8, <1>9, <1>p, <2>2 DEF InOne, Y
<1>10. CASE Len(q) > soft /\ soft > Overlap
  <2>1. parts = SplitTokens(q, soft)
    BY <1>7, <1>10
  <2>2. /\ parts \in Seq(Seq(Z))
        /\ \A k \in 1 .. Len(parts) : Len(parts[k]) <= soft
        /\ \A y \in ToSet(q) : \E k \in 1 .. Len(parts) : y \in ToSet(parts[k])
    BY <1>6, <1>10, <1>p, <2>1, SplitParts
  <2> DEFINE Y == Seq(Z)
  <2> HIDE DEF Y
  <2>3. \A k \in 1 .. Len(parts) : parts[k] \in ToSet(parts)
    BY <2>2, InSeq DEF Y
  <2>4. \A r \in ToSet(parts) : \E k \in 1 .. Len(parts) : r = parts[k]
    BY <2>2, OfSeq DEF Y
  <2>5. \A r \in ToSet(parts) : Len(r) <= soft
    BY <2>2, <2>4
  <2>6. \A y \in ToSet(q) : InOne(parts, y)
    BY <2>2, <2>3 DEF InOne
  <2> QED BY <1>8, <1>p, <2>2, <2>5, <2>6
<1>11. CASE Len(q) > soft /\ soft <= Overlap
  <2>1. parts = <<Forever>>
    BY <1>6, <1>7, <1>11, <1>p, SplitNever
  <2>2. pre >= SoftMax - Overlap
    BY <1>0, <1>p, <1>11 DEF soft
  <2> QED BY <1>0, <1>p, <2>1, <2>2, EndlessRight
<1> QED
  BY <1>0, <1>7, <1>9, <1>10, <1>11, <1>p

LEMMA BlockChunksRight ==
  ASSUME NEW tx \in Text, NEW s, s.head \in 0 .. Len(tx), NEW b, Full(tx, b)
  PROVE  ChunksRight(tx, s.head, b, BlockChunks(tx, s, b))
<1>0. b \in ABlock(tx) /\ b.type \in BlockTypes
  BY DEF Full, ABlock
<1>1. CASE b.type \in {"message", "list", "paragraph"}
  BY <1>1, MessageRight, ListRight, ParagraphRight
<1>2. CASE b.type \in {"heading", "metadata"}
  <2>1. BlockChunks(tx, s, b) = <<StructuredChunk(KindOf(b.type), s.head, 0, Tokens(tx, b.lines))>>
    BY <1>2, BlockChunksIs
  <2>2. Bound(KindOf(b.type), 0, Tokens(tx, b.lines))
    BY <1>2 DEF Bound, KindOf
  <2> QED BY <1>0, <2>1, <2>2, WholeRight
<1>3. CASE b.type \in {"code", "table"}
  <2>1. BlockChunks(tx, s, b) =
          <<StructuredChunk(KindOf(b.type), s.head, HeadSize(tx, s.head), Tokens(tx, b.lines))>>
    BY <1>3, BlockChunksIs
  <2>2. Bound(KindOf(b.type), HeadSize(tx, s.head), Tokens(tx, b.lines))
    BY <1>3 DEF Bound, KindOf
  <2> QED BY <1>0, <2>1, <2>2, HeadSizeIs, WholeRight
<1> QED
  BY <1>0, <1>1, <1>2, <1>3 DEF BlockTypes

(* The chunks of a section.                                                 *)
SectionChunks(tx, s) == Chained([b \in DOMAIN s.blocks |-> BlockChunks(tx, s, s.blocks[b])])

LEMMA SectionChunksIs ==
  ASSUME NEW tx, NEW s \in ASection(tx),
         \A b \in ToSet(s.blocks) : BlockChunks(tx, s, b) \in Seq(AChunk)
  PROVE  /\ SectionChunks(tx, s) \in Seq(AChunk)
         /\ \A c : c \in ToSet(SectionChunks(tx, s)) <=>
              \E b \in ToSet(s.blocks) : c \in ToSet(BlockChunks(tx, s, b))
<1> DEFINE B == ABlock(tx)
           C == Seq(AChunk)
           M == Len(s.blocks)
           of == [k \in DOMAIN s.blocks |-> BlockChunks(tx, s, s.blocks[k])]
<1>0. s.blocks \in Seq(B)
  <2> HIDE DEF B
  <2> QED BY DEF ASection, B
<1> HIDE DEF B
<1>1. M \in Nat /\ DOMAIN s.blocks = 1 .. M
  BY <1>0
<1>2. \A k \in 1 .. M : s.blocks[k] \in ToSet(s.blocks)
  BY <1>0, InSeq
<1>3. \A b \in ToSet(s.blocks) : \E k \in 1 .. M : b = s.blocks[k]
  BY <1>0, OfSeq
<1> HIDE DEF M, C
<1>4. of = [k \in 1 .. M |-> BlockChunks(tx, s, s.blocks[k])]
  BY <1>1
<1>5. \A k \in 1 .. M : BlockChunks(tx, s, s.blocks[k]) \in C
  BY <1>2 DEF C
<1> HIDE DEF of
<1>6. of \in Seq(C) /\ Len(of) = M /\ \A k \in 1 .. M : of[k] = BlockChunks(tx, s, s.blocks[k])
  BY <1>1, <1>4, <1>5
<1>7. /\ Chained(of) \in Seq(AChunk)
      /\ \A c : c \in ToSet(Chained(of)) <=> \E k \in 1 .. Len(of) : c \in ToSet(of[k])
  <2>1. of \in Seq(Seq(AChunk))
    BY <1>6 DEF C
  <2> QED BY <2>1, ChainedSet
<1>8. ASSUME NEW c
      PROVE  c \in ToSet(Chained(of)) <=>
               \E b \in ToSet(s.blocks) : c \in ToSet(BlockChunks(tx, s, b))
  <2>0. c \in ToSet(Chained(of)) <=> \E k \in 1 .. M : c \in ToSet(BlockChunks(tx, s, s.blocks[k]))
    BY <1>6, <1>7
  <2>1. ASSUME NEW k \in 1 .. M, c \in ToSet(BlockChunks(tx, s, s.blocks[k]))
        PROVE  \E b \in ToSet(s.blocks) : c \in ToSet(BlockChunks(tx, s, b))
    BY <1>2, <2>1
  <2>2. ASSUME NEW b \in ToSet(s.blocks), c \in ToSet(BlockChunks(tx, s, b))
        PROVE  \E k \in 1 .. M : c \in ToSet(BlockChunks(tx, s, s.blocks[k]))
    BY <1>3, <2>2
  <2> QED BY <2>0, <2>1, <2>2
<1> QED
  BY <1>7, <1>8 DEF SectionChunks, of

(* The chunks of a text are those of its sections' blocks.                  *)
LEMMA ChunksSet ==
  ASSUME NEW tx, NEW source, NEW secs \in Seq(ASection(tx)), Parse(source, tx) = secs,
         \A s \in ToSet(secs) : \A b \in ToSet(s.blocks) : BlockChunks(tx, s, b) \in Seq(AChunk)
  PROVE  \A c : c \in ToSet(Chunks(source, tx)) <=>
           \E s \in ToSet(secs) : \E b \in ToSet(s.blocks) : c \in ToSet(BlockChunks(tx, s, b))
<1> DEFINE A == ASection(tx)
           C == Seq(AChunk)
           M == Len(secs)
           of == [k \in DOMAIN secs |-> SectionChunks(tx, secs[k])]
<1>0. Chunks(source, tx) = Chained(of)
  BY DEF Chunks, SectionChunks
<1>s. ASSUME NEW s \in ToSet(secs)
      PROVE  /\ SectionChunks(tx, s) \in C
             /\ \A c : c \in ToSet(SectionChunks(tx, s)) <=>
                  \E b \in ToSet(s.blocks) : c \in ToSet(BlockChunks(tx, s, b))
  <2>1. s \in A
    BY OfSeq
  <2> QED BY <2>1, SectionChunksIs
<1> HIDE DEF A
<1>1. M \in Nat /\ DOMAIN secs = 1 .. M
  BY DEF A
<1>2. \A k \in 1 .. M : secs[k] \in ToSet(secs)
  BY InSeq
<1>3. \A s \in ToSet(secs) : \E k \in 1 .. M : s = secs[k]
  BY OfSeq
<1> HIDE DEF M, C
<1>4. of = [k \in 1 .. M |-> SectionChunks(tx, secs[k])]
  BY <1>1
<1>5. \A k \in 1 .. M : SectionChunks(tx, secs[k]) \in C
  BY <1>2, <1>s
<1> HIDE DEF of
<1>6. of \in Seq(C) /\ Len(of) = M /\ \A k \in 1 .. M : of[k] = SectionChunks(tx, secs[k])
  BY <1>1, <1>4, <1>5
<1>7. \A c : c \in ToSet(Chained(of)) <=> \E k \in 1 .. Len(of) : c \in ToSet(of[k])
  <2>1. of \in Seq(Seq(AChunk))
    BY <1>6 DEF C
  <2> QED BY <2>1, ChainedSet
<1>8. ASSUME NEW c
      PROVE  c \in ToSet(Chained(of)) <=> \E s \in ToSet(secs) : c \in ToSet(SectionChunks(tx, s))
  BY <1>2, <1>3, <1>6, <1>7
<1> QED
  BY <1>0, <1>8, <1>s

(* Every chunk is right for its block, and the chunks have every line of    *)
(* every block.                                                             *)
LEMMA ChunksAre ==
  ASSUME NEW tx \in Text, NEW source, NEW first, NEW from, NEW spans,
         Parsed(tx, first, from, spans, Parse(source, tx))
  PROVE  LET secs == Parse(source, tx)
             chunks == ToSet(Chunks(source, tx))
         IN  /\ \A c \in chunks : \E h, b : InSections(secs, h, b) /\ ChunkRight(tx, h, b, c)
             /\ (\A c \in chunks : ~Endless(c)) =>
                  \A h, b : InSections(secs, h, b) =>
                    \A m \in ToSet(b.lines) : tx[m] # "blank" =>
                      \E c \in chunks : ChunkRight(tx, h, b, c) /\ m \in ToSet(c.tokens)
<1> DEFINE secs == Parse(source, tx)
           chunks == ToSet(Chunks(source, tx))
           In(s, b) == s \in ToSet(secs) /\ b \in ToSet(s.blocks)
<1>0. secs \in Seq(ASection(tx))
  BY DEF Parsed
<1>1. \A h, b : InSections(secs, h, b) => Full(tx, b) \/ b \notin ABlock(tx)
  <2>1. \A h, b : InSections(secs, h, b) =>
          b.type \in {"heading", "metadata", "message"} \/ BlockRight(tx, from, spans, h, b)
    BY DEF Parsed
  <2>2. ASSUME NEW b \in ABlock(tx), NEW h,
               b.type \in {"heading", "metadata", "message"} \/ BlockRight(tx, from, spans, h, b)
        PROVE  Full(tx, b)
    <3>1. CASE b.type \in {"heading", "metadata", "message"}
      BY <3>1 DEF Full
    <3>2. CASE BlockRight(tx, from, spans, h, b)
      <4>1. b.type # "code" => b.lines # <<>> /\ \A m \in ToSet(b.lines) : tx[m] # "blank"
        BY <3>2 DEF BlockRight
      <4>2. b.type \in {"paragraph", "list"} => b.type # "code"
        OBVIOUS
      <4> QED BY <4>1, <4>2 DEF Full
    <3> QED BY <2>2, <3>1, <3>2
  <2> QED BY <2>1, <2>2
<1>2. ASSUME NEW s, NEW b, In(s, b)
      PROVE  s \in ASection(tx) /\ s.head \in 0 .. Len(tx) /\ InSections(secs, s.head, b) /\ Full(tx, b)
  <2>1. s \in ASection(tx) /\ \E i \in 1 .. Len(secs) : s = secs[i]
    BY <1>0, <1>2, OfSeq
  <2>2. InSections(secs, s.head, b)
    BY <1>2, <2>1 DEF InSections
  <2> DEFINE B == ABlock(tx)
  <2>3. s.head \in 0 .. Len(tx) /\ s.blocks \in Seq(B)
    <3> HIDE DEF B
    <3> QED BY <2>1 DEF ASection, B
  <2> HIDE DEF B
  <2>4. b \in B
    BY <1>2, <2>3, OfSeq
  <2> QED BY <1>1, <2>1, <2>2, <2>3, <2>4 DEF B
<1>3. \A s, b : In(s, b) => ChunksRight(tx, s.head, b, BlockChunks(tx, s, b))
  BY <1>2, BlockChunksRight
<1>4. ASSUME NEW h, NEW b, InSections(secs, h, b) PROVE \E s : In(s, b) /\ s.head = h
  <2>1. PICK i \in 1 .. Len(secs) : secs[i].head = h /\ b \in ToSet(secs[i].blocks)
    BY <1>4 DEF InSections
  <2>2. secs[i] \in ToSet(secs)
    BY <1>0, InSeq
  <2> QED BY <2>1, <2>2
<1>5. \A c : c \in chunks <=> \E s, b : In(s, b) /\ c \in ToSet(BlockChunks(tx, s, b))
  <2>1. \A s \in ToSet(secs) : \A b \in ToSet(s.blocks) : BlockChunks(tx, s, b) \in Seq(AChunk)
    BY <1>3 DEF ChunksRight
  <2> HIDE DEF secs
  <2>2. Parse(source, tx) = secs
    BY DEF secs
  <2>3. \A c : c \in ToSet(Chunks(source, tx)) <=>
           \E s \in ToSet(secs) : \E b \in ToSet(s.blocks) : c \in ToSet(BlockChunks(tx, s, b))
    BY <1>0, <2>1, <2>2, ChunksSet
  <2> QED BY <2>3
<1> HIDE DEF In, secs, chunks
<1>6. ASSUME NEW c \in chunks
      PROVE  \E h, b : InSections(secs, h, b) /\ ChunkRight(tx, h, b, c)
  <2>1. PICK s, b : In(s, b) /\ c \in ToSet(BlockChunks(tx, s, b))
    BY <1>5, <1>6
  <2>2. ChunkRight(tx, s.head, b, c)
    BY <1>3, <2>1 DEF ChunksRight
  <2> QED BY <1>2, <2>1, <2>2
<1>7. ASSUME \A c \in chunks : ~Endless(c),
             NEW h, NEW b, InSections(secs, h, b), NEW m \in ToSet(b.lines), tx[m] # "blank"
      PROVE  \E c \in chunks : ChunkRight(tx, h, b, c) /\ m \in ToSet(c.tokens)
  <2>1. PICK s : In(s, b) /\ s.head = h
    BY <1>4, <1>7
  <2>2. ChunksRight(tx, h, b, BlockChunks(tx, s, b))
    BY <1>3, <2>1
  <2>3. \A c \in ToSet(BlockChunks(tx, s, b)) : c \in chunks /\ ChunkRight(tx, h, b, c)
    BY <1>5, <2>1, <2>2 DEF ChunksRight
  <2>4. \E c \in ToSet(BlockChunks(tx, s, b)) : m \in ToSet(c.tokens)
    BY <1>7, <2>2, <2>3 DEF ChunksRight
  <2> QED BY <2>3, <2>4
<1> QED
  BY <1>6, <1>7 DEF secs, chunks

(* For every text of any length and every source, chunks are bounded and    *)
(* nothing is lost.                                                         *)
LEMMA EveryText ==
  ASSUME NEW tx \in Text, NEW source
  PROVE  ChunksBounded(source, tx) /\ ChunksWhole(source, tx)
<1> DEFINE first == IF source = "jira" THEN 2 ELSE 1
           secs == Parse(source, tx)
           chunks == ToSet(Chunks(source, tx))
           code == Covered({c \in chunks : c.type = "code"})
           Heads(c) == {n \in first .. Least(ToSet(c.tokens)) - 1 : tx[n] \in Headings /\ n \notin code}
<1>1. PICK from \in Nat \ {0} : \E spans : Parsed(tx, first, from, spans, secs)
  BY ParseIs
<1>2. PICK spans : Parsed(tx, first, from, spans, secs)
  BY <1>1
<1>3. /\ \A c \in chunks : \E h, b : InSections(secs, h, b) /\ ChunkRight(tx, h, b, c)
      /\ (\A c \in chunks : ~Endless(c)) =>
           \A h, b : InSections(secs, h, b) =>
             \A m \in ToSet(b.lines) : tx[m] # "blank" =>
               \E c \in chunks : ChunkRight(tx, h, b, c) /\ m \in ToSet(c.tokens)
  BY <1>2, ChunksAre
<1>4. ChunksBounded(source, tx)
  <2> HIDE DEF chunks, secs
  <2> SUFFICES ASSUME NEW c \in chunks
               PROVE  IF Endless(c) THEN c.prefix >= SoftMax - Overlap
                      ELSE Bound(c.type, c.prefix, c.tokens)
    BY DEF ChunksBounded, Bound, chunks
  <2> QED BY <1>3 DEF ChunkRight
<1>5. SUFFICES ASSUME \A c \in chunks : ~Endless(c)
               PROVE  /\ \A n \in DOMAIN tx : tx[n] \notin Headings \cup {"blank", "fence", "lang"} =>
                           n \in Covered(chunks)
                      /\ \A c \in chunks :
                           c.type \in {"body", "list", "table", "code"} /\ c.tokens # <<>> =>
                             IF Heads(c) = {} THEN c.head = 0
                             ELSE \A n \in Heads(c) : n <= c.head /\ c.head \in Heads(c)
  BY <1>4 DEF ChunksWhole
<1> HIDE DEF chunks, secs, first
<1>6. \A h, b : InSections(secs, h, b) => \A m \in ToSet(b.lines) : tx[m] # "blank" =>
        \E c \in chunks : ChunkRight(tx, h, b, c) /\ m \in ToSet(c.tokens)
  BY <1>3, <1>5
<1>7. /\ Spanned(tx, from, spans)
      /\ first \in Nat \ {0} /\ \A g \in 1 .. Len(tx) :
           (g >= from => g >= first) /\ (g >= first /\ tx[g] \in Headings => g >= from)
      /\ \A h, b : InSections(secs, h, b) =>
           b.type \in {"heading", "metadata", "message"} \/ BlockRight(tx, from, spans, h, b)
      /\ \A s \in spans : \E h, b :
           InSections(secs, h, b) /\ b.type = "code" /\ ToSet(b.lines) = Interior(s)
      /\ \A m \in 1 .. Len(tx) : tx[m] \notin Headings \cup {"blank"} /\ ~Inside(spans, m) =>
           \E h, b : InSections(secs, h, b) /\ m \in ToSet(b.lines)
  BY <1>2 DEF Parsed
<1>8. Len(tx) \in Nat /\ DOMAIN tx = 1 .. Len(tx)
  BY DEF Text
<1>9. ASSUME NEW n \in 1 .. Len(tx), Inside(spans, n), tx[n] \notin {"blank", "fence", "lang"}
      PROVE  \E c \in chunks : c.type = "code" /\ n \in ToSet(c.tokens)
  <2>1. PICK s \in spans : s[1] <= n /\ n <= s[2]
    BY <1>9 DEF Inside
  <2>2. /\ s[1] \in from .. Len(tx) /\ s[2] \in from .. Len(tx)
        /\ tx[s[1]] \in {"fence", "lang"} /\ tx[s[2]] = "fence"
    BY <1>7 DEF Spanned
  <2>3. n \in Interior(s)
    <3>1. n # s[1] /\ n # s[2]
      BY <1>9, <2>2
    <3> QED BY <1>8, <2>1, <2>2, <3>1 DEF Interior
  <2>4. PICK h, b : InSections(secs, h, b) /\ b.type = "code" /\ ToSet(b.lines) = Interior(s)
    BY <1>7
  <2>5. PICK c \in chunks : ChunkRight(tx, h, b, c) /\ n \in ToSet(c.tokens)
    BY <1>6, <1>9, <2>3, <2>4
  <2>6. c.type = "code"
    BY <2>4, <2>5 DEF ChunkRight, KindOf
  <2> QED BY <2>5, <2>6
<1>10. ASSUME NEW n \in DOMAIN tx, tx[n] \notin Headings \cup {"blank", "fence", "lang"}
       PROVE  n \in Covered(chunks)
  <2>1. \E c \in chunks : n \in ToSet(c.tokens)
    <3>1. CASE Inside(spans, n)
      BY <1>8, <1>9, <1>10, <3>1
    <3>2. CASE ~Inside(spans, n)
      <4>1. PICK h, b : InSections(secs, h, b) /\ n \in ToSet(b.lines)
        BY <1>7, <1>8, <1>10, <3>2
      <4> QED BY <1>6, <1>10, <4>1
    <3> QED BY <3>1, <3>2
  <2> QED BY <2>1 DEF Covered
<1>11. \A n : n \in code <=> \E c \in chunks : c.type = "code" /\ n \in ToSet(c.tokens)
  BY DEF Covered
<1> HIDE DEF code
<1>12. ASSUME NEW n \in code PROVE Inside(spans, n)
  <2>1. PICK c \in chunks : c.type = "code" /\ n \in ToSet(c.tokens)
    BY <1>11, <1>12
  <2>2. PICK h, b : InSections(secs, h, b) /\ ChunkRight(tx, h, b, c)
    BY <1>3
  <2>3. b.type = "code"
    BY <2>1, <2>2 DEF ChunkRight, KindOf
  <2>4. n \in ToSet(b.lines)
    BY <1>5, <2>1, <2>2 DEF ChunkRight
  <2>5. \E s \in spans : ToSet(b.lines) = Interior(s)
    BY <1>7, <2>2, <2>3 DEF BlockRight
  <2>6. PICK s \in spans : n \in Interior(s)
    BY <2>4, <2>5
  <2>7. s[1] \in Int /\ s[2] \in Int
    BY <1>7, <1>8 DEF Spanned
  <2> QED BY <2>6, <2>7 DEF Inside, Interior
<1>13. ASSUME NEW c \in chunks, c.type \in {"body", "list", "table", "code"}, c.tokens # <<>>
       PROVE  IF Heads(c) = {} THEN c.head = 0
              ELSE \A n \in Heads(c) : n <= c.head /\ c.head \in Heads(c)
  <2>1. PICK h, b : InSections(secs, h, b) /\ ChunkRight(tx, h, b, c)
    BY <1>3
  <2>2. c.head = h /\ ToSet(c.tokens) \subseteq ToSet(b.lines) /\ c.tokens \in Seq(Nat)
    BY <1>5, <1>13, <2>1 DEF ChunkRight, AChunk
  <2>3. b.type \notin {"heading", "metadata", "message"}
    BY <1>13, <2>1 DEF ChunkRight, KindOf
  <2>4. \A m \in ToSet(b.lines) : Governs(tx, from, spans, h, m)
    BY <1>7, <2>1, <2>3 DEF BlockRight
  <2> DEFINE m == Least(ToSet(c.tokens))
  <2>5. m \in ToSet(c.tokens)
    <3>1. ToSet(c.tokens) # {} /\ ToSet(c.tokens) \in SUBSET Nat
      BY <1>13, <2>2, SetOfSome, OfSeq
    <3> QED BY <3>1, LeastIs
  <2> HIDE DEF m
  <2>6. Governs(tx, from, spans, h, m)
    BY <2>2, <2>4, <2>5
  <2>7. /\ m \in from .. Len(tx) /\ h < m /\ (h = 0 \/ Free(tx, from, spans, h))
        /\ \A g : Free(tx, from, spans, g) /\ g < m => g <= h
    BY <2>6 DEF Governs
  <2>8. ASSUME NEW n PROVE n \in Heads(c) <=> Free(tx, from, spans, n) /\ n < m
    <3>1. ASSUME n \in Heads(c) PROVE Free(tx, from, spans, n) /\ n < m
      <4>1. n \in first .. m - 1 /\ tx[n] \in Headings /\ n \notin code
        BY <3>1 DEF m
      <4>2. n \in 1 .. Len(tx) /\ n >= first /\ n < m
        BY <1>1, <1>7, <1>8, <2>7, <4>1
      <4>3. n >= from
        BY <1>7, <4>1, <4>2
      <4>4. tx[n] \notin {"blank", "fence", "lang"}
        BY <4>1 DEF Headings
      <4>5. ~Inside(spans, n)
        BY <1>9, <1>11, <4>1, <4>2, <4>4
      <4> QED BY <1>1, <1>8, <4>1, <4>2, <4>3, <4>5 DEF Free
    <3>2. ASSUME Free(tx, from, spans, n), n < m PROVE n \in Heads(c)
      <4>1. n \in from .. Len(tx) /\ tx[n] \in Headings /\ ~Inside(spans, n)
        BY <3>2 DEF Free
      <4>2. n >= first
        BY <1>1, <1>7, <1>8, <4>1
      <4>3. n \in first .. m - 1
        BY <1>1, <1>7, <1>8, <2>7, <3>2, <4>1, <4>2
      <4>4. n \notin code
        BY <1>12, <4>1
      <4> QED BY <4>1, <4>3, <4>4 DEF m
    <3> QED BY <3>1, <3>2
  <2> HIDE DEF Heads
  <2>9. CASE Heads(c) = {}
    BY <2>2, <2>7, <2>8, <2>9
  <2>10. CASE Heads(c) # {}
    <3>1. PICK n : n \in Heads(c)
      BY <2>10
    <3>2. n >= 1 /\ n <= h
      BY <1>1, <1>8, <2>7, <2>8, <3>1 DEF Free
    <3>3. h # 0
      BY <1>1, <1>8, <2>8, <3>1, <3>2 DEF Free
    <3>4. h \in Heads(c) /\ \A g \in Heads(c) : g <= h
      BY <2>7, <2>8, <3>3
    <3> QED BY <2>2, <2>10, <3>4
  <2> QED BY <2>9, <2>10
<1> QED
  BY <1>10, <1>13

-----------------------------------------------------------------------------
(* structural_parse: windows, and the invariant of its loop.                *)

(* Whole numbers divided, and multiplied by a step.                         *)
LEMMA Division ==
  ASSUME NEW a \in Nat, NEW d \in Nat \ {0}
  PROVE  (a \div d) \in Nat /\ (a \div d) * d <= a /\ a < (a \div d) * d + d
OBVIOUS

LEMMA Multiples ==
  ASSUME NEW a \in Nat, NEW b \in Nat, NEW d \in Nat \ {0}
  PROVE  /\ a * d \in Nat
         /\ (a + 1) * d = a * d + d
         /\ a <= b => a * d <= b * d
         /\ a < b => a * d + d <= b * d
OBVIOUS

(* Lines in the order of the text.                                          *)
Sorted(s) == \A i, j \in 1 .. Len(s) : i <= j => s[i] <= s[j]

(* The windows over some tokens have all of them and no others, and begin   *)
(* in their order.                                                          *)
LEMMA WindowsIs ==
  ASSUME NEW X \in SUBSET Nat, NEW tokens \in Seq(X)
  PROVE  LET ws == Windows(tokens)
         IN  /\ ws \in Seq(Seq(X))
             /\ \A k \in 1 .. Len(ws) : /\ ws[k] # <<>> /\ ToSet(ws[k]) \subseteq ToSet(tokens)
                                        /\ Head(ws[k]) \in ToSet(tokens)
             /\ \A y \in ToSet(tokens) : \E k \in 1 .. Len(ws) : y \in ToSet(ws[k])
             /\ Sorted(tokens) => \A i, j \in 1 .. Len(ws) : i <= j => Head(ws[i]) <= Head(ws[j])
<1> DEFINE n == Len(tokens)
           d == ChunkTokens - OverlapTokens
           ws == Windows(tokens)
           C == (n + d - 1) \div d
           Y == Seq(X)
<1>0. n \in Nat /\ d \in Nat \ {0} /\ ChunkTokens \in Nat /\ ChunkTokens >= d /\ n + d - 1 \in Nat
  BY ParserAssumption
<1>1. ws = [k \in 1 .. C |-> SubSeq(tokens, (k - 1) * d + 1, AtMost((k - 1) * d + ChunkTokens, n))]
  BY DEF Windows
<1> HIDE DEF ws
<1>2. C \in Nat /\ C * d <= n + d - 1 /\ n + d - 1 < C * d + d
  <2> HIDE DEF n, d
  <2> QED BY <1>0, Division
<1> HIDE DEF n, d, C
<1>3. ASSUME NEW k \in 1 .. C
      PROVE  LET p == (k - 1) * d
             IN  /\ p \in Nat /\ p < n
                 /\ ws[k] \in Y /\ ws[k] # <<>> /\ Head(ws[k]) = tokens[p + 1]
                 /\ ToSet(ws[k]) \subseteq ToSet(tokens)
                 /\ \A j \in p + 1 .. p + d : j <= n => tokens[j] \in ToSet(ws[k])
  <2> DEFINE p == (k - 1) * d
             e == AtMost(p + ChunkTokens, n)
             w == SubSeq(tokens, p + 1, e)
             z == C * d
  <2>0. k - 1 \in Nat /\ k - 1 < C
    BY <1>2
  <2>1. p \in Nat /\ p + d <= z /\ z \in Nat
    BY <1>0, <1>2, <2>0, Multiples
  <2>2. z <= n + d - 1
    BY <1>2
  <2> HIDE DEF p, z
  <2>3. p < n
    BY <1>0, <2>1, <2>2
  <2>4. /\ e \in Nat /\ e <= n /\ e >= p + 1
        /\ \A j \in p + 1 .. p + d : j <= n => j <= e
    BY <1>0, <2>1, <2>3 DEF AtMost
  <2>5. ws[k] = w
    BY <1>1 DEF p
  <2> HIDE DEF e
  <2>6. \A i \in 1 .. n : tokens[i] \in X /\ tokens[i] \in ToSet(tokens)
    BY InSeq DEF n
  <2>7. \A i \in p + 1 .. e : i \in 1 .. n
    BY <1>0, <2>1, <2>4
  <2>8. /\ w \in Seq(X) /\ w \in Seq(ToSet(tokens))
        /\ Len(w) = IF p + 1 <= e THEN e - (p + 1) + 1 ELSE 0
        /\ \A i \in 1 .. e - (p + 1) + 1 : w[i] = tokens[p + 1 + i - 1]
    <3>1. p + 1 \in Int /\ e \in Int
      BY <2>1, <2>4
    <3>2. \A i \in p + 1 .. e : tokens[i] \in X /\ tokens[i] \in ToSet(tokens)
      BY <2>6, <2>7
    <3> QED BY <3>1, <3>2, SubSeqProperties
  <2>9. w[1] = tokens[p + 1] /\ Len(w) = e - p
    <3>1. 1 \in 1 .. e - (p + 1) + 1 /\ p + 1 + 1 - 1 = p + 1 /\ p + 1 <= e
      BY <2>1, <2>4
    <3>2. Len(w) = e - (p + 1) + 1
      BY <2>8, <3>1
    <3>3. w[1] = tokens[p + 1 + 1 - 1]
      BY <2>8, <3>1
    <3> HIDE DEF w
    <3> QED BY <2>1, <2>4, <3>1, <3>2, <3>3
  <2> HIDE DEF w
  <2>10. w # <<>> /\ Head(w) = tokens[p + 1]
    BY <2>1, <2>4, <2>8, <2>9
  <2>11. ToSet(w) \subseteq ToSet(tokens)
    BY <2>8, OfSeq
  <2>12. ASSUME NEW j \in p + 1 .. p + d, j <= n PROVE tokens[j] \in ToSet(w)
    <3>1. j - p \in 1 .. e - (p + 1) + 1 /\ j - p \in 1 .. Len(w)
      BY <1>0, <2>1, <2>4, <2>9, <2>12
    <3>2. p + 1 + (j - p) - 1 = j
      BY <1>0, <2>1
    <3>3. w[j - p] = tokens[j]
      BY <2>8, <3>1, <3>2
    <3> QED BY <2>8, <3>1, <3>3, InSeq
  <2> QED BY <2>1, <2>3, <2>5, <2>8, <2>10, <2>11, <2>12 DEF p
<1>4. ws \in Seq(Y) /\ Len(ws) = C
  <2>1. \A k \in 1 .. C : ws[k] \in Y
    BY <1>3
  <2>2. ws \in [1 .. C -> Y]
    <3> HIDE DEF Y
    <3> QED BY <1>1, <2>1
  <2> HIDE DEF Y
  <2> QED BY <1>2, <2>2
<1>5. ASSUME NEW y \in ToSet(tokens) PROVE \E k \in 1 .. C : y \in ToSet(ws[k])
  <2>1. PICK j \in 1 .. n : y = tokens[j]
    BY OfSeq DEF n
  <2> DEFINE q == (j - 1) \div d
             p == q * d
             z == C * d
  <2>2. q \in Nat /\ p <= j - 1 /\ j - 1 < p + d
    <3>1. j - 1 \in Nat
      BY <1>0
    <3> QED BY <1>0, <3>1, Division
  <2>3. q < C
    <3> HIDE DEF q
    <3>1. q >= C => z <= p /\ p \in Nat /\ z \in Nat
      BY <1>0, <1>2, <2>2, Multiples
    <3>2. n + d - 1 < z + d
      BY <1>2
    <3> HIDE DEF p, z
    <3> QED BY <1>0, <1>2, <2>2, <3>1, <3>2
  <2> HIDE DEF q
  <2>4. q + 1 \in 1 .. C /\ (q + 1) - 1 = q
    BY <1>2, <2>2, <2>3
  <2>5. p \in Nat
    BY <1>0, <2>2, Multiples
  <2>6. j \in p + 1 .. p + d
    <3> HIDE DEF p
    <3> QED BY <1>0, <2>2, <2>5
  <2>7. tokens[j] \in ToSet(ws[q + 1])
    BY <1>0, <1>3, <2>4, <2>6
  <2> QED BY <2>1, <2>4, <2>7
<1>6. ASSUME Sorted(tokens), NEW i \in 1 .. C, NEW j \in 1 .. C, i <= j
      PROVE  Head(ws[i]) <= Head(ws[j])
  <2> DEFINE p == (i - 1) * d
             q == (j - 1) * d
  <2>1. p \in Nat /\ p < n /\ Head(ws[i]) = tokens[p + 1]
    BY <1>3
  <2>2. q \in Nat /\ q < n /\ Head(ws[j]) = tokens[q + 1]
    BY <1>3
  <2>3. p <= q
    BY <1>0, <1>6, <1>2, Multiples
  <2> HIDE DEF p, q
  <2>4. p + 1 \in 1 .. n /\ q + 1 \in 1 .. n /\ p + 1 <= q + 1
    BY <1>0, <2>1, <2>2, <2>3
  <2> QED BY <1>6, <2>1, <2>2, <2>4 DEF Sorted, n
<1>7. ASSUME NEW k \in 1 .. C PROVE Head(ws[k]) \in ToSet(tokens)
  <2> DEFINE p == (k - 1) * d
  <2>1. p \in Nat /\ p < n /\ Head(ws[k]) = tokens[p + 1]
    BY <1>3
  <2> HIDE DEF p
  <2>2. p + 1 \in 1 .. n
    BY <1>0, <2>1
  <2> QED BY <2>1, <2>2, InSeq DEF n
<1> QED
  BY <1>3, <1>4, <1>5, <1>6, <1>7 DEF ws, Y

(* Chunks and the state of structural_parse.                                *)
SChunk == [type : {"text", "code", "table"}, heading : Seq(Nat), at : Nat, tokens : Seq(Nat)]

ParserModes == {"prose", "code", "html", "table"}

PState(tx) ==
  [mode : ParserModes, mark : LineKind, stack : Seq(1 .. Len(tx)), prose : Seq(1 .. Len(tx)),
   block : Seq(1 .. Len(tx)), at : Nat, chunks : Seq(SChunk)]

(* The lines that are in no chunk yet.                                      *)
Waiting(st) == ToSet(st.prose) \cup ToSet(st.block)

(* The line is in a block that is being read, or in a chunk that was one.   *)
Taken(st, m) ==
  m \in ToSet(st.block) \/ \E c \in ToSet(st.chunks) : c.type # "text" /\ m \in LinesOf(c)

(* The headings so far, without those inside blocks.                        *)
HeadsOf(tx, st, n) == {h \in 1 .. n : tx[h] \in Headings /\ ~Taken(st, h)}

(* Those of some headings that no later one closes.                         *)
Governing(tx, S) == {h \in S : \A m \in S : h < m => Level(tx[h]) < Level(tx[m])}

(* One chunk comes behind another, as ParsesWhole says.                     *)
Follows(c, d) ==
  /\ c.at <= d.at
  /\ c.type # "text" \/ d.type # "text" => \A l \in LinesOf(c), m \in LinesOf(d) : l < m

Ordered(chunks) == \A i, j \in 1 .. Len(chunks) : i < j => Follows(chunks[i], chunks[j])

(* All chunks are of lines before this one.                                 *)
Before(st, m) == \A c \in ToSet(st.chunks) : c.at <= m /\ \A l \in LinesOf(c) : l < m

(* A line that a chunk must have.                                           *)
Counts(kind) == kind \notin Headings \cup Ticks \cup {"blank", "tilde"}

(* The line is in a chunk, or waits for one.                                *)
Held(st, m) == m \in Waiting(st) \/ \E c \in ToSet(st.chunks) : m \in LinesOf(c)

(* What the modes of the parser differ in.  Prose waits below all headings  *)
(* so far; a block waits whole, below the line at which it began.           *)
Shape(tx, st, n, H) ==
  /\ st.mode = "prose" => /\ st.block = <<>> /\ Sorted(Tokens(tx, st.prose))
                          /\ \A h \in H : \A m \in ToSet(st.prose) : h < m
  /\ st.mode # "prose" => /\ st.prose = <<>> /\ st.at \in 1 .. n
                          /\ \A c \in ToSet(st.chunks) : c.at <= st.at
                          /\ \A h \in H : h < st.at
                          /\ \A m \in ToSet(st.block) : st.at <= m
  /\ st.mode = "table" => /\ st.block # <<>>
                          /\ \A m \in ToSet(st.block) : tx[m] \notin Headings

(* The invariant of structural_parse after n lines.                         *)
ReadTo(tx, st, n) ==
  /\ st \in PState(tx)
  /\ Shape(tx, st, n, HeadsOf(tx, st, n))
  /\ \A m \in Waiting(st) : m <= n /\ Before(st, m)
  /\ Ordered(st.chunks)
  /\ \A c \in ToSet(st.chunks) : c.at <= n /\ \A l \in LinesOf(c) : l <= n
  /\ \A m \in 1 .. n : Counts(tx[m]) => Held(st, m)
  /\ ToSet(st.stack) = Governing(tx, HeadsOf(tx, st, n))
  /\ \A c \in ToSet(st.chunks) :
       ToSet(c.heading) = Governing(tx, {h \in HeadsOf(tx, st, n) : h < c.at})

(* The fields of the state and of a chunk.                                  *)
LEMMA PStateIs ==
  ASSUME NEW tx, NEW st \in PState(tx)
  PROVE  /\ st.mode \in ParserModes /\ st.mark \in LineKind /\ st.at \in Nat
         /\ st.stack \in Seq(1 .. Len(tx)) /\ st.prose \in Seq(1 .. Len(tx))
         /\ st.block \in Seq(1 .. Len(tx)) /\ st.chunks \in Seq(SChunk)
<1> DEFINE X == Seq(1 .. Len(tx))
           C == Seq(SChunk)
           M == ParserModes
<1> HIDE DEF X, C, M
<1>1. st \in [mode : M, mark : LineKind, stack : X, prose : X, block : X, at : Nat, chunks : C]
  BY DEF PState, X, C, M
<1>2. st.mode \in M /\ st.mark \in LineKind /\ st.at \in Nat /\ st.stack \in X
      /\ st.prose \in X /\ st.block \in X /\ st.chunks \in C
  BY <1>1
<1> QED
  BY <1>2 DEF X, C, M

LEMMA SChunkIs ==
  ASSUME NEW c \in SChunk
  PROVE  c.at \in Nat /\ c.heading \in Seq(Nat) /\ c.tokens \in Seq(Nat) /\ LinesOf(c) \subseteq Nat
<1> DEFINE Y == Seq(Nat)
<1> HIDE DEF Y
<1>1. c \in [type : {"text", "code", "table"}, heading : Y, at : Nat, tokens : Y]
  BY DEF SChunk, Y
<1>2. c.at \in Nat /\ c.heading \in Y /\ c.tokens \in Y
  BY <1>1
<1>3. ToSet(c.tokens) \subseteq Nat
  BY <1>2, OfSeq DEF Y
<1> QED
  BY <1>2, <1>3 DEF Y, LinesOf

(* Chunks made of all that waits.                                           *)
Adding(tx, st, r, n, new) ==
  /\ r \in PState(tx) /\ new \in Seq(SChunk)
  /\ r.mode = "prose" /\ r.block = <<>> /\ r.prose = <<>> /\ r.stack = st.stack
  /\ r.chunks = st.chunks \o new
  /\ \A c \in ToSet(new) :
       /\ c.at <= n /\ LinesOf(c) \subseteq Waiting(st) /\ c.heading = st.stack
       /\ \A h \in HeadsOf(tx, st, n) : h < c.at
       /\ \A d \in ToSet(st.chunks) : d.at <= c.at
       /\ c.type # "text" => LinesOf(c) \subseteq ToSet(st.block)
  /\ \A i, j \in 1 .. Len(new) : i < j => Follows(new[i], new[j])
  /\ \A m \in Waiting(st) : tx[m] # "blank" => \E c \in ToSet(new) : m \in LinesOf(c)
  /\ \A m \in ToSet(st.block) : tx[m] \in Headings =>
       \E c \in ToSet(new) : c.type # "text" /\ m \in LinesOf(c)

(* Two ordered lists of chunks, one behind the other.                       *)
LEMMA OrderedBoth ==
  ASSUME NEW a \in Seq(SChunk), NEW b \in Seq(SChunk), Ordered(a), Ordered(b),
         \A c \in ToSet(a), d \in ToSet(b) : Follows(c, d)
  PROVE  Ordered(a \o b)
<1> DEFINE C == SChunk
           all == a \o b
<1> HIDE DEF C
<1>0. a \in Seq(C) /\ b \in Seq(C) /\ Len(a) \in Nat /\ Len(b) \in Nat
  BY DEF C
<1>1. /\ all \in Seq(C) /\ Len(all) = Len(a) + Len(b)
      /\ \A i \in 1 .. Len(a) + Len(b) : all[i] = IF i <= Len(a) THEN a[i] ELSE b[i - Len(a)]
  BY <1>0, ConcatProperties
<1>2. \A i \in 1 .. Len(a) : a[i] \in ToSet(a)
  BY InSeq
<1>3. \A i \in 1 .. Len(b) : b[i] \in ToSet(b)
  BY InSeq
<1> HIDE DEF all
<1>4. ASSUME NEW i \in 1 .. Len(all), NEW j \in 1 .. Len(all), i < j
      PROVE  Follows(all[i], all[j])
  <2>1. CASE j <= Len(a)
    <3>1. i \in 1 .. Len(a) /\ j \in 1 .. Len(a) /\ all[i] = a[i] /\ all[j] = a[j]
      BY <1>0, <1>1, <1>4, <2>1
    <3> QED BY <1>4, <3>1 DEF Ordered
  <2>2. CASE i <= Len(a) /\ j > Len(a)
    <3>1. i \in 1 .. Len(a) /\ j - Len(a) \in 1 .. Len(b) /\ all[i] = a[i] /\ all[j] = b[j - Len(a)]
      BY <1>0, <1>1, <1>4, <2>2
    <3> QED BY <1>2, <1>3, <3>1
  <2>3. CASE i > Len(a)
    <3>1. /\ i - Len(a) \in 1 .. Len(b) /\ j - Len(a) \in 1 .. Len(b) /\ i - Len(a) < j - Len(a)
          /\ all[i] = b[i - Len(a)] /\ all[j] = b[j - Len(a)]
      BY <1>0, <1>1, <1>4, <2>3
    <3> QED BY <3>1 DEF Ordered
  <2> QED BY <1>0, <1>1, <1>4, <2>1, <2>2, <2>3
<1> QED
  BY <1>4 DEF Ordered, all

(* Such chunks keep the invariant.                                          *)
LEMMA AddingKeeps ==
  ASSUME NEW tx \in Text, NEW n \in 0 .. Len(tx), NEW st, ReadTo(tx, st, n), NEW r, NEW new,
         Adding(tx, st, r, n, new)
  PROVE  ReadTo(tx, r, n)
<1> DEFINE H == HeadsOf(tx, st, n)
           cs == ToSet(st.chunks)
           ds == ToSet(new)
           es == ToSet(r.chunks)
<1>1. /\ st \in PState(tx)
      /\ \A m \in Waiting(st) : m <= n /\ Before(st, m)
      /\ Ordered(st.chunks)
      /\ \A c \in cs : c.at <= n /\ \A l \in LinesOf(c) : l <= n
      /\ \A m \in 1 .. n : Counts(tx[m]) => Held(st, m)
      /\ ToSet(st.stack) = Governing(tx, H)
      /\ \A c \in cs : ToSet(c.heading) = Governing(tx, {h \in H : h < c.at})
  BY DEF ReadTo
<1>2. /\ r \in PState(tx) /\ new \in Seq(SChunk)
      /\ r.mode = "prose" /\ r.block = <<>> /\ r.prose = <<>> /\ r.stack = st.stack
      /\ r.chunks = st.chunks \o new
      /\ \A c \in ds :
           /\ c.at <= n /\ LinesOf(c) \subseteq Waiting(st) /\ c.heading = st.stack
           /\ \A h \in H : h < c.at
           /\ \A d \in cs : d.at <= c.at
           /\ c.type # "text" => LinesOf(c) \subseteq ToSet(st.block)
      /\ \A i, j \in 1 .. Len(new) : i < j => Follows(new[i], new[j])
      /\ \A m \in Waiting(st) : tx[m] # "blank" => \E c \in ds : m \in LinesOf(c)
      /\ \A m \in ToSet(st.block) : tx[m] \in Headings => \E c \in ds : c.type # "text" /\ m \in LinesOf(c)
  BY DEF Adding
<1>3. st.chunks \in Seq(SChunk) /\ es = cs \cup ds
  <2>1. st.chunks \in Seq(SChunk)
    BY <1>1, PStateIs
  <2> QED BY <1>2, <2>1, SetOfBoth
<1>4. ToSet(r.block) = {} /\ ToSet(r.prose) = {} /\ Waiting(r) = {}
  <2>1. ToSet(<<>>) = {}
    BY SetOfFew
  <2> QED BY <1>2, <2>1, Zenon DEF Waiting
<1> HIDE DEF cs, ds, es
<1>5. Ordered(r.chunks)
  <2>1. Ordered(new)
    BY <1>2 DEF Ordered
  <2>2. \A c \in cs, d \in ds : Follows(c, d)
    <3>1. ASSUME NEW c \in cs, NEW d \in ds PROVE Follows(c, d)
      <4>1. c.at <= d.at /\ \A m \in LinesOf(d) : m \in Waiting(st)
        BY <1>2
      <4>2. \A m \in LinesOf(d) : \A l \in LinesOf(c) : l < m
        BY <1>1, <4>1 DEF Before, cs
      <4> QED BY <4>1, <4>2 DEF Follows
    <3> QED BY <3>1
  <2> QED BY <1>1, <1>2, <1>3, <2>1, <2>2, OrderedBoth DEF cs, ds
<1>6. HeadsOf(tx, r, n) = H
  <2>1. ASSUME NEW h, tx[h] \in Headings PROVE Taken(r, h) <=> Taken(st, h)
    <3>1. Taken(r, h) <=> \E c \in cs \cup ds : c.type # "text" /\ h \in LinesOf(c)
      BY <1>3, <1>4 DEF Taken, es
    <3>2. Taken(st, h) <=> h \in ToSet(st.block) \/ \E c \in cs : c.type # "text" /\ h \in LinesOf(c)
      BY DEF Taken, cs
    <3> QED BY <1>2, <2>1, <3>1, <3>2
  <2> QED BY <2>1 DEF HeadsOf
<1> HIDE DEF H
<1>7. Shape(tx, r, n, H)
  <2>1. Sorted(Tokens(tx, r.prose))
    <3>1. Tokens(tx, <<>>) = <<>>
      <4> DEFINE none == <<>>
      <4>1. none = [k \in 1 .. 0 |-> k]
        OBVIOUS
      <4>2. Pieces(tx, <<>>) = <<>>
        BY DEF Pieces
      <4>3. Tokens(tx, <<>>) = Chained(Pieces(tx, <<>>))
        BY DEF Tokens, Pieces, Copies
      <4> QED BY <4>2, <4>3, ChainedNone
    <3>2. Sorted(<<>>)
      BY DEF Sorted
    <3> QED BY <1>2, <3>1, <3>2, Zenon
  <2> QED BY <1>2, <1>4, <2>1 DEF Shape
<1>8. \A c \in es : c.at <= n /\ \A l \in LinesOf(c) : l <= n
  BY <1>1, <1>2, <1>3
<1>9. ASSUME NEW m \in 1 .. n, Counts(tx[m]) PROVE Held(r, m)
  <2>1. Held(st, m) /\ tx[m] # "blank"
    BY <1>1, <1>9 DEF Counts
  <2>2. m \in Waiting(st) \/ \E c \in cs : m \in LinesOf(c)
    BY <2>1 DEF Held, cs
  <2>3. \E c \in es : m \in LinesOf(c)
    BY <1>2, <1>3, <2>1, <2>2
  <2> QED BY <2>3 DEF Held, es
<1>10. ToSet(r.stack) = Governing(tx, H)
  BY <1>1, <1>2
<1>11. ASSUME NEW c \in es PROVE ToSet(c.heading) = Governing(tx, {h \in H : h < c.at})
  <2>1. CASE c \in cs
    BY <1>1, <2>1
  <2>2. CASE c \in ds
    <3>1. c.heading = st.stack /\ {h \in H : h < c.at} = H
      BY <1>2, <2>2
    <3> QED BY <1>1, <3>1
  <2> QED BY <1>3, <2>1, <2>2
<1> QED
  BY <1>2, <1>4, <1>5, <1>6, <1>7, <1>8, <1>9, <1>10, <1>11 DEF ReadTo, es

-----------------------------------------------------------------------------
(* structural_parse: chunks of what waits.                                  *)

(* The parser's states, for any sets of values.                             *)
Rec(M, K, S, N, C) ==
  [mode : M, mark : K, stack : S, prose : S, block : S, at : N, chunks : C]

(* Nothing that waits is ordered.                                           *)
LEMMA NoWait ==
  ASSUME NEW tx \in Text
  PROVE  <<>> \in Seq(1 .. Len(tx)) /\ Tokens(tx, <<>>) = <<>> /\ Sorted(<<>>)
<1> DEFINE none == <<>>
           X == 1 .. Len(tx)
           lines == <<>>
<1>1. Tokens(tx, <<>>) = <<>>
  <2>2. Pieces(tx, <<>>) = <<>>
    BY DEF Pieces
  <2>3. Tokens(tx, <<>>) = Chained(Pieces(tx, <<>>))
    BY DEF Tokens, Pieces, Copies
  <2> QED BY <2>2, <2>3, ChainedNone
<1>2. Sorted(<<>>)
  BY DEF Sorted
<1> QED
  BY <1>1, <1>2

(* The chunks that Flush adds.                                              *)
TextChunks(tx, st) ==
  LET windows == Windows(Tokens(tx, st.prose))
  IN  [k \in DOMAIN windows |-> StructuralChunk(st, "text", Head(windows[k]), windows[k])]

(* Flush and Emit make chunks of all that waits.                            *)
LEMMA ProseFlushed ==
  ASSUME NEW tx \in Text, NEW n \in 0 .. Len(tx), NEW st, ReadTo(tx, st, n), st.mode = "prose"
  PROVE  Adding(tx, st, Flush(tx, st), n, TextChunks(tx, st))
<1> DEFINE S == Seq(1 .. Len(tx))
           C == Seq(SChunk)
           M == ParserModes
           none == <<>>
           X == 1 .. Len(tx)
           tokens == Tokens(tx, st.prose)
           ws == Windows(tokens)
           new == TextChunks(tx, st)
           r == Flush(tx, st)
           H == HeadsOf(tx, st, n)
<1>1. /\ st \in PState(tx)
      /\ Shape(tx, st, n, H)
      /\ \A m \in Waiting(st) : m <= n /\ Before(st, m)
  BY DEF ReadTo
<1>2. /\ st.block = <<>> /\ Sorted(tokens)
      /\ \A h \in H : \A m \in ToSet(st.prose) : h < m
  BY <1>1 DEF Shape
<1>3. /\ st.prose \in S /\ st.chunks \in C /\ st.stack \in S /\ none \in S /\ X \in SUBSET Nat
      /\ st.stack \in Seq(Nat)
  <2>1. st.stack \in Seq(X) /\ X \subseteq Nat
    BY <1>1, PStateIs
  <2>2. st.stack \in Seq(Nat)
    <3> HIDE DEF X
    <3> QED BY <2>1, SeqMonotonic
  <2> QED BY <1>1, <2>1, <2>2, PStateIs, NoWait
<1>4. tokens \in Seq(X) /\ ToSet(tokens) = {m \in ToSet(st.prose) : tx[m] # "blank"}
  BY <1>3, TokensSet DEF Text
<1> HIDE DEF tokens
<1>5. /\ ws \in Seq(Seq(X))
      /\ \A k \in 1 .. Len(ws) : /\ ws[k] # <<>> /\ ToSet(ws[k]) \subseteq ToSet(tokens)
                                 /\ Head(ws[k]) \in ToSet(tokens)
      /\ \A y \in ToSet(tokens) : \E k \in 1 .. Len(ws) : y \in ToSet(ws[k])
      /\ Sorted(tokens) => \A i, j \in 1 .. Len(ws) : i <= j => Head(ws[i]) <= Head(ws[j])
  <2> HIDE DEF X
  <2> QED BY <1>3, <1>4, WindowsIs
<1>6. new = [k \in DOMAIN ws |-> StructuralChunk(st, "text", Head(ws[k]), ws[k])]
  BY DEF TextChunks, tokens
<1>7. r = [st EXCEPT !.prose = none, !.chunks = st.chunks \o new]
  BY DEF Flush, TextChunks
<1>8. DOMAIN ws = 1 .. Len(ws) /\ Len(ws) \in Nat
  BY <1>5
<1>9. ASSUME NEW k \in 1 .. Len(ws)
      PROVE  LET c == StructuralChunk(st, "text", Head(ws[k]), ws[k])
             IN  /\ c \in SChunk /\ c.type = "text" /\ c.heading = st.stack /\ c.at = Head(ws[k])
                 /\ c.tokens = ws[k] /\ LinesOf(c) = ToSet(ws[k])
  <2> DEFINE Y == Seq(Nat)
             w == ws[k]
  <2>1. w \in Seq(X)
    BY <1>5
  <2>2. w \in Y
    <3> HIDE DEF X
    <3> QED BY <1>3, <2>1, SeqMonotonic
  <2>3. Head(w) \in Nat
    BY <1>3, <1>4, <1>5, OfSeq
  <2>4. st.stack \in Y
    BY <1>3
  <2> HIDE DEF Y, w
  <2> QED BY <2>2, <2>3, <2>4 DEF StructuralChunk, SChunk, LinesOf, Y, w
<1> HIDE DEF new, ws, r
<1>10. new = [k \in 1 .. Len(ws) |-> StructuralChunk(st, "text", Head(ws[k]), ws[k])]
  BY <1>6, <1>8
<1>11. \A k \in 1 .. Len(ws) : new[k] = StructuralChunk(st, "text", Head(ws[k]), ws[k])
  BY <1>10
<1>12. \A k \in 1 .. Len(ws) :
         /\ new[k] \in SChunk /\ new[k].type = "text" /\ new[k].heading = st.stack
         /\ new[k].at = Head(ws[k]) /\ LinesOf(new[k]) = ToSet(ws[k])
  BY <1>9, <1>11
<1>13. new \in Seq(SChunk) /\ Len(new) = Len(ws)
  <2> DEFINE B == SChunk
  <2>1. \A k \in 1 .. Len(ws) : StructuralChunk(st, "text", Head(ws[k]), ws[k]) \in B
    BY <1>9
  <2> HIDE DEF B
  <2>2. new \in Seq(B) /\ Len(new) = Len(ws)
    BY <1>8, <1>10, <2>1
  <2> QED BY <2>2 DEF B
<1>14. \A c \in ToSet(new) : \E k \in 1 .. Len(ws) : c = new[k]
  BY <1>13, OfSeq
<1>15. \A k \in 1 .. Len(ws) : new[k] \in ToSet(new)
  BY <1>13, InSeq
<1>16. /\ r \in PState(tx)
       /\ r.mode = "prose" /\ r.block = <<>> /\ r.prose = <<>> /\ r.stack = st.stack
       /\ r.chunks = st.chunks \o new
  <2> DEFINE w == st.chunks \o new
  <2>1. w \in C
    BY <1>3, <1>13, ConcatProperties
  <2> HIDE DEF C, M, S, none, w
  <2>2. st \in Rec(M, LineKind, S, Nat, C)
    BY <1>1 DEF PState, Rec, C, M, S
  <2>3. r = [st EXCEPT !.prose = none, !.chunks = w]
    BY <1>7 DEF w
  <2>4. /\ r \in Rec(M, LineKind, S, Nat, C)
        /\ r.mode = st.mode /\ r.stack = st.stack /\ r.prose = none /\ r.block = st.block
        /\ r.chunks = w
    BY <1>3, <2>1, <2>2, <2>3 DEF Rec
  <2>5. r \in PState(tx)
    BY <2>4 DEF PState, Rec, C, M, S
  <2> QED BY <1>2, <2>4, <2>5 DEF none, w
<1>17. Waiting(st) = ToSet(st.prose)
  <2>1. ToSet(<<>>) = {}
    BY SetOfFew
  <2>2. ToSet(st.block) = {}
    BY <1>2, <2>1, Zenon
  <2> QED BY <2>2 DEF Waiting
<1>18. ASSUME NEW c \in ToSet(new)
       PROVE  /\ c.at <= n /\ LinesOf(c) \subseteq Waiting(st) /\ c.heading = st.stack
              /\ \A h \in H : h < c.at
              /\ \A d \in ToSet(st.chunks) : d.at <= c.at
              /\ c.type = "text"
  <2>1. PICK k \in 1 .. Len(ws) : c = new[k]
    BY <1>14
  <2>2. /\ c.type = "text" /\ c.heading = st.stack /\ c.at \in ToSet(st.prose)
        /\ LinesOf(c) \subseteq ToSet(st.prose)
    BY <1>4, <1>5, <1>12, <2>1
  <2> QED BY <1>1, <1>2, <1>17, <2>2 DEF Before
<1>19. ASSUME NEW i \in 1 .. Len(new), NEW j \in 1 .. Len(new), i < j
       PROVE  Follows(new[i], new[j])
  <2>1. i \in 1 .. Len(ws) /\ j \in 1 .. Len(ws) /\ i <= j
    BY <1>8, <1>13, <1>19
  <2>2. new[i].at <= new[j].at
    BY <1>2, <1>5, <1>12, <2>1
  <2> QED BY <1>12, <2>1, <2>2 DEF Follows
<1>20. ASSUME NEW m \in Waiting(st), tx[m] # "blank"
       PROVE  \E c \in ToSet(new) : m \in LinesOf(c)
  <2>1. m \in ToSet(tokens)
    BY <1>4, <1>17, <1>20
  <2>2. PICK k \in 1 .. Len(ws) : m \in ToSet(ws[k])
    BY <1>5, <2>1
  <2> QED BY <1>12, <1>15, <2>2
<1>21. ToSet(st.block) = {}
  <2>1. ToSet(<<>>) = {}
    BY SetOfFew
  <2> QED BY <1>2, <2>1, Zenon
<1> HIDE DEF H
<1> QED
  BY <1>13, <1>16, <1>18, <1>19, <1>20, <1>21 DEF Adding, H, r, new

LEMMA BlockEmitted ==
  ASSUME NEW tx \in Text, NEW n \in 0 .. Len(tx), NEW st, ReadTo(tx, st, n), st.mode # "prose",
         NEW type \in {"code", "table"}
  PROVE  \E new : Adding(tx, st, Emit(tx, st, type), n, new)
<1> DEFINE S == Seq(1 .. Len(tx))
           C == Seq(SChunk)
           M == ParserModes
           X == 1 .. Len(tx)
           none == <<>>
           tokens == Tokens(tx, st.block)
           c == StructuralChunk(st, type, st.at, tokens)
           new == <<c>>
           r == Emit(tx, st, type)
           H == HeadsOf(tx, st, n)
           prose == "prose"
<1>1. /\ st \in PState(tx)
      /\ Shape(tx, st, n, H)
      /\ \A m \in Waiting(st) : m <= n /\ Before(st, m)
  BY DEF ReadTo
<1>2. /\ st.prose = <<>> /\ st.at \in 1 .. n
      /\ \A d \in ToSet(st.chunks) : d.at <= st.at
      /\ \A h \in H : h < st.at
  BY <1>1 DEF Shape
<1>3. st.block \in Seq(X) /\ st.chunks \in C /\ st.stack \in Seq(X) /\ none \in S /\ X \in SUBSET Nat
      /\ prose \in M
  BY <1>1, PStateIs, NoWait DEF ParserModes
<1>4. tokens \in Seq(X) /\ ToSet(tokens) = {m \in ToSet(st.block) : tx[m] # "blank"}
  BY <1>3, TokensSet DEF Text
<1> HIDE DEF tokens
<1>5. c \in SChunk /\ c.type = type /\ c.heading = st.stack /\ c.at = st.at /\ LinesOf(c) = ToSet(tokens)
  <2> DEFINE Y == Seq(Nat)
  <2>1. tokens \in Y /\ st.stack \in Y
    <3> HIDE DEF X
    <3> QED BY <1>3, <1>4, SeqMonotonic
  <2>2. st.at \in Nat
    BY <1>1, PStateIs
  <2> HIDE DEF Y
  <2> QED BY <2>1, <2>2 DEF StructuralChunk, SChunk, LinesOf, Y
<1>7. r = [st EXCEPT !.mode = prose, !.block = none, !.chunks = Append(st.chunks, c)]
  BY DEF Emit, tokens
<1> HIDE DEF c, r
<1>8. new \in Seq(SChunk) /\ ToSet(new) = {c} /\ Len(new) = 1
  <2> DEFINE B == SChunk
  <2>1. c \in B
    BY <1>5
  <2> HIDE DEF B
  <2> QED BY <2>1, SetOfFew DEF B
<1>9. Append(st.chunks, c) = st.chunks \o new
  <2> DEFINE B == SChunk
  <2>1. c \in B /\ st.chunks \in Seq(B)
    BY <1>3, <1>5
  <2> HIDE DEF B
  <2> QED BY <2>1
<1> HIDE DEF new
<1>10. /\ r \in PState(tx)
       /\ r.mode = "prose" /\ r.block = <<>> /\ r.prose = <<>> /\ r.stack = st.stack
       /\ r.chunks = st.chunks \o new
  <2> DEFINE w == st.chunks \o new
  <2>1. w \in C
    BY <1>3, <1>8, ConcatProperties
  <2> HIDE DEF C, M, S, none, w, prose
  <2>2. st \in Rec(M, LineKind, S, Nat, C)
    BY <1>1 DEF PState, Rec, C, M, S
  <2>3. r = [st EXCEPT !.mode = prose, !.block = none, !.chunks = w]
    BY <1>7, <1>9 DEF w
  <2>4. /\ r \in Rec(M, LineKind, S, Nat, C)
        /\ r.mode = prose /\ r.stack = st.stack /\ r.prose = st.prose /\ r.block = none
        /\ r.chunks = w
    BY <1>3, <2>1, <2>2, <2>3 DEF Rec
  <2>5. r \in PState(tx)
    BY <2>4 DEF PState, Rec, C, M, S
  <2> QED BY <1>2, <2>4, <2>5 DEF none, w, prose
<1>11. Waiting(st) = ToSet(st.block)
  <2>1. ToSet(<<>>) = {}
    BY SetOfFew
  <2>2. ToSet(st.prose) = {}
    BY <1>2, <2>1, Zenon
  <2> QED BY <2>2 DEF Waiting
<1>12. /\ c.at <= n /\ LinesOf(c) \subseteq Waiting(st) /\ c.heading = st.stack
       /\ \A h \in H : h < c.at
       /\ \A d \in ToSet(st.chunks) : d.at <= c.at
       /\ LinesOf(c) \subseteq ToSet(st.block)
  BY <1>2, <1>4, <1>5, <1>11
<1>13. \A i, j \in 1 .. Len(new) : i < j => Follows(new[i], new[j])
  BY <1>8
<1>14. \A m \in Waiting(st) : tx[m] # "blank" => m \in LinesOf(c)
  BY <1>4, <1>5, <1>11
<1>15. \A m \in ToSet(st.block) : tx[m] \in Headings => c.type # "text" /\ m \in LinesOf(c)
  BY <1>4, <1>5 DEF Headings
<1> HIDE DEF H
<1>16. Adding(tx, st, r, n, new)
  BY <1>8, <1>10, <1>12, <1>13, <1>14, <1>15 DEF Adding, H
<1> QED
  BY <1>16 DEF r

(* One row of a table is prose again.                                       *)
RowBack(st) == [st EXCEPT !.mode = "prose", !.prose = st.block, !.block = <<>>]

LEMMA RowIsProse ==
  ASSUME NEW tx \in Text, NEW n \in 0 .. Len(tx), NEW st, ReadTo(tx, st, n), st.mode = "table",
         ~(Len(st.block) >= 2)
  PROVE  ReadTo(tx, RowBack(st), n) /\ RowBack(st).mode = "prose"
<1> DEFINE S == Seq(1 .. Len(tx))
           C == Seq(SChunk)
           M == ParserModes
           X == 1 .. Len(tx)
           none == <<>>
           prose == "prose"
           r == [st EXCEPT !.mode = prose, !.prose = st.block, !.block = none]
           H == HeadsOf(tx, st, n)
<1>1. /\ st \in PState(tx) /\ Shape(tx, st, n, H)
      /\ \A m \in Waiting(st) : m <= n /\ Before(st, m)
      /\ Ordered(st.chunks)
      /\ \A c \in ToSet(st.chunks) : c.at <= n /\ \A l \in LinesOf(c) : l <= n
      /\ \A m \in 1 .. n : Counts(tx[m]) => Held(st, m)
      /\ ToSet(st.stack) = Governing(tx, H)
      /\ \A c \in ToSet(st.chunks) : ToSet(c.heading) = Governing(tx, {h \in H : h < c.at})
  BY DEF ReadTo
<1>2. /\ st.prose = <<>> /\ st.at \in 1 .. n
      /\ \A h \in H : h < st.at
      /\ \A m \in ToSet(st.block) : st.at <= m
      /\ st.block # <<>>
      /\ \A m \in ToSet(st.block) : tx[m] \notin Headings
  BY <1>1 DEF Shape
<1>3. st.block \in Seq(X) /\ none \in S /\ prose \in M
  BY <1>1, PStateIs, NoWait DEF ParserModes
<1>4. PICK m \in X : st.block = <<m>>
  <2>1. Len(st.block) = 1 /\ st.block[1] \in X
    <3> HIDE DEF X
    <3>1. Len(st.block) >= 1
      BY <1>2, <1>3, SetOfSome
    <3>2. Len(st.block) \in Nat
      BY <1>3
    <3>3. Len(st.block) = 1
      <4> DEFINE l == Len(st.block)
      <4>1. l \in Nat /\ l >= 1 /\ ~(l >= 2)
        BY <3>1, <3>2
      <4> HIDE DEF l
      <4>2. l = 1
        BY <4>1
      <4> QED BY <4>2 DEF l
    <3>4. 1 \in 1 .. Len(st.block)
      BY <3>3
    <3>5. st.block[1] \in X
      BY <1>3, <3>4, InSeq
    <3> QED BY <3>3, <3>5
  <2>2. st.block = <<st.block[1]>>
    <3> DEFINE one == <<st.block[1]>>
    <3>1. one \in Seq(X) /\ Len(one) = 1 /\ one[1] = st.block[1]
      BY <2>1
    <3> HIDE DEF X, one
    <3>2. \A i \in 1 .. Len(one) : one[i] = st.block[i]
      BY <3>1
    <3>3. one = st.block
      BY <1>3, <2>1, <3>1, <3>2, SeqEqual
    <3> QED BY <3>3 DEF one
  <2> QED BY <2>1, <2>2
<1>5. Sorted(Tokens(tx, st.block))
  <2>1. Tokens(tx, <<m>>) = Copies(tx, m)
    <3>1. none \in Seq(X) /\ tx \in Seq(LineKind)
      BY <1>3 DEF Text
    <3> HIDE DEF none
    <3> QED BY <3>1, TokensMore
  <2>2. Copies(tx, m) \in Seq({m})
    BY CopiesIs DEF Text
  <2>3. \A i \in 1 .. Len(Copies(tx, m)) : Copies(tx, m)[i] = m
    BY <2>2
  <2> QED BY <1>4, <2>1, <2>3 DEF Sorted
<1>6. /\ r \in PState(tx)
      /\ r.mode = "prose" /\ r.block = <<>> /\ r.prose = st.block /\ r.stack = st.stack
      /\ r.chunks = st.chunks
  <2>1. st.block \in S
    BY <1>3
  <2> HIDE DEF C, M, S, none, prose, r
  <2>2. st \in Rec(M, LineKind, S, Nat, C)
    BY <1>1 DEF PState, Rec, C, M, S
  <2>3. r = [st EXCEPT !.mode = prose, !.prose = st.block, !.block = none]
    BY DEF r
  <2>4. /\ r \in Rec(M, LineKind, S, Nat, C)
        /\ r.mode = prose /\ r.stack = st.stack /\ r.prose = st.block /\ r.block = none
        /\ r.chunks = st.chunks
    BY <1>3, <2>1, <2>2, <2>3 DEF Rec
  <2>5. r \in PState(tx)
    BY <2>4 DEF PState, Rec, C, M, S
  <2> QED BY <2>4, <2>5 DEF none, prose
<1>7. ToSet(none) = {}
  BY SetOfFew
<1>8. Waiting(r) = Waiting(st)
  <2> HIDE DEF none, r
  <2> QED BY <1>2, <1>6, <1>7 DEF Waiting, none
<1>9. ToSet(r.block) = {} /\ ToSet(r.prose) = ToSet(st.block)
  <2> HIDE DEF none, r
  <2> QED BY <1>6, <1>7 DEF none
<1> HIDE DEF r
<1>10. HeadsOf(tx, r, n) = H
  <2>1. \A h \in 1 .. n : tx[h] \in Headings => (Taken(r, h) <=> Taken(st, h))
    BY <1>2, <1>6, <1>9 DEF Taken
  <2> QED BY <2>1 DEF HeadsOf
<1>11. Shape(tx, r, n, H)
  <2>1. \A h \in H : \A k \in ToSet(st.block) : h < k
    <3>1. H \subseteq Nat /\ ToSet(st.block) \subseteq Nat /\ st.at \in Nat
      BY <1>1, <1>3, OfSeq, PStateIs DEF HeadsOf
    <3> HIDE DEF H
    <3> QED BY <1>2, <3>1
  <2> HIDE DEF H
  <2> QED BY <1>5, <1>6, <2>1 DEF Shape
<1>12. \A k : Before(r, k) <=> Before(st, k)
  BY <1>6 DEF Before
<1>13. \A k : Held(r, k) <=> Held(st, k)
  BY <1>6, <1>8 DEF Held
<1> HIDE DEF H
<1>14. ReadTo(tx, r, n)
  BY <1>1, <1>6, <1>8, <1>10, <1>11, <1>12, <1>13 DEF ReadTo
<1> QED
  BY <1>6, <1>14 DEF r, RowBack

(* Flush and EndBlock keep the invariant, and leave no block.               *)
LEMMA FlushedTo ==
  ASSUME NEW tx \in Text, NEW n \in 0 .. Len(tx), NEW st, ReadTo(tx, st, n), st.mode = "prose"
  PROVE  LET r == Flush(tx, st)
         IN  ReadTo(tx, r, n) /\ r.mode = "prose" /\ r.prose = <<>> /\ r.block = <<>>
<1>1. Adding(tx, st, Flush(tx, st), n, TextChunks(tx, st))
  BY ProseFlushed
<1>2. ReadTo(tx, Flush(tx, st), n)
  BY <1>1, AddingKeeps
<1> QED
  BY <1>1, <1>2 DEF Adding

LEMMA BlockEnded ==
  ASSUME NEW tx \in Text, NEW n \in 0 .. Len(tx), NEW st, ReadTo(tx, st, n)
  PROVE  ReadTo(tx, EndBlock(tx, st), n) /\ EndBlock(tx, st).mode = "prose"
<1>0. st.mode \in ParserModes
  BY PStateIs DEF ReadTo
<1>1. CASE st.mode = "prose"
  BY <1>1 DEF EndBlock
<1>2. ASSUME NEW type \in {"code", "table"}, st.mode # "prose", EndBlock(tx, st) = Emit(tx, st, type)
      PROVE  ReadTo(tx, EndBlock(tx, st), n) /\ EndBlock(tx, st).mode = "prose"
  <2>1. PICK new : Adding(tx, st, Emit(tx, st, type), n, new)
    BY <1>2, BlockEmitted
  <2>2. ReadTo(tx, Emit(tx, st, type), n)
    BY <2>1, AddingKeeps
  <2> QED BY <1>2, <2>1, <2>2 DEF Adding
<1>3. CASE st.mode = "code"
  <2>1. EndBlock(tx, st) = Emit(tx, st, "code")
    BY <1>3 DEF EndBlock
  <2> QED BY <1>2, <1>3, <2>1
<1>4. CASE st.mode = "html"
  <2>1. EndBlock(tx, st) = Emit(tx, st, "table")
    BY <1>4 DEF EndBlock
  <2> QED BY <1>2, <1>4, <2>1
<1>5. CASE st.mode = "table" /\ Len(st.block) >= 2
  <2>1. EndBlock(tx, st) = Emit(tx, st, "table")
    BY <1>5 DEF EndBlock
  <2> QED BY <1>2, <1>5, <2>1
<1>6. CASE st.mode = "table" /\ ~(Len(st.block) >= 2)
  <2>1. EndBlock(tx, st) = RowBack(st)
    BY <1>6 DEF EndBlock, RowBack
  <2> QED BY <1>6, <2>1, RowIsProse
<1> QED
  BY <1>0, <1>1, <1>3, <1>4, <1>5, <1>6 DEF ParserModes

(* A line read that makes no chunk and is no heading of the text.           *)
Growing(tx, st, r, n) ==
  /\ r \in PState(tx) /\ r.chunks = st.chunks /\ r.stack = st.stack
  /\ Waiting(st) \subseteq Waiting(r) /\ Waiting(r) \subseteq Waiting(st) \cup {n}
  /\ Counts(tx[n]) => n \in Waiting(r)
  /\ tx[n] \in Headings => n \in ToSet(r.block)
  /\ \A h : h # n /\ tx[h] \in Headings => (h \in ToSet(r.block) <=> h \in ToSet(st.block))
  /\ Shape(tx, r, n, HeadsOf(tx, st, n - 1))

LEMMA GrowingKeeps ==
  ASSUME NEW tx \in Text, NEW n \in 1 .. Len(tx), NEW st, ReadTo(tx, st, n - 1), NEW r,
         Growing(tx, st, r, n)
  PROVE  ReadTo(tx, r, n)
<1> DEFINE H == HeadsOf(tx, st, n - 1)
           cs == ToSet(st.chunks)
<1>0. n \in Nat /\ n >= 1 /\ Len(tx) \in Nat
  BY DEF Text
<1>1. /\ st \in PState(tx)
      /\ \A m \in Waiting(st) : m <= n - 1 /\ Before(st, m)
      /\ Ordered(st.chunks)
      /\ \A c \in cs : c.at <= n - 1 /\ \A l \in LinesOf(c) : l <= n - 1
      /\ \A m \in 1 .. n - 1 : Counts(tx[m]) => Held(st, m)
      /\ ToSet(st.stack) = Governing(tx, H)
      /\ \A c \in cs : ToSet(c.heading) = Governing(tx, {h \in H : h < c.at})
  BY DEF ReadTo
<1>2. /\ r \in PState(tx) /\ r.chunks = st.chunks /\ r.stack = st.stack
      /\ Waiting(st) \subseteq Waiting(r) /\ Waiting(r) \subseteq Waiting(st) \cup {n}
      /\ Counts(tx[n]) => n \in Waiting(r)
      /\ tx[n] \in Headings => n \in ToSet(r.block)
      /\ \A h : h # n /\ tx[h] \in Headings => (h \in ToSet(r.block) <=> h \in ToSet(st.block))
      /\ Shape(tx, r, n, H)
  BY DEF Growing
<1>3. \A c \in cs : c.at \in Nat /\ LinesOf(c) \subseteq Nat
  <2>1. st.chunks \in Seq(SChunk)
    BY <1>1, PStateIs
  <2>2. \A c \in cs : c \in SChunk
    BY <2>1, OfSeq
  <2> QED BY <2>2, SChunkIs
<1>w. Waiting(st) \subseteq Nat
  <2>1. st.prose \in Seq(1 .. Len(tx)) /\ st.block \in Seq(1 .. Len(tx))
    BY <1>1, PStateIs
  <2> QED BY <2>1, OfSeq DEF Waiting
<1>4. HeadsOf(tx, r, n) = H
  <2>1. ASSUME NEW h \in 1 .. n, h # n, tx[h] \in Headings
        PROVE  Taken(r, h) <=> Taken(st, h)
    BY <1>2, <2>1 DEF Taken
  <2>2. tx[n] \in Headings => Taken(r, n)
    BY <1>2 DEF Taken
  <2>3. \A h : h \in 1 .. n /\ h # n <=> h \in 1 .. n - 1
    BY <1>0
  <2>4. n \in 1 .. n
    BY <1>0
  <2> QED BY <2>1, <2>2, <2>3, <2>4 DEF HeadsOf
<1> HIDE DEF H, cs
<1>5. ASSUME NEW m \in Waiting(r) PROVE m <= n /\ Before(r, m)
  <2>1. CASE m \in Waiting(st)
    <3>1. Before(r, m)
      BY <1>1, <1>2, <2>1 DEF Before
    <3> QED BY <1>0, <1>1, <1>w, <2>1, <3>1
  <2>2. CASE m = n
    <3>1. \A c \in cs : c.at <= n /\ \A l \in LinesOf(c) : l < n
      BY <1>0, <1>1, <1>3
    <3> QED BY <1>0, <1>2, <2>2, <3>1 DEF Before, cs
  <2> QED BY <1>2, <2>1, <2>2
<1>6. ASSUME NEW c \in cs PROVE c.at <= n /\ \A l \in LinesOf(c) : l <= n
  BY <1>0, <1>1, <1>3, <1>6
<1>7. ASSUME NEW m \in 1 .. n, Counts(tx[m]) PROVE Held(r, m)
  <2>1. CASE m = n
    BY <1>2, <1>7, <2>1 DEF Held
  <2>2. CASE m # n
    <3>1. m \in 1 .. n - 1
      BY <1>0, <2>2
    <3>2. Held(st, m)
      BY <1>1, <1>7, <3>1
    <3> QED BY <1>2, <3>2 DEF Held
  <2> QED BY <2>1, <2>2
<1> QED
  BY <1>1, <1>2, <1>4, <1>5, <1>6, <1>7 DEF ReadTo, cs

-----------------------------------------------------------------------------
(* structural_parse: the lines, one after the other.                        *)

(* The headings above a heading are those above it of a lower level.        *)
LEMMA UnderIs ==
  ASSUME NEW tx \in Text, NEW stack \in Seq(1 .. Len(tx)), NEW n \in 1 .. Len(tx)
  PROVE  /\ Under(tx, stack, n) \in Seq(1 .. Len(tx))
         /\ ToSet(Under(tx, stack, n)) =
              {h \in ToSet(stack) : Level(tx[h]) < Level(tx[n])} \cup {n}
<1> DEFINE X == 1 .. Len(tx)
           S == {h \in DOMAIN tx : Level(tx[h]) < Level(tx[n])}
           low == Only(stack, S)
<1>0. DOMAIN tx = X
  BY DEF Text
<1>1. ToSet(stack) \subseteq X
  BY OfSeq
<1>2. \A h \in X : h \in S <=> Level(tx[h]) < Level(tx[n])
  BY <1>0
<1>3. n \in X /\ stack \in Seq(X)
  OBVIOUS
<1> HIDE DEF X, S
<1>4. low \in Seq(X) /\ ToSet(low) = ToSet(stack) \cap S
  BY <1>3, OnlySet
<1>5. Under(tx, stack, n) = Append(low, n)
  BY DEF Under, S
<1> HIDE DEF low
<1>6. Append(low, n) \in Seq(X) /\ ToSet(Append(low, n)) = ToSet(low) \cup {n}
  BY <1>3, <1>4, AppendProperties, SetOfAppend
<1>7. ToSet(stack) \cap S = {h \in ToSet(stack) : Level(tx[h]) < Level(tx[n])}
  BY <1>1, <1>2
<1> QED
  BY <1>4, <1>5, <1>6, <1>7 DEF X

(* A heading, when nothing waits.                                           *)
Headed(tx, st, n) == [st EXCEPT !.stack = Under(tx, @, n)]

LEMMA HeadRead ==
  ASSUME NEW tx \in Text, NEW n \in 1 .. Len(tx), NEW st, ReadTo(tx, st, n - 1),
         st.mode = "prose", st.prose = <<>>, st.block = <<>>, tx[n] \in Headings
  PROVE  ReadTo(tx, Headed(tx, st, n), n)
<1> DEFINE H == HeadsOf(tx, st, n - 1)
           G == H \cup {n}
           cs == ToSet(st.chunks)
           S == Seq(1 .. Len(tx))
           C == Seq(SChunk)
           M == ParserModes
           r == Headed(tx, st, n)
           up == Under(tx, st.stack, n)
<1>0. n \in Nat /\ n >= 1 /\ Len(tx) \in Nat
  BY DEF Text
<1>1. /\ st \in PState(tx)
      /\ Ordered(st.chunks)
      /\ \A c \in cs : c.at <= n - 1 /\ \A l \in LinesOf(c) : l <= n - 1
      /\ \A m \in 1 .. n - 1 : Counts(tx[m]) => Held(st, m)
      /\ ToSet(st.stack) = Governing(tx, H)
      /\ \A c \in cs : ToSet(c.heading) = Governing(tx, {h \in H : h < c.at})
  BY DEF ReadTo
<1>2. \A c \in cs : c.at \in Nat /\ LinesOf(c) \subseteq Nat
  <2>1. st.chunks \in Seq(SChunk)
    BY <1>1, PStateIs
  <2>2. \A c \in cs : c \in SChunk
    BY <2>1, OfSeq
  <2> QED BY <2>2, SChunkIs
<1>3. up \in S /\ ToSet(up) = {h \in ToSet(st.stack) : Level(tx[h]) < Level(tx[n])} \cup {n}
  BY <1>1, PStateIs, UnderIs
<1>4. /\ r \in PState(tx) /\ r.mode = "prose" /\ r.prose = <<>> /\ r.block = <<>>
      /\ r.stack = up /\ r.chunks = st.chunks
  <2>1. r = [st EXCEPT !.stack = up]
    BY DEF Headed
  <2> HIDE DEF S, C, M, r, up
  <2>2. st \in Rec(M, LineKind, S, Nat, C)
    BY <1>1 DEF PState, Rec, C, M, S
  <2>3. /\ r \in Rec(M, LineKind, S, Nat, C) /\ r.mode = st.mode /\ r.prose = st.prose
        /\ r.block = st.block /\ r.stack = up /\ r.chunks = st.chunks
    BY <1>3, <2>1, <2>2 DEF Rec
  <2>4. r \in PState(tx)
    BY <2>3 DEF PState, Rec, C, M, S
  <2> QED BY <2>3, <2>4
<1> HIDE DEF r, up
<1>5. ToSet(r.block) = {} /\ ToSet(r.prose) = {} /\ Waiting(r) = {} /\ Waiting(st) = {} /\ ToSet(st.block) = {}
  <2>1. ToSet(<<>>) = {}
    BY SetOfFew
  <2>2. ToSet(r.block) = {} /\ ToSet(r.prose) = {} /\ ToSet(st.block) = {} /\ ToSet(st.prose) = {}
    BY <1>4, <2>1, Zenon
  <2> QED BY <2>2 DEF Waiting
<1>6. HeadsOf(tx, r, n) = G
  <2>1. \A h : Taken(r, h) <=> Taken(st, h)
    BY <1>4, <1>5 DEF Taken
  <2>2. ~Taken(r, n)
    <3>1. \A c \in cs : n \notin LinesOf(c)
      BY <1>0, <1>1, <1>2
    <3> QED BY <1>4, <1>5, <3>1 DEF Taken
  <2>3. \A h : h \in 1 .. n /\ h # n <=> h \in 1 .. n - 1
    BY <1>0
  <2>4. n \in 1 .. n
    BY <1>0
  <2> QED BY <2>1, <2>2, <2>3, <2>4 DEF HeadsOf
<1>7. H \subseteq Nat /\ \A h \in H : h < n
  BY <1>0 DEF HeadsOf
<1> HIDE DEF H, cs
<1>8. ToSet(r.stack) = Governing(tx, G)
  <2>1. ToSet(r.stack) = {h \in Governing(tx, H) : Level(tx[h]) < Level(tx[n])} \cup {n}
    BY <1>1, <1>3, <1>4
  <2>2. n \in Governing(tx, G)
    BY <1>0, <1>7 DEF Governing
  <2>3. ASSUME NEW h \in H
        PROVE  h \in Governing(tx, G) <=> h \in Governing(tx, H) /\ Level(tx[h]) < Level(tx[n])
    BY <1>7, <2>3 DEF Governing
  <2>4. Governing(tx, H) \subseteq H /\ Governing(tx, G) \subseteq G
    BY DEF Governing
  <2> QED BY <2>1, <2>2, <2>3, <2>4
<1>9. ASSUME NEW c \in cs PROVE {h \in G : h < c.at} = {h \in H : h < c.at}
  BY <1>0, <1>1, <1>2, <1>9
<1> HIDE DEF G
<1>10. Shape(tx, r, n, G)
  <2>1. Sorted(Tokens(tx, r.prose))
    BY <1>4, NoWait, Zenon
  <2> QED BY <1>4, <1>5, <2>1 DEF Shape
<1>11. ASSUME NEW c \in cs PROVE c.at <= n /\ \A l \in LinesOf(c) : l <= n
  BY <1>0, <1>1, <1>2, <1>11
<1>12. ASSUME NEW m \in 1 .. n, Counts(tx[m]) PROVE Held(r, m)
  <2>1. m # n
    BY <1>12 DEF Counts
  <2>2. m \in 1 .. n - 1
    BY <1>0, <2>1
  <2>3. Held(st, m)
    BY <1>1, <1>12, <2>2
  <2> QED BY <1>4, <1>5, <2>3 DEF Held
<1> QED
  BY <1>1, <1>4, <1>5, <1>6, <1>8, <1>9, <1>10, <1>11, <1>12 DEF ReadTo, cs, r

(* A line that opens a block.                                               *)
LEMMA Opened ==
  ASSUME NEW tx \in Text, NEW n \in 1 .. Len(tx), NEW st, ReadTo(tx, st, n - 1),
         st.mode = "prose", NEW mode \in {"code", "html", "table"}, NEW block,
         \/ block = <<>> /\ tx[n] \in Ticks \cup {"tilde"} /\ mode = "code"
         \/ block = <<n>> /\ tx[n] \notin Headings
  PROVE  ReadTo(tx, Open(tx, st, n, mode, block), n)
<1> DEFINE S == Seq(1 .. Len(tx))
           C == Seq(SChunk)
           M == ParserModes
           X == 1 .. Len(tx)
           mid == Flush(tx, st)
           r == Open(tx, st, n, mode, block)
           H == HeadsOf(tx, mid, n - 1)
<1>0. n \in Nat /\ n >= 1 /\ n \in X /\ n - 1 \in 0 .. Len(tx) /\ mode \in M /\ mode # "prose"
      /\ tx[n] \in LineKind
  BY DEF Text, ParserModes
<1>1. ReadTo(tx, mid, n - 1) /\ mid.mode = "prose" /\ mid.prose = <<>> /\ mid.block = <<>>
  BY <1>0, FlushedTo
<1>2. mid \in PState(tx) /\ \A c \in ToSet(mid.chunks) : c.at <= n - 1
  BY <1>1 DEF ReadTo
<1>3. block \in Seq(X) /\ tx[n] \notin Headings /\ ToSet(block) = IF block = <<>> THEN {} ELSE {n}
  <2>1. CASE block = <<>>
    BY <2>1, NoWait, SetOfFew DEF Ticks, Headings
  <2>2. CASE block = <<n>> /\ tx[n] \notin Headings
    <3>1. <<n>> \in Seq(X) /\ <<n>> # <<>> /\ ToSet(<<n>>) = {n}
      BY <1>0, SetOfFew
    <3> QED BY <2>2, <3>1
  <2> QED BY <2>1, <2>2
<1>4. /\ r \in PState(tx) /\ r.mode = mode /\ r.prose = <<>> /\ r.block = block /\ r.at = n
      /\ r.stack = mid.stack /\ r.chunks = mid.chunks
  <2>1. r = [mid EXCEPT !.mode = mode, !.mark = tx[n], !.block = block, !.at = n]
    BY DEF Open
  <2>0. block \in S
    BY <1>3
  <2> HIDE DEF S, C, M, r, mid
  <2>2. mid \in Rec(M, LineKind, S, Nat, C)
    BY <1>2 DEF PState, Rec, C, M, S
  <2>3. /\ r \in Rec(M, LineKind, S, Nat, C) /\ r.mode = mode /\ r.prose = mid.prose
        /\ r.block = block /\ r.at = n /\ r.stack = mid.stack /\ r.chunks = mid.chunks
    BY <1>0, <2>0, <2>1, <2>2 DEF Rec
  <2>4. r \in PState(tx)
    BY <2>3 DEF PState, Rec, C, M, S
  <2> QED BY <1>1, <2>3, <2>4
<1>5. ToSet(mid.prose) = {} /\ ToSet(mid.block) = {} /\ ToSet(r.prose) = {}
  <2>1. ToSet(<<>>) = {}
    BY SetOfFew
  <2> HIDE DEF r, mid
  <2> QED BY <1>1, <1>4, <2>1, Zenon
<1> HIDE DEF r, mid
<1>6. Waiting(mid) = {} /\ Waiting(r) = ToSet(block)
  BY <1>4, <1>5 DEF Waiting
<1>7. Counts(tx[n]) => block # <<>>
  <2>1. CASE tx[n] \in Ticks \cup {"tilde"}
    BY <2>1 DEF Counts
  <2>2. CASE block = <<n>>
    BY <2>2
  <2> QED BY <2>1, <2>2
<1>8. Shape(tx, r, n, H)
  <2>1. \A h \in H : h < n
    BY <1>0 DEF HeadsOf
  <2>2. \A c \in ToSet(r.chunks) : c.at <= n
    <3>1. mid.chunks \in Seq(SChunk)
      BY <1>2, PStateIs
    <3>2. \A c \in ToSet(mid.chunks) : c.at \in Nat
      BY <3>1, OfSeq, SChunkIs
    <3> QED BY <1>0, <1>2, <1>4, <3>2
  <2>3. n \in 1 .. n
    BY <1>0
  <2>4. mode = "table" => block # <<>>
    OBVIOUS
  <2> HIDE DEF H
  <2> QED BY <1>0, <1>3, <1>4, <2>1, <2>2, <2>3, <2>4 DEF Shape
<1> HIDE DEF H
<1>9. Growing(tx, mid, r, n)
  BY <1>3, <1>4, <1>5, <1>6, <1>7, <1>8 DEF Growing, H
<1>10. ReadTo(tx, r, n)
  BY <1>1, <1>9, GrowingKeeps
<1> QED
  BY <1>10 DEF r

(* A line that closes a code block is in no chunk.                          *)
LEMMA Skipped ==
  ASSUME NEW tx \in Text, NEW n \in 1 .. Len(tx), NEW st, ReadTo(tx, st, n - 1),
         st.mode = "prose", tx[n] \in Ticks \cup {"tilde"}
  PROVE  ReadTo(tx, st, n)
<1>1. st \in PState(tx) /\ Shape(tx, st, n - 1, HeadsOf(tx, st, n - 1))
  BY DEF ReadTo
<1>2. Shape(tx, st, n, HeadsOf(tx, st, n - 1))
  BY <1>1 DEF Shape
<1>3. ~Counts(tx[n]) /\ tx[n] \notin Headings
  BY DEF Counts, Ticks, Headings
<1>4. Growing(tx, st, st, n)
  BY <1>1, <1>2, <1>3 DEF Growing
<1> QED
  BY <1>4, GrowingKeeps

(* A line added to what waits.                                              *)
ProseMore(st, n) == [st EXCEPT !.prose = Append(@, n)]

BlockMore(st, n) == [st EXCEPT !.block = Append(@, n)]

(* Lines in order, behind lines in order.                                   *)
LEMMA SortedMore ==
  ASSUME NEW s \in Seq(Nat), NEW t \in Seq(Nat), Sorted(s), Sorted(t),
         \A a \in ToSet(s), b \in ToSet(t) : a <= b
  PROVE  Sorted(s \o t)
<1> DEFINE all == s \o t
<1>0. Len(s) \in Nat /\ Len(t) \in Nat
  OBVIOUS
<1>1. /\ Len(all) = Len(s) + Len(t)
      /\ \A i \in 1 .. Len(s) + Len(t) : all[i] = IF i <= Len(s) THEN s[i] ELSE t[i - Len(s)]
  BY ConcatProperties
<1>2. \A i \in 1 .. Len(s) : s[i] \in ToSet(s)
  BY InSeq
<1>3. \A i \in 1 .. Len(t) : t[i] \in ToSet(t)
  BY InSeq
<1> HIDE DEF all
<1>4. ASSUME NEW i \in 1 .. Len(all), NEW j \in 1 .. Len(all), i <= j
      PROVE  all[i] <= all[j]
  <2>1. CASE j <= Len(s)
    <3>1. i \in 1 .. Len(s) /\ j \in 1 .. Len(s) /\ all[i] = s[i] /\ all[j] = s[j]
      BY <1>0, <1>1, <1>4, <2>1
    <3> QED BY <1>4, <3>1 DEF Sorted
  <2>2. CASE i <= Len(s) /\ j > Len(s)
    <3>1. i \in 1 .. Len(s) /\ j - Len(s) \in 1 .. Len(t) /\ all[i] = s[i] /\ all[j] = t[j - Len(s)]
      BY <1>0, <1>1, <1>4, <2>2
    <3> QED BY <1>2, <1>3, <3>1
  <2>3. CASE i > Len(s)
    <3>1. /\ i - Len(s) \in 1 .. Len(t) /\ j - Len(s) \in 1 .. Len(t) /\ i - Len(s) <= j - Len(s)
          /\ all[i] = t[i - Len(s)] /\ all[j] = t[j - Len(s)]
      BY <1>0, <1>1, <1>4, <2>3
    <3> QED BY <3>1 DEF Sorted
  <2> QED BY <1>0, <1>1, <1>4, <2>1, <2>2, <2>3
<1> QED
  BY <1>4 DEF Sorted, all

(* A line of prose, and a line of a block.                                  *)
LEMMA ProseRead ==
  ASSUME NEW tx \in Text, NEW n \in 1 .. Len(tx), NEW st, ReadTo(tx, st, n - 1),
         st.mode = "prose", tx[n] \notin Headings
  PROVE  ReadTo(tx, ProseMore(st, n), n)
<1> DEFINE S == Seq(1 .. Len(tx))
           C == Seq(SChunk)
           M == ParserModes
           X == 1 .. Len(tx)
           v == Append(st.prose, n)
           r == ProseMore(st, n)
           H == HeadsOf(tx, st, n - 1)
           old == Tokens(tx, st.prose)
           more == Copies(tx, n)
<1>0. n \in Nat /\ n >= 1 /\ n \in X /\ Len(tx) \in Nat
  BY DEF Text
<1>1. /\ st \in PState(tx) /\ Shape(tx, st, n - 1, H)
      /\ \A m \in Waiting(st) : m <= n - 1
  BY DEF ReadTo
<1>2. st.block = <<>> /\ Sorted(old) /\ \A h \in H : \A m \in ToSet(st.prose) : h < m
  BY <1>1 DEF Shape
<1>3. st.prose \in Seq(X)
  BY <1>1, PStateIs
<1>4. v \in Seq(X) /\ ToSet(v) = ToSet(st.prose) \cup {n}
  <2> HIDE DEF X
  <2> QED BY <1>0, <1>3, AppendProperties, SetOfAppend
<1>5. /\ r \in PState(tx) /\ r.mode = "prose" /\ r.prose = v /\ r.block = st.block
      /\ r.stack = st.stack /\ r.chunks = st.chunks
  <2>0. v \in S
    BY <1>4
  <2>1. r = [st EXCEPT !.prose = v]
    BY DEF ProseMore
  <2> HIDE DEF S, C, M, r, v
  <2>2. st \in Rec(M, LineKind, S, Nat, C)
    BY <1>1 DEF PState, Rec, C, M, S
  <2>3. /\ r \in Rec(M, LineKind, S, Nat, C) /\ r.mode = st.mode /\ r.prose = v
        /\ r.block = st.block /\ r.stack = st.stack /\ r.chunks = st.chunks
    BY <2>0, <2>1, <2>2 DEF Rec
  <2>4. r \in PState(tx)
    BY <2>3 DEF PState, Rec, C, M, S
  <2> QED BY <2>3, <2>4
<1>6. Sorted(Tokens(tx, v))
  <2>1. Tokens(tx, v) = old \o more
    BY <1>3, TokensMore DEF Text
  <2>2. more \in Seq({n}) /\ ToSet(more) \subseteq {n}
    BY CopiesIs DEF Text
  <2>3. old \in Seq(X) /\ ToSet(old) \subseteq ToSet(st.prose)
    BY <1>3, TokensSet DEF Text
  <2>4. more \in Seq(Nat) /\ old \in Seq(Nat)
    <3>1. {n} \subseteq Nat /\ X \subseteq Nat
      BY <1>0
    <3> HIDE DEF X, old, more
    <3> QED BY <2>2, <2>3, <3>1, SeqMonotonic
  <2>5. Sorted(more)
    <3>1. \A i \in 1 .. Len(more) : more[i] = n
      BY <2>2
    <3> HIDE DEF more
    <3> QED BY <1>0, <3>1 DEF Sorted
  <2>6. \A a \in ToSet(old), b \in ToSet(more) : a <= b
    <3>1. \A a \in ToSet(old) : a \in Nat /\ a <= n - 1
      BY <1>1, <2>3, <2>4, OfSeq DEF Waiting
    <3> QED BY <1>0, <2>2, <3>1
  <2> HIDE DEF old, more
  <2> QED BY <1>2, <2>1, <2>4, <2>5, <2>6, SortedMore
<1> HIDE DEF r, v
<1>7. Waiting(r) = Waiting(st) \cup {n}
  BY <1>4, <1>5 DEF Waiting
<1>8. Shape(tx, r, n, H)
  <2>1. \A h \in H : h < n
    BY <1>0 DEF HeadsOf
  <2> HIDE DEF H
  <2> QED BY <1>2, <1>4, <1>5, <1>6, <2>1 DEF Shape
<1> HIDE DEF H
<1>9. Growing(tx, st, r, n)
  BY <1>5, <1>7, <1>8 DEF Growing, H
<1> QED
  BY <1>9, GrowingKeeps DEF r

LEMMA BlockRead ==
  ASSUME NEW tx \in Text, NEW n \in 1 .. Len(tx), NEW st, ReadTo(tx, st, n - 1),
         st.mode # "prose", st.mode = "table" => tx[n] \notin Headings
  PROVE  ReadTo(tx, BlockMore(st, n), n)
<1> DEFINE S == Seq(1 .. Len(tx))
           C == Seq(SChunk)
           M == ParserModes
           X == 1 .. Len(tx)
           v == Append(st.block, n)
           r == BlockMore(st, n)
           H == HeadsOf(tx, st, n - 1)
<1>0. n \in Nat /\ n >= 1 /\ n \in X /\ Len(tx) \in Nat
  BY DEF Text
<1>1. st \in PState(tx) /\ Shape(tx, st, n - 1, H)
  BY DEF ReadTo
<1>2. /\ st.prose = <<>> /\ st.at \in 1 .. n - 1
      /\ \A c \in ToSet(st.chunks) : c.at <= st.at
      /\ \A h \in H : h < st.at
      /\ \A m \in ToSet(st.block) : st.at <= m
      /\ st.mode = "table" => \A m \in ToSet(st.block) : tx[m] \notin Headings
  BY <1>1 DEF Shape
<1>3. st.block \in Seq(X)
  BY <1>1, PStateIs
<1>4. v \in Seq(X) /\ ToSet(v) = ToSet(st.block) \cup {n} /\ v # <<>>
  <2>1. v \in Seq(X) /\ ToSet(v) = ToSet(st.block) \cup {n}
    <3> HIDE DEF X
    <3> QED BY <1>0, <1>3, AppendProperties, SetOfAppend
  <2>2. ToSet(<<>>) = {}
    BY SetOfFew
  <2> HIDE DEF v
  <2>3. v # <<>>
    BY <2>1, <2>2
  <2> QED BY <2>1, <2>3
<1>5. /\ r \in PState(tx) /\ r.mode = st.mode /\ r.prose = st.prose /\ r.block = v
      /\ r.stack = st.stack /\ r.chunks = st.chunks /\ r.at = st.at
  <2>0. v \in S
    BY <1>4
  <2>1. r = [st EXCEPT !.block = v]
    BY DEF BlockMore
  <2> HIDE DEF S, C, M, r, v
  <2>2. st \in Rec(M, LineKind, S, Nat, C)
    BY <1>1 DEF PState, Rec, C, M, S
  <2>3. /\ r \in Rec(M, LineKind, S, Nat, C) /\ r.mode = st.mode /\ r.prose = st.prose
        /\ r.block = v /\ r.stack = st.stack /\ r.chunks = st.chunks /\ r.at = st.at
    BY <2>0, <2>1, <2>2 DEF Rec
  <2>4. r \in PState(tx)
    BY <2>3 DEF PState, Rec, C, M, S
  <2> QED BY <2>3, <2>4
<1> HIDE DEF r, v
<1>6. Waiting(r) = Waiting(st) \cup {n}
  BY <1>4, <1>5 DEF Waiting
<1>7. Shape(tx, r, n, H)
  <2>1. st.at \in 1 .. n /\ st.at <= n
    BY <1>0, <1>2
  <2> HIDE DEF H
  <2> QED BY <1>2, <1>4, <1>5, <2>1 DEF Shape
<1> HIDE DEF H
<1>8. Growing(tx, st, r, n)
  BY <1>4, <1>5, <1>6, <1>7 DEF Growing, H
<1> QED
  BY <1>8, GrowingKeeps DEF r

LEMMA ReadProseKeeps ==
  ASSUME NEW tx \in Text, NEW n \in 1 .. Len(tx), NEW st, ReadTo(tx, st, n - 1), st.mode = "prose"
  PROVE  ReadTo(tx, ReadProse(tx, st, n), n)
<1>0. n - 1 \in 0 .. Len(tx)
  BY DEF Text
<1>1. CASE tx[n] \in {"fence", "lang", "plus", "tilde"}
  <2>1. ReadProse(tx, st, n) = Open(tx, st, n, "code", <<>>)
    BY <1>1 DEF ReadProse, Headings
  <2>2. tx[n] \in Ticks \cup {"tilde"}
    BY <1>1 DEF Ticks
  <2> QED BY <2>1, <2>2, Opened
<1>2. CASE tx[n] \in {"open", "both"}
  <2>1. ReadProse(tx, st, n) = Open(tx, st, n, "html", <<n>>) /\ tx[n] \notin Headings
    BY <1>2 DEF ReadProse, Headings
  <2> QED BY <2>1, Opened
<1>3. CASE tx[n] = "row"
  <2>1. ReadProse(tx, st, n) = Open(tx, st, n, "table", <<n>>) /\ tx[n] \notin Headings
    BY <1>3 DEF ReadProse, Headings
  <2> QED BY <2>1, Opened
<1>4. CASE tx[n] \in Headings
  <2>1. ReadProse(tx, st, n) = Headed(tx, Flush(tx, st), n)
    BY <1>4 DEF ReadProse, Headings, Headed
  <2> DEFINE mid == Flush(tx, st)
  <2>2. ReadTo(tx, mid, n - 1) /\ mid.mode = "prose" /\ mid.prose = <<>> /\ mid.block = <<>>
    BY <1>0, FlushedTo
  <2> HIDE DEF mid
  <2>3. ReadTo(tx, Headed(tx, mid, n), n)
    BY <1>4, <2>2, HeadRead
  <2> QED BY <2>1, <2>3 DEF mid
<1>5. CASE tx[n] \notin {"fence", "lang", "plus", "tilde", "open", "both", "row"} \cup Headings
  <2>1. ReadProse(tx, st, n) = ProseMore(st, n)
    BY <1>5 DEF ReadProse, ProseMore
  <2> QED BY <1>5, <2>1, ProseRead
<1> QED
  BY <1>1, <1>2, <1>3, <1>4, <1>5

(* Every line keeps the invariant, in each of the modes.                    *)
LEMMA ReadKeeps ==
  ASSUME NEW tx \in Text, NEW n \in 1 .. Len(tx), NEW st, ReadTo(tx, st, n - 1)
  PROVE  ReadTo(tx, Read(tx, st, n), n)
<1>0. st.mode \in ParserModes /\ n - 1 \in 0 .. Len(tx) /\ n \in 0 .. Len(tx)
  BY PStateIs DEF ReadTo, Text
<1>e. ReadTo(tx, EndBlock(tx, st), n - 1) /\ EndBlock(tx, st).mode = "prose"
  BY <1>0, BlockEnded
<1>1. CASE st.mode = "prose"
  <2>1. Read(tx, st, n) = ReadProse(tx, st, n)
    BY <1>1 DEF Read
  <2> QED BY <1>1, <2>1, ReadProseKeeps
<1>2. CASE st.mode = "code"
  <2>1. Read(tx, st, n) = IF Closes(tx[n], st.mark) THEN EndBlock(tx, st) ELSE BlockMore(st, n)
    BY <1>2 DEF Read, BlockMore
  <2>2. Closes(tx[n], st.mark) => tx[n] \in Ticks \cup {"tilde"}
    BY DEF Closes
  <2>3. CASE Closes(tx[n], st.mark)
    BY <1>e, <2>1, <2>2, <2>3, Skipped
  <2>4. CASE ~Closes(tx[n], st.mark)
    BY <1>2, <2>1, <2>4, BlockRead
  <2> QED BY <2>3, <2>4
<1>3. CASE st.mode = "html"
  <2>1. Read(tx, st, n) = IF tx[n] \in {"close", "both"} THEN EndBlock(tx, BlockMore(st, n)) ELSE BlockMore(st, n)
    BY <1>3 DEF Read, BlockMore
  <2>2. ReadTo(tx, BlockMore(st, n), n)
    BY <1>3, BlockRead
  <2>3. ReadTo(tx, EndBlock(tx, BlockMore(st, n)), n)
    BY <1>0, <2>2, BlockEnded
  <2> QED BY <2>1, <2>2, <2>3
<1>4. CASE st.mode = "table"
  <2>1. Read(tx, st, n) = IF tx[n] = "row" THEN BlockMore(st, n) ELSE ReadProse(tx, EndBlock(tx, st), n)
    BY <1>4 DEF Read, BlockMore
  <2>2. tx[n] = "row" => tx[n] \notin Headings
    BY DEF Headings
  <2>3. CASE tx[n] = "row"
    BY <1>4, <2>1, <2>2, <2>3, BlockRead
  <2>4. CASE tx[n] # "row"
    BY <1>e, <2>1, <2>4, ReadProseKeeps
  <2> QED BY <2>3, <2>4
<1> QED
  BY <1>0, <1>1, <1>2, <1>3, <1>4 DEF ParserModes

(* The invariant holds before the first line.                               *)
LEMMA StartRight ==
  ASSUME NEW tx \in Text
  PROVE  Start \in PState(tx) /\ ReadTo(tx, Start, 0)
<1> DEFINE none == <<>>
           X == 1 .. Len(tx)
           S == Seq(X)
           C == Seq(SChunk)
           M == ParserModes
<1>1. ToSet(none) = {} /\ none \in S /\ none \in C /\ none = <<>>
  BY SetOfFew
<1>2. Sorted(Tokens(tx, none))
  <2>1. none = [k \in 1 .. 0 |-> k]
    OBVIOUS
  <2>2. Pieces(tx, <<>>) = <<>>
    BY DEF Pieces
  <2>3. Tokens(tx, <<>>) = Chained(Pieces(tx, <<>>))
    BY DEF Tokens, Pieces, Copies
  <2>4. Tokens(tx, <<>>) = <<>>
    BY <2>2, <2>3, ChainedNone
  <2>5. Sorted(<<>>)
    BY DEF Sorted
  <2> QED BY <2>4, <2>5, Zenon
<1>3. Start = [mode |-> "prose", mark |-> "fence", stack |-> none, prose |-> none,
               block |-> none, at |-> 0, chunks |-> none]
  BY DEF Start
<1>4. "prose" \in M /\ "fence" \in LineKind
  BY DEF ParserModes, LineKind, Ticks
<1>5. none = <<>>
  OBVIOUS
<1> HIDE DEF none, S, C, M
<1>6. Start \in [mode : M, mark : LineKind, stack : S, prose : S, block : S, at : Nat, chunks : C]
  BY <1>1, <1>3, <1>4
<1>7. Start \in PState(tx)
  BY <1>6 DEF PState, S, C, M, X
<1>8. /\ Start.mode = "prose" /\ Start.stack = none /\ Start.prose = none /\ Start.block = none
      /\ Start.at = 0 /\ Start.chunks = none
  BY <1>3
<1>9. /\ ToSet(Start.stack) = {} /\ ToSet(Start.prose) = {} /\ ToSet(Start.block) = {}
      /\ ToSet(Start.chunks) = {}
  BY <1>1, <1>8
<1>10. Waiting(Start) = {}
  BY <1>9 DEF Waiting
<1>11. HeadsOf(tx, Start, 0) = {}
  BY DEF HeadsOf
<1>12. Shape(tx, Start, 0, {})
  BY <1>2, <1>5, <1>8, <1>9 DEF Shape
<1>13. Ordered(Start.chunks)
  <2>1. Len(Start.chunks) = 0
    BY <1>5, <1>8
  <2> QED BY <2>1 DEF Ordered
<1>14. Governing(tx, {}) = {}
  BY DEF Governing
<1> QED
  BY <1>7, <1>9, <1>10, <1>11, <1>12, <1>13, <1>14 DEF ReadTo

(* The loop of StructuralParse.                                             *)
ParserLoop(tx) ==
  CHOOSE st : st = [n \in 0 .. Len(tx) |-> IF n = 0 THEN Start ELSE Read(tx, st[n - 1], n)]

(* The loop has the invariant at its end, by induction over the lines.      *)
LEMMA ParserLoopIs ==
  ASSUME NEW tx \in Text
  PROVE  /\ StructuralParse(tx) = Flush(tx, EndBlock(tx, ParserLoop(tx)[Len(tx)])).chunks
         /\ ReadTo(tx, ParserLoop(tx)[Len(tx)], Len(tx))
<1> DEFINE N == Len(tx)
           S == PState(tx)
           Good(st, n) == ReadTo(tx, st, n)
           Def(f) == [n \in 0 .. Len(tx) |-> IF n = 0 THEN Start ELSE Read(tx, f[n - 1], n)]
           Step(n, st) == IF Good(st, n - 1) THEN Read(tx, st, n) ELSE Start
           step == [n \in 1 .. N |-> [st \in S |-> Step(n, st)]]
           F == ParserLoop(tx)
<1>0. N \in Nat
  BY DEF Text
<1>1. StructuralParse(tx) = Flush(tx, EndBlock(tx, F[Len(tx)])).chunks
  BY DEF StructuralParse, ParserLoop
<1>2. Start \in S /\ Good(Start, 0)
  BY StartRight
<1>3. ASSUME NEW n \in 1 .. N, NEW st, Good(st, n - 1)
      PROVE  Good(Read(tx, st, n), n) /\ Read(tx, st, n) \in S
  <2>1. Good(Read(tx, st, n), n)
    BY <1>3, ReadKeeps
  <2> QED BY <2>1 DEF ReadTo
<1>4. \A n \in 1 .. N : \A st \in S : Step(n, st) \in S
  BY <1>2, <1>3
<1> HIDE DEF S, Good
<1>5. IsLoop(N, S, Start, step)
  <2> HIDE DEF N, Step
  <2> QED BY <1>0, <1>2, <1>4 DEF IsLoop
<1>6. \E f : f = Def(f)
  <2>0. PICK f : Computes(f, N, S, Start, step)
    <3> HIDE DEF step, N
    <3> QED BY <1>5, LoopExists
  <2>1. /\ f \in [0 .. N -> S] /\ f[0] = Start
        /\ \A n \in 1 .. N : f[n] = step[n][f[n - 1]]
    <3> HIDE DEF step, N
    <3> QED BY <2>0 DEF Computes
  <2>2. ASSUME NEW n \in 1 .. N PROVE f[n] = Step(n, f[n - 1])
    <3>1. n - 1 \in 0 .. N
      BY <1>0
    <3>2. f[n - 1] \in S
      BY <2>1, <3>1
    <3> HIDE DEF Step
    <3>3. step[n][f[n - 1]] = Step(n, f[n - 1])
      BY <3>2
    <3> QED BY <2>1, <3>3
  <2> DEFINE T == {n \in 0 .. N : Good(f[n], n)}
  <2>3. 0 \in T
    BY <1>0, <1>2, <2>1
  <2>4. ASSUME NEW n \in 1 .. N, n - 1 \in T PROVE n \in T
    <3>1. Good(f[n - 1], n - 1)
      BY <2>4
    <3>2. f[n] = Read(tx, f[n - 1], n)
      BY <2>2, <3>1
    <3>3. Good(f[n], n)
      BY <1>3, <3>1, <3>2
    <3> QED BY <1>0, <3>3
  <2>5. 0 .. N \subseteq T
    <3> HIDE DEF T, N
    <3> QED BY <1>0, <2>3, <2>4, LoopInduction
  <2>6. ASSUME NEW n \in 0 .. N PROVE f[n] = Def(f)[n]
    <3>1. CASE n = 0
      BY <2>1, <3>1
    <3>2. CASE n # 0
      <4>1. n \in 1 .. N /\ n - 1 \in 0 .. N
        BY <1>0, <3>2
      <4>2. Good(f[n - 1], n - 1)
        BY <2>5, <4>1
      <4>3. f[n] = Read(tx, f[n - 1], n)
        BY <2>2, <4>1, <4>2
      <4> QED BY <3>2, <4>1, <4>3
    <3> QED BY <3>1, <3>2
  <2>7. f = Def(f)
    <3> HIDE DEF step
    <3>1. f = [n \in 0 .. N |-> f[n]]
      BY <2>1
    <3> QED BY <2>6, <3>1
  <2> QED BY <2>7
<1>7. F = Def(F)
  BY <1>6, Zenon DEF ParserLoop
<1>8. F[0] = Start /\ \A n \in 1 .. N : F[n] = Read(tx, F[n - 1], n)
  <2>1. ASSUME NEW f
        PROVE  Def(f)[0] = Start /\ \A n \in 1 .. N : Def(f)[n] = Read(tx, f[n - 1], n)
    BY <1>0
  <2> HIDE DEF F, Def
  <2> QED BY <1>7, <2>1
<1> HIDE DEF F
<1> DEFINE T == {n \in 0 .. N : Good(F[n], n)}
<1>9. 0 \in T
  BY <1>0, <1>2, <1>8
<1>10. ASSUME NEW n \in 1 .. N, n - 1 \in T PROVE n \in T
  <2>1. Good(F[n - 1], n - 1)
    BY <1>10
  <2>2. Good(F[n], n)
    BY <1>3, <1>8, <2>1
  <2> QED BY <1>0, <2>2
<1>11. 0 .. N \subseteq T
  <2> HIDE DEF T, N
  <2> QED BY <1>0, <1>9, <1>10, LoopInduction
<1>12. Good(F[N], N)
  BY <1>0, <1>11
<1> QED
  BY <1>1, <1>12 DEF Good, F

-----------------------------------------------------------------------------
(* Every text.                                                              *)

(* At the end of the text nothing waits.                                    *)
LEMMA AllRead ==
  ASSUME NEW tx \in Text
  PROVE  \E st : /\ ReadTo(tx, st, Len(tx)) /\ st.chunks = StructuralParse(tx)
                 /\ ToSet(st.prose) = {} /\ ToSet(st.block) = {}
<1> DEFINE last == ParserLoop(tx)[Len(tx)]
           mid == EndBlock(tx, last)
           end == Flush(tx, mid)
<1>0. Len(tx) \in 0 .. Len(tx)
  BY DEF Text
<1>1. StructuralParse(tx) = end.chunks /\ ReadTo(tx, last, Len(tx))
  BY ParserLoopIs
<1> HIDE DEF last
<1>2. ReadTo(tx, mid, Len(tx)) /\ mid.mode = "prose"
  BY <1>0, <1>1, BlockEnded
<1> HIDE DEF mid
<1>3. ReadTo(tx, end, Len(tx)) /\ end.prose = <<>> /\ end.block = <<>>
  BY <1>0, <1>2, FlushedTo
<1> HIDE DEF end
<1>4. ToSet(<<>>) = {}
  BY SetOfFew
<1>5. ToSet(end.prose) = {} /\ ToSet(end.block) = {}
  BY <1>3, <1>4, Zenon
<1> QED
  BY <1>1, <1>3, <1>5

(* For every text of any length, structural_parse loses nothing, keeps its  *)
(* order, and says of every chunk the headings that govern it.              *)
LEMMA ParsedWhole ==
  ASSUME NEW tx \in Text
  PROVE  ParsesWhole(tx) /\ CrumbsRight(tx)
<1>1. PICK st : /\ ReadTo(tx, st, Len(tx)) /\ st.chunks = StructuralParse(tx)
                /\ ToSet(st.prose) = {} /\ ToSet(st.block) = {}
  BY AllRead
<1> DEFINE chunks == StructuralParse(tx)
           all == ToSet(chunks)
           heads == HeadsOf(tx, st, Len(tx))
<1>2. /\ Ordered(chunks)
      /\ \A m \in 1 .. Len(tx) : Counts(tx[m]) => \E c \in all : m \in LinesOf(c)
      /\ \A c \in all : ToSet(c.heading) = Governing(tx, {h \in heads : h < c.at})
  <2>1. Waiting(st) = {}
    BY <1>1 DEF Waiting
  <2>2. \A m : Held(st, m) <=> \E c \in all : m \in LinesOf(c)
    BY <1>1, <2>1 DEF Held
  <2> QED BY <1>1, <2>2 DEF ReadTo
<1>3. chunks \in Seq(SChunk) /\ DOMAIN tx = 1 .. Len(tx) /\ DOMAIN chunks = 1 .. Len(chunks)
  <2>1. st \in PState(tx)
    BY <1>1 DEF ReadTo
  <2>2. chunks \in Seq(SChunk)
    BY <1>1, <2>1, PStateIs
  <2> QED BY <2>2 DEF Text
<1>4. \A n : Taken(st, n) <=> n \in Blocks(tx)
  BY <1>1 DEF Taken, Blocks
<1> HIDE DEF chunks, all
<1>5. heads = {n \in DOMAIN tx \ Blocks(tx) : tx[n] \in Headings}
  BY <1>3, <1>4 DEF HeadsOf
<1> HIDE DEF heads
<1>6. ParsesWhole(tx)
  <2>1. ASSUME NEW n \in DOMAIN tx, tx[n] \notin Headings \cup Ticks \cup {"blank", "tilde"}
        PROVE  \E c \in all : n \in LinesOf(c)
    BY <1>2, <1>3, <2>1 DEF Counts
  <2>2. ASSUME NEW i \in DOMAIN chunks, NEW j \in DOMAIN chunks, i < j
        PROVE  Follows(chunks[i], chunks[j])
    BY <1>2, <1>3, <2>2 DEF Ordered
  <2> QED BY <2>1, <2>2 DEF ParsesWhole, Follows, chunks, all
<1>7. CrumbsRight(tx)
  <2>1. ASSUME NEW c \in all PROVE ToSet(c.heading) = Above(tx, c)
    <3>1. {h \in heads : h < c.at}
            = {n \in DOMAIN tx \ Blocks(tx) : tx[n] \in Headings /\ n < c.at}
      BY <1>5
    <3>2. Governing(tx, {h \in heads : h < c.at}) = Above(tx, c)
      BY <3>1 DEF Governing, Above
    <3> QED BY <1>2, <3>2
  <2> QED BY <2>1 DEF CrumbsRight, chunks, all
<1> QED
  BY <1>6, <1>7

(* The text of the algorithms is a sequence of kinds of line.               *)
LEMMA TextIsLines == AlgorithmsInv => text \in Text
BY DEF AlgorithmsInv, AlgorithmsTypeOK, Text

(* For any text, and any of the three sources, chunk_document's chunks have *)
(* their bounds, and there is an end of them unless a heading leaves no     *)
(* room beside the overlap.                                                 *)
THEOREM ChunkedBoundedHolds == AlgorithmsSpec => []ChunkedBounded
<1>1. AlgorithmsInv => ChunkedBounded
  BY TextIsLines, EveryText DEF ChunkedBounded
<1> QED
  BY <1>1, AlgorithmsInitial, AlgorithmsStep, PTL DEF AlgorithmsSpec

(* For any text, and any of the three sources, both chunkers keep every     *)
(* line that is not blank, a heading or a fence, in order and under the     *)
(* headings that govern it.                                                 *)
THEOREM TextKeptHolds == AlgorithmsSpec => []TextKept
<1>1. AlgorithmsInv => TextKept
  BY TextIsLines, EveryText, ParsedWhole DEF TextKept
<1> QED
  BY <1>1, AlgorithmsInitial, AlgorithmsStep, PTL DEF AlgorithmsSpec
=============================================================================
