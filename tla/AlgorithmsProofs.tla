-------------------------- MODULE AlgorithmsProofs --------------------------
(***************************************************************************)
(* Proofs about the algorithms, whose specification is AlgorithmsSpec: the *)
(* retrieval, the normalisers and the code in a brief; ChunkerProofs has   *)
(* the two chunkers.  They hold for rankings, records and traces of any    *)
(* length; what the loops compute is proved by induction over their turns, *)
(* as lemmas about the sets of the turns after which something holds.      *)
(***************************************************************************)
EXTENDS Algorithms, FiniteSetTheorems, WellFoundedInduction, TLAPS

-----------------------------------------------------------------------------
(* Loops: what a recursive function over 0 .. N computes, one turn after   *)
(* the other.                                                              *)

(* Of some numbers one is the least.                                       *)
LEMMA LeastOfNat ==
  ASSUME NEW S \in SUBSET Nat, S # {}
  PROVE  \E m \in S : \A n \in S : m <= n
<1> DEFINE Less == {x \in Nat \X Nat : x[1] < x[2]}
<1>1. IsWellFoundedOn(Less, Nat)
  <2>1. Less = OpToRel(<, Nat)
    BY DEF OpToRel
  <2>2. QED
    BY <2>1, NatLessThanWellFounded
<1>2. PICK m \in S : \A n \in S : ~ (<<n, m>> \in Less)
  <2> HIDE DEF Less
  <2> QED
    BY <1>1, WFMin
<1>3. ASSUME NEW n \in S PROVE m <= n
  <2>1. n \in Nat /\ m \in Nat /\ <<n, m>> \notin Less
    BY <1>2
  <2>2. ~(n < m)
    BY <2>1
  <2>3. QED
    BY <2>1, <2>2
<1>4. QED
  BY <1>3

(* Induction, about sets: the library's theorem takes an operator.         *)
LEMMA NatSetInduction ==
  ASSUME NEW T \in SUBSET Nat, 0 \in T, \A n \in T : n + 1 \in T
  PROVE  T = Nat
<1> SUFFICES ASSUME Nat \ T # {} PROVE FALSE
  OBVIOUS
<1>1. PICK n \in Nat \ T : \A m \in Nat \ T : n <= m
  BY LeastOfNat
<1>2. n # 0 /\ n - 1 \in Nat
  OBVIOUS
<1>3. n - 1 \in T
  BY <1>1, <1>2
<1> QED
  BY <1>2, <1>3

(* What holds before a loop and is kept by each of its turns holds after   *)
(* all of them.                                                            *)
LEMMA LoopInduction ==
  ASSUME NEW N \in Nat, NEW T, 0 \in T, \A n \in 1 .. N : n - 1 \in T => n \in T
  PROVE  0 .. N \subseteq T
<1> DEFINE U == {n \in Nat : n <= N => n \in T}
<1>1. 0 \in U
  OBVIOUS
<1>2. ASSUME NEW n \in U PROVE n + 1 \in U
  <2>1. n + 1 \in 1 .. N => (n + 1) - 1 \in T
    OBVIOUS
  <2> QED BY <2>1
<1>3. U = Nat
  <2> HIDE DEF U
  <2>1. U \subseteq Nat
    BY DEF U
  <2> QED BY <1>1, <1>2, <2>1, NatSetInduction
<1> QED
  BY <1>3

(* A loop over 1 .. N that starts with base, and f as what it computes.     *)
IsLoop(N, S, base, step) == N \in Nat /\ base \in S /\ step \in [1 .. N -> [S -> S]]

(* What a loop has after each of its turns.                                *)
Computes(f, N, S, base, step) ==
  /\ f \in [0 .. N -> S]
  /\ f[0] = base
  /\ \A n \in 1 .. N : f[n] = step[n][f[n - 1]]

(* A loop from base over 0 .. N: what the recursive definitions need.       *)
LEMMA LoopExists ==
  ASSUME NEW N, NEW S, NEW base, NEW step, IsLoop(N, S, base, step)
  PROVE  \E f : Computes(f, N, S, base, step)
<1> USE DEF IsLoop
<1> DEFINE Ok(h, n) == h[0] = base /\ \A m \in 1 .. n : h[m] = step[m][h[m - 1]]
           T == {n \in 0 .. N : \E h \in [0 .. n -> S] : Ok(h, n)}
           h0 == [k \in 0 .. 0 |-> base]
<1>1. 0 \in T
  <2>1. h0 \in [0 .. 0 -> S] /\ Ok(h0, 0)
    OBVIOUS
  <2> HIDE DEF h0, Ok
  <2> QED BY <2>1
<1>2. ASSUME NEW n \in 1 .. N, n - 1 \in T PROVE n \in T
  <2>1. PICK h \in [0 .. n - 1 -> S] : Ok(h, n - 1)
    BY <1>2
  <2> DEFINE k == [m \in 0 .. n |-> IF m = n THEN step[n][h[n - 1]] ELSE h[m]]
  <2>2. h[n - 1] \in S
    OBVIOUS
  <2>3. k \in [0 .. n -> S]
    BY <2>2
  <2>4. k[0] = base
    BY <2>1
  <2>5. ASSUME NEW m \in 1 .. n PROVE k[m] = step[m][k[m - 1]]
    <3>1. CASE m = n
      BY <3>1
    <3>2. CASE m # n
      <4>1. m \in 1 .. n - 1 /\ m - 1 \in 0 .. n - 1
        BY <3>2
      <4>2. k[m] = h[m] /\ k[m - 1] = h[m - 1]
        BY <3>2, <4>1
      <4> QED BY <2>1, <4>1, <4>2
    <3> QED BY <3>1, <3>2
  <2>6. Ok(k, n)
    BY <2>4, <2>5
  <2> HIDE DEF k, Ok
  <2> QED BY <2>3, <2>6
<1>3. 0 .. N \subseteq T
  <2> HIDE DEF T
  <2> QED BY <1>1, <1>2, LoopInduction
<1> QED
  <2>1. N \in T
    BY <1>3
  <2> QED BY <2>1 DEF Computes

(* A loop whose turns keep a set stays in it.                               *)
LEMMA LoopStays ==
  ASSUME NEW N \in Nat, NEW S, NEW f, f[0] \in S,
         \A n \in 1 .. N : f[n - 1] \in S => f[n] \in S
  PROVE  \A n \in 0 .. N : f[n] \in S
<1> DEFINE T == {n \in 0 .. N : f[n] \in S}
<1>1. 0 \in T
  OBVIOUS
<1>2. ASSUME NEW n \in 1 .. N, n - 1 \in T PROVE n \in T
  BY <1>2
<1>3. 0 .. N \subseteq T
  <2> HIDE DEF T
  <2> QED BY <1>1, <1>2, LoopInduction
<1> QED
  BY <1>3

(* The list comprehension after each of its turns.                         *)
OnlyLoop(list, S) ==
  CHOOSE kept : kept = [n \in 0 .. Len(list) |->
    IF n = 0 THEN <<>>
    ELSE IF list[n] \in S THEN Append(kept[n - 1], list[n]) ELSE kept[n - 1]]

(* The loop of Only.                                                       *)
LEMMA OnlyLoopIs ==
  ASSUME NEW X, NEW list \in Seq(X), NEW S
  PROVE  /\ Only(list, S) = OnlyLoop(list, S)[Len(list)]
         /\ OnlyLoop(list, S) \in [0 .. Len(list) -> Seq(X)]
         /\ OnlyLoop(list, S)[0] = <<>>
         /\ \A n \in 1 .. Len(list) :
              OnlyLoop(list, S)[n] =
                IF list[n] \in S THEN Append(OnlyLoop(list, S)[n - 1], list[n])
                ELSE OnlyLoop(list, S)[n - 1]
<1> DEFINE N == Len(list)
           Def(f) == [n \in 0 .. Len(list) |->
             IF n = 0 THEN <<>>
             ELSE IF list[n] \in S THEN Append(f[n - 1], list[n]) ELSE f[n - 1]]
           step == [n \in 1 .. N |-> [s \in Seq(X) |->
             IF list[n] \in S THEN Append(s, list[n]) ELSE s]]
           F == OnlyLoop(list, S)
<1>1. Only(list, S) = F[Len(list)]
  BY DEF Only, OnlyLoop
<1>2. IsLoop(N, Seq(X), <<>>, step)
  BY DEF IsLoop
<1>3. \E f : f = Def(f)
  <2>0. PICK f : Computes(f, N, Seq(X), <<>>, step)
    <3> HIDE DEF step, N
    <3> QED BY <1>2, LoopExists
  <2>1. /\ f \in [0 .. N -> Seq(X)] /\ f[0] = <<>>
        /\ \A n \in 1 .. N : f[n] = step[n][f[n - 1]]
    <3> HIDE DEF step, N
    <3> QED BY <2>0 DEF Computes
  <2>2. ASSUME NEW n \in 0 .. N PROVE f[n] = Def(f)[n]
    <3>1. CASE n = 0
      BY <2>1, <3>1
    <3>2. CASE n # 0
      <4>1. n \in 1 .. N /\ n - 1 \in 0 .. N
        BY <3>2
      <4> QED BY <2>1, <3>2, <4>1
    <3> QED BY <3>1, <3>2
  <2>3. f = Def(f)
    BY <2>1, <2>2
  <2> QED BY <2>3
<1>4. F = Def(F)
  BY <1>3, Zenon DEF OnlyLoop
<1>5. F[0] = <<>> /\ \A n \in 1 .. N : F[n] = IF list[n] \in S THEN Append(F[n - 1], list[n]) ELSE F[n - 1]
  <2>1. ASSUME NEW f PROVE /\ Def(f)[0] = <<>>
                           /\ \A n \in 1 .. N :
                                Def(f)[n] = IF list[n] \in S THEN Append(f[n - 1], list[n])
                                            ELSE f[n - 1]
    OBVIOUS
  <2> HIDE DEF F, Def
  <2> QED BY <1>4, <2>1
<1>6. \A n \in 0 .. N : F[n] \in Seq(X)
  <2>1. N \in Nat /\ F[0] \in Seq(X)
    BY <1>5
  <2>2. ASSUME NEW n \in 1 .. N, F[n - 1] \in Seq(X) PROVE F[n] \in Seq(X)
    <3> HIDE DEF F
    <3>1. list[n] \in X
      OBVIOUS
    <3>2. Append(F[n - 1], list[n]) \in Seq(X)
      BY <2>2, <3>1
    <3> QED BY <1>5, <2>2, <3>2
  <2> HIDE DEF F, N
  <2> QED BY <2>1, <2>2, LoopStays
<1>7. F \in [0 .. N -> Seq(X)]
  <2> HIDE DEF F
  <2>1. F = [n \in 0 .. N |-> F[n]]
    BY <1>4
  <2> QED BY <1>6, <2>1
<1> QED
  BY <1>1, <1>5, <1>7

-----------------------------------------------------------------------------
(* Retrieval: the weights, the two loops, sorting, fusion and the context. *)

(* Every weight is a whole number.                                          *)
LEMMA ScaleDivides ==
  \A r \in 1 .. MaxHits : \E q \in Nat \ {0} : Scale = q * (RrfK + r)
<1> DEFINE Def(f) == [r \in 0 .. MaxHits |-> IF r = 0 THEN 1 ELSE f[r - 1] * (RrfK + r)]
           step == [r \in 1 .. MaxHits |-> [s \in Nat \ {0} |-> s * (RrfK + r)]]
           Divided(n, p) == p \in Nat \ {0} /\ \A r \in 1 .. n : \E q \in Nat \ {0} : p = q * (RrfK + r)
           F == CHOOSE f : f = Def(f)
<1>0. MaxHits \in Nat /\ RrfK \in Nat
  BY RetrievalAssumption
<1>1. IsLoop(MaxHits, Nat \ {0}, 1, step)
  <2>1. ASSUME NEW r \in 1 .. MaxHits, NEW s \in Nat \ {0} PROVE s * (RrfK + r) \in Nat \ {0}
    BY <1>0
  <2> QED BY <1>0, <2>1 DEF IsLoop
<1>2. \E f : f = Def(f)
  <2>1. PICK f : Computes(f, MaxHits, Nat \ {0}, 1, step)
    <3> HIDE DEF step
    <3> QED BY <1>1, LoopExists
  <2>2. /\ f \in [0 .. MaxHits -> Nat \ {0}] /\ f[0] = 1
        /\ \A n \in 1 .. MaxHits : f[n] = step[n][f[n - 1]]
    <3> HIDE DEF step
    <3> QED BY <2>1 DEF Computes
  <2>3. ASSUME NEW n \in 0 .. MaxHits PROVE f[n] = Def(f)[n]
    <3>1. CASE n = 0
      BY <2>2, <3>1
    <3>2. CASE n # 0
      <4>1. n \in 1 .. MaxHits /\ n - 1 \in 0 .. MaxHits
        BY <1>0, <3>2
      <4> QED BY <2>2, <3>2, <4>1
    <3> QED BY <3>1, <3>2
  <2>4. f = Def(f)
    BY <2>2, <2>3
  <2> QED BY <2>4
<1>3. F = Def(F)
  BY <1>2, Zenon
<1>4. F[0] = 1 /\ \A n \in 1 .. MaxHits : F[n] = F[n - 1] * (RrfK + n)
  <2>1. ASSUME NEW f
        PROVE  Def(f)[0] = 1 /\ \A n \in 1 .. MaxHits : Def(f)[n] = f[n - 1] * (RrfK + n)
    BY <1>0
  <2> HIDE DEF F, Def
  <2> QED BY <1>3, <2>1
<1>5. \A n \in 0 .. MaxHits : Divided(n, F[n])
  <2> DEFINE T == {n \in 0 .. MaxHits : Divided(n, F[n])}
  <2>1. 0 \in T
    <3> HIDE DEF F
    <3> QED BY <1>0, <1>4
  <2>2. ASSUME NEW n \in 1 .. MaxHits, n - 1 \in T PROVE n \in T
    <3> DEFINE p == F[n - 1]
               k == RrfK + n
    <3>1. F[n] = p * k /\ k \in Nat \ {0} /\ n \in 0 .. MaxHits
      <4> HIDE DEF F
      <4> QED BY <1>0, <1>4
    <3>2. p \in Nat \ {0} /\ \A r \in 1 .. n - 1 : \E q \in Nat \ {0} : p = q * (RrfK + r)
      BY <2>2
    <3> HIDE DEF F, p
    <3>3. p * k \in Nat \ {0}
      <4> HIDE DEF k
      <4> QED BY <3>1, <3>2
    <3>4. ASSUME NEW r \in 1 .. n PROVE \E q \in Nat \ {0} : p * k = q * (RrfK + r)
      <4>1. CASE r = n
        BY <3>2, <4>1
      <4>2. CASE r # n
        <5>1. PICK q \in Nat \ {0} : p = q * (RrfK + r)
          BY <3>2, <4>2
        <5> DEFINE c == RrfK + r
        <5>2. c \in Nat
          BY <1>0
        <5> HIDE DEF c, k
        <5>3. p * k = (q * k) * c /\ q * k \in Nat \ {0}
          <6>1. p = q * c
            BY <5>1 DEF c
          <6> QED BY <3>1, <5>2, <6>1
        <5> QED BY <5>3 DEF c
      <4> QED BY <4>1, <4>2
    <3> QED BY <3>1, <3>3, <3>4
  <2>3. 0 .. MaxHits \subseteq T
    <3> HIDE DEF T
    <3> QED BY <1>0, <2>1, <2>2, LoopInduction
  <2> QED BY <2>3
<1>6. Scale = F[MaxHits]
  BY DEF Scale
<1> QED
  <2> HIDE DEF F
  <2>1. Divided(MaxHits, F[MaxHits])
    <3> HIDE DEF Divided
    <3> QED BY <1>0, <1>5
  <2>2. Divided(MaxHits, Scale)
    BY <1>6, <2>1
  <2> QED BY <2>2

(* The weight of a rank is positive, and less than that of each rank       *)
(* before it.                                                              *)
LEMMA WeightFalls ==
  /\ \A r \in 1 .. MaxHits : Weight(r) \in Nat /\ Weight(r) > 0
  /\ \A r \in 1 .. MaxHits : \A t \in 1 .. r - 1 : Weight(r) < Weight(t)
<1>0. MaxHits \in Nat /\ RrfK \in Nat
  BY RetrievalAssumption
<1>1. ASSUME NEW r \in 1 .. MaxHits
      PROVE  Weight(r) \in Nat /\ Weight(r) > 0 /\ Scale = Weight(r) * (RrfK + r)
  <2>1. PICK q \in Nat \ {0} : Scale = q * (RrfK + r)
    BY ScaleDivides
  <2> DEFINE c == RrfK + r
  <2>2. c \in Nat /\ c > 0
    BY <1>0
  <2>3. (q * c) \div c = q
    <3> HIDE DEF c
    <3> QED BY <2>2
  <2>4. Weight(r) = q
    BY <2>1, <2>3 DEF Weight
  <2> QED BY <2>1, <2>4
<1>2. ASSUME NEW r \in 1 .. MaxHits, NEW t \in 1 .. r - 1 PROVE Weight(r) < Weight(t)
  <2> DEFINE p == Weight(r)
             q == Weight(t)
             c == RrfK + r
             b == RrfK + t
  <2>1. p \in Nat /\ q \in Nat /\ q > 0 /\ q * b = p * c
    <3>1. t \in 1 .. MaxHits
      BY <1>0
    <3> QED BY <1>1, <3>1
  <2>2. b < c /\ b \in Nat /\ c \in Nat
    BY <1>0
  <2> HIDE DEF p, q, b, c
  <2>3. p < q
    BY <2>1, <2>2
  <2> QED BY <2>3 DEF p, q
<1> QED
  BY <1>1, <1>2

(* The terms of a key that stands at one place of a list, or at none.       *)
LEMMA TermsIs ==
  ASSUME NEW X, NEW list \in Seq(X), Len(list) <= MaxHits, NEW key
  PROVE  /\ Terms(list, key) \in Nat
         /\ (\A r \in DOMAIN list : list[r] # key) => Terms(list, key) = 0
         /\ \A t \in DOMAIN list :
              (\A r \in DOMAIN list : list[r] = key <=> r = t) =>
                Terms(list, key) = Weight(t)
<1> DEFINE N == Len(list)
           Def(f) == [r \in 0 .. Len(list) |->
             IF r = 0 THEN 0 ELSE f[r - 1] + IF list[r] = key THEN Weight(r) ELSE 0]
           step == [r \in 1 .. N |-> [s \in Nat |->
             s + IF list[r] = key THEN Weight(r) ELSE 0]]
           F == CHOOSE f : f = Def(f)
<1>0. N \in Nat /\ N <= MaxHits /\ MaxHits \in Nat /\ DOMAIN list = 1 .. N
  BY RetrievalAssumption
<1>w. \A r \in 1 .. N : Weight(r) \in Nat
  BY <1>0, WeightFalls
<1>1. IsLoop(N, Nat, 0, step)
  <2>1. ASSUME NEW r \in 1 .. N, NEW s \in Nat
        PROVE  s + (IF list[r] = key THEN Weight(r) ELSE 0) \in Nat
    BY <1>w
  <2> HIDE DEF N
  <2> QED BY <1>0, <2>1 DEF IsLoop
<1>2. \E f : f = Def(f)
  <2>1. PICK f : Computes(f, N, Nat, 0, step)
    <3> HIDE DEF step, N
    <3> QED BY <1>1, LoopExists
  <2>2. f \in [0 .. N -> Nat] /\ f[0] = 0 /\ \A n \in 1 .. N : f[n] = step[n][f[n - 1]]
    <3> HIDE DEF step, N
    <3> QED BY <2>1 DEF Computes
  <2>3. ASSUME NEW n \in 0 .. N PROVE f[n] = Def(f)[n]
    <3>1. CASE n = 0
      BY <2>2, <3>1
    <3>2. CASE n # 0
      <4>1. n \in 1 .. N /\ n - 1 \in 0 .. N
        BY <1>0, <3>2
      <4> QED BY <2>2, <3>2, <4>1
    <3> QED BY <3>1, <3>2
  <2>4. f = Def(f)
    BY <2>2, <2>3
  <2> QED BY <2>4
<1>3. F = Def(F)
  BY <1>2, Zenon
<1>4. /\ F[0] = 0
      /\ \A n \in 1 .. N : F[n] = F[n - 1] + IF list[n] = key THEN Weight(n) ELSE 0
  <2>1. ASSUME NEW f
        PROVE  /\ Def(f)[0] = 0
               /\ \A n \in 1 .. N :
                    Def(f)[n] = f[n - 1] + IF list[n] = key THEN Weight(n) ELSE 0
    BY <1>0
  <2> HIDE DEF F, Def
  <2> QED BY <1>3, <2>1
<1>5. \A n \in 0 .. N : F[n] \in Nat
  <2> HIDE DEF F, N
  <2>1. ASSUME NEW n \in 1 .. N, F[n - 1] \in Nat PROVE F[n] \in Nat
    BY <1>4, <1>w, <2>1
  <2>2. N \in Nat /\ F[0] \in Nat
    BY <1>0, <1>4
  <2> QED BY <2>1, <2>2, LoopStays
<1>6. Terms(list, key) = F[N]
  BY DEF Terms
<1>7. ASSUME \A r \in 1 .. N : list[r] # key PROVE F[N] = 0
  <2> DEFINE T == {n \in 0 .. N : F[n] = 0}
  <2> HIDE DEF F, N
  <2>1. 0 \in T
    BY <1>0, <1>4
  <2>2. ASSUME NEW n \in 1 .. N, n - 1 \in T PROVE n \in T
    BY <1>0, <1>4, <1>7, <2>2
  <2>3. 0 .. N \subseteq T
    <3> HIDE DEF T
    <3> QED BY <1>0, <2>1, <2>2, LoopInduction
  <2> QED BY <1>0, <2>3
<1>8. ASSUME NEW t \in 1 .. N, \A r \in 1 .. N : list[r] = key <=> r = t
      PROVE  F[N] = Weight(t)
  <2> DEFINE T == {n \in 0 .. N : F[n] = IF n < t THEN 0 ELSE Weight(t)}
  <2>w. Weight(t) \in Nat
    BY <1>w
  <2> HIDE DEF F, N
  <2>1. 0 \in T
    BY <1>0, <1>4
  <2>2. ASSUME NEW n \in 1 .. N, n - 1 \in T PROVE n \in T
    BY <1>0, <1>4, <1>8, <2>2, <2>w
  <2>3. 0 .. N \subseteq T
    <3> HIDE DEF T
    <3> QED BY <1>0, <2>1, <2>2, LoopInduction
  <2> QED BY <1>0, <2>3
<1> QED
  <2> HIDE DEF F, N
  <2> QED BY <1>0, <1>5, <1>6, <1>7, <1>8

(* A later place counts less, and no place least.                           *)
Credit(n, r) == IF r \in 1 .. n THEN Weight(r) ELSE 0

(* The later of two places counts no more, and less if the earlier is in   *)
(* the list.                                                               *)
LEMMA CreditFalls ==
  ASSUME NEW n \in 0 .. MaxHits, NEW r \in Nat \ {0}, NEW t \in Nat \ {0}, t <= r
  PROVE  /\ Credit(n, r) \in Nat /\ Credit(n, t) \in Nat
         /\ Credit(n, r) <= Credit(n, t)
         /\ t # r /\ t <= n => Credit(n, r) < Credit(n, t)
<1>0. MaxHits \in Nat
  BY RetrievalAssumption
<1>1. CASE t = r
  BY <1>0, <1>1, WeightFalls DEF Credit
<1>2. CASE t # r
  <2>1. r \in 1 .. n => t \in 1 .. r - 1 /\ r \in 1 .. MaxHits
    BY <1>0, <1>2
  <2>2. t \in 1 .. n => t \in 1 .. MaxHits
    BY <1>0
  <2>3. t <= n <=> t \in 1 .. n
    BY <1>0
  <2>4. r \in 1 .. n => t \in 1 .. n
    BY <1>0, <1>2
  <2> QED BY <2>1, <2>2, <2>3, <2>4, WeightFalls DEF Credit
<1> QED
  BY <1>1, <1>2

(* An entry of a list that is ranked.                                      *)
Hit == [doc : Doc \cup {NoText, Count}, score : Nat]

(* The loop that merges a list, and the one that makes it diverse, after   *)
(* each of their turns.                                                    *)
MergeLoop(list) ==
  CHOOSE kept : kept = [n \in 0 .. Len(list) |->
    IF n = 0 THEN <<>>
    ELSE IF \E k \in DOMAIN kept[n - 1] : kept[n - 1][k].doc = list[n].doc
         THEN kept[n - 1] ELSE Append(kept[n - 1], list[n])]

(* The cap per kind, after each of its turns.                              *)
DiverseLoop(list) ==
  CHOOSE kept : kept = [n \in 0 .. Len(list) |->
    IF n = 0 THEN <<>>
    ELSE IF Cardinality(OfKind(kept[n - 1], Kind(list[n].doc))) < SourceCap
         THEN Append(kept[n - 1], list[n]) ELSE kept[n - 1]]

(* The loop of Merge.                                                      *)
LEMMA MergeLoopIs ==
  ASSUME NEW list \in Seq(Hit)
  PROVE  LET kept == MergeLoop(list)
         IN  /\ Merge(list) = kept[Len(list)]
             /\ kept[0] = <<>>
             /\ \A n \in 1 .. Len(list) :
                  kept[n] = IF \E k \in DOMAIN kept[n - 1] : kept[n - 1][k].doc = list[n].doc
                            THEN kept[n - 1] ELSE Append(kept[n - 1], list[n])
             /\ \A n \in 0 .. Len(list) : kept[n] \in Seq(Hit)
<1> DEFINE N == Len(list)
           Turn1(n, s) == IF \E k \in DOMAIN s : s[k].doc = list[n].doc
                          THEN s ELSE Append(s, list[n])
           Def(f) == [n \in 0 .. Len(list) |->
             IF n = 0 THEN <<>>
             ELSE IF \E k \in DOMAIN f[n - 1] : f[n - 1][k].doc = list[n].doc
                  THEN f[n - 1] ELSE Append(f[n - 1], list[n])]
           step == [n \in 1 .. N |-> [s \in Seq(Hit) |-> Turn1(n, s)]]
           F == MergeLoop(list)
<1>0. N \in Nat
  OBVIOUS
<1>t. ASSUME NEW n \in 1 .. N, NEW s \in Seq(Hit) PROVE Turn1(n, s) \in Seq(Hit)
  <2>1. list[n] \in Hit
    OBVIOUS
  <2>2. Append(s, list[n]) \in Seq(Hit)
    BY <2>1
  <2> QED BY <2>2
<1>1. IsLoop(N, Seq(Hit), <<>>, step)
  <2> HIDE DEF Turn1, N
  <2> QED BY <1>0, <1>t DEF IsLoop
<1>2. \E f : f = Def(f)
  <2>1. PICK f : Computes(f, N, Seq(Hit), <<>>, step)
    <3> HIDE DEF step, N
    <3> QED BY <1>1, LoopExists
  <2>2. f \in [0 .. N -> Seq(Hit)] /\ f[0] = <<>> /\ \A n \in 1 .. N : f[n] = step[n][f[n - 1]]
    <3> HIDE DEF step, N
    <3> QED BY <2>1 DEF Computes
  <2>3. ASSUME NEW n \in 0 .. N PROVE f[n] = Def(f)[n]
    <3>1. CASE n = 0
      BY <2>2, <3>1
    <3>2. CASE n # 0
      <4>1. n \in 1 .. N /\ n - 1 \in 0 .. N
        BY <1>0, <3>2
      <4>2. f[n] = Turn1(n, f[n - 1])
        <5> HIDE DEF Turn1, N
        <5> QED BY <2>2, <4>1
      <4> QED BY <3>2, <4>1, <4>2
    <3> QED BY <3>1, <3>2
  <2>4. f = Def(f)
    BY <2>2, <2>3
  <2> QED BY <2>4
<1>3. F = Def(F)
  BY <1>2, Zenon DEF MergeLoop
<1>4. F[0] = <<>> /\ \A n \in 1 .. N : F[n] = Turn1(n, F[n - 1])
  <2>1. ASSUME NEW f PROVE Def(f)[0] = <<>> /\ \A n \in 1 .. N : Def(f)[n] = Turn1(n, f[n - 1])
    BY <1>0
  <2> HIDE DEF F, Def, Turn1, N
  <2> QED BY <1>3, <2>1
<1>5. \A n \in 0 .. N : F[n] \in Seq(Hit)
  <2> HIDE DEF F, N, Turn1
  <2>1. ASSUME NEW n \in 1 .. N, F[n - 1] \in Seq(Hit) PROVE F[n] \in Seq(Hit)
    BY <1>4, <1>t, <2>1
  <2>2. N \in Nat /\ F[0] \in Seq(Hit)
    BY <1>0, <1>4
  <2> QED BY <2>1, <2>2, LoopStays
<1>6. Merge(list) = F[N]
  BY DEF Merge, MergeLoop
<1> HIDE DEF F
<1> QED
  BY <1>4, <1>5, <1>6 DEF F

(* The loop of Diverse.                                                    *)
LEMMA DiverseLoopIs ==
  ASSUME NEW list \in Seq(Hit)
  PROVE  LET kept == DiverseLoop(list)
         IN  /\ Diverse(list) = kept[Len(list)]
             /\ kept[0] = <<>>
             /\ \A n \in 1 .. Len(list) :
                  kept[n] = IF Cardinality(OfKind(kept[n - 1], Kind(list[n].doc))) < SourceCap
                            THEN Append(kept[n - 1], list[n]) ELSE kept[n - 1]
             /\ \A n \in 0 .. Len(list) : kept[n] \in Seq(Hit)
<1> DEFINE N == Len(list)
           Turn1(n, s) == IF Cardinality(OfKind(s, Kind(list[n].doc))) < SourceCap
                          THEN Append(s, list[n]) ELSE s
           Def(f) == [n \in 0 .. Len(list) |->
             IF n = 0 THEN <<>>
             ELSE IF Cardinality(OfKind(f[n - 1], Kind(list[n].doc))) < SourceCap
                  THEN Append(f[n - 1], list[n]) ELSE f[n - 1]]
           step == [n \in 1 .. N |-> [s \in Seq(Hit) |-> Turn1(n, s)]]
           F == DiverseLoop(list)
<1>0. N \in Nat
  OBVIOUS
<1>t. ASSUME NEW n \in 1 .. N, NEW s \in Seq(Hit) PROVE Turn1(n, s) \in Seq(Hit)
  <2>1. list[n] \in Hit
    OBVIOUS
  <2>2. Append(s, list[n]) \in Seq(Hit)
    BY <2>1
  <2> QED BY <2>2
<1>1. IsLoop(N, Seq(Hit), <<>>, step)
  <2> HIDE DEF Turn1, N
  <2> QED BY <1>0, <1>t DEF IsLoop
<1>2. \E f : f = Def(f)
  <2>1. PICK f : Computes(f, N, Seq(Hit), <<>>, step)
    <3> HIDE DEF step, N
    <3> QED BY <1>1, LoopExists
  <2>2. f \in [0 .. N -> Seq(Hit)] /\ f[0] = <<>> /\ \A n \in 1 .. N : f[n] = step[n][f[n - 1]]
    <3> HIDE DEF step, N
    <3> QED BY <2>1 DEF Computes
  <2>3. ASSUME NEW n \in 0 .. N PROVE f[n] = Def(f)[n]
    <3>1. CASE n = 0
      BY <2>2, <3>1
    <3>2. CASE n # 0
      <4>1. n \in 1 .. N /\ n - 1 \in 0 .. N
        BY <1>0, <3>2
      <4>2. f[n] = Turn1(n, f[n - 1])
        <5> HIDE DEF Turn1, N
        <5> QED BY <2>2, <4>1
      <4> QED BY <3>2, <4>1, <4>2
    <3> QED BY <3>1, <3>2
  <2>4. f = Def(f)
    BY <2>2, <2>3
  <2> QED BY <2>4
<1>3. F = Def(F)
  BY <1>2, Zenon DEF DiverseLoop
<1>4. F[0] = <<>> /\ \A n \in 1 .. N : F[n] = Turn1(n, F[n - 1])
  <2>1. ASSUME NEW f PROVE Def(f)[0] = <<>> /\ \A n \in 1 .. N : Def(f)[n] = Turn1(n, f[n - 1])
    BY <1>0
  <2> HIDE DEF F, Def, Turn1, N
  <2> QED BY <1>3, <2>1
<1>5. \A n \in 0 .. N : F[n] \in Seq(Hit)
  <2> HIDE DEF F, N, Turn1
  <2>1. ASSUME NEW n \in 1 .. N, F[n - 1] \in Seq(Hit) PROVE F[n] \in Seq(Hit)
    BY <1>4, <1>t, <2>1
  <2>2. N \in Nat /\ F[0] \in Seq(Hit)
    BY <1>0, <1>4
  <2> QED BY <2>1, <2>2, LoopStays
<1>6. Diverse(list) = F[N]
  BY DEF Diverse, DiverseLoop
<1> HIDE DEF F
<1> QED
  BY <1>4, <1>5, <1>6 DEF F

(* An entry, the first, for every document of the first n.                  *)
Merged(s, list, n) ==
  /\ s \in Seq(Hit)
  /\ \A k \in 1 .. Len(s) : \E i \in 1 .. n : s[k] = list[i]
  /\ \A i \in 1 .. n : \E k \in 1 .. Len(s) : s[k].doc = list[i].doc
  /\ \A j, k \in 1 .. Len(s) : s[j].doc = s[k].doc => j = k

(* One more entry: a document that is there already adds none.             *)
LEMMA MergedMore ==
  ASSUME NEW list \in Seq(Hit), NEW n \in 1 .. Len(list), NEW s, Merged(s, list, n - 1)
  PROVE  IF \E k \in DOMAIN s : s[k].doc = list[n].doc
         THEN Merged(s, list, n) ELSE Merged(Append(s, list[n]), list, n)
<1> DEFINE e == list[n]
           m == Len(s)
           a == Append(s, e)
<1>0. /\ \A i \in 1 .. n : i = n \/ i \in 1 .. n - 1
      /\ \A i \in 1 .. n - 1 : i \in 1 .. n
      /\ n \in 1 .. n
  OBVIOUS
<1>1. s \in Seq(Hit) /\ m \in Nat /\ DOMAIN s = 1 .. m
  BY DEF Merged
<1>2. e \in Hit
  OBVIOUS
<1>3. CASE \E k \in DOMAIN s : s[k].doc = e.doc
  <2> HIDE DEF e
  <2>1. \A k \in 1 .. Len(s) : \E i \in 1 .. n : s[k] = list[i]
    BY <1>0 DEF Merged
  <2>2. \A i \in 1 .. n : \E k \in 1 .. Len(s) : s[k].doc = list[i].doc
    BY <1>0, <1>1, <1>3 DEF Merged, e
  <2>3. Merged(s, list, n)
    BY <1>1, <2>1, <2>2 DEF Merged
  <2> QED BY <1>3, <2>3 DEF e
<1>4. CASE ~\E k \in DOMAIN s : s[k].doc = e.doc
  <2>1. /\ a \in Seq(Hit) /\ Len(a) = m + 1
        /\ \A k \in 1 .. m : a[k] = s[k]
        /\ a[m + 1] = e
    BY <1>1, <1>2
  <2>2. /\ \A k \in 1 .. m + 1 : k \in 1 .. m \/ k = m + 1
        /\ \A k \in 1 .. m : k \in 1 .. m + 1
        /\ m + 1 \in 1 .. m + 1
    BY <1>1
  <2>3. /\ \A k \in 1 .. m : \E i \in 1 .. n - 1 : s[k] = list[i]
        /\ \A i \in 1 .. n - 1 : \E k \in 1 .. m : s[k].doc = list[i].doc
        /\ \A j, k \in 1 .. m : s[j].doc = s[k].doc => j = k
    BY DEF Merged
  <2>4. ASSUME NEW k \in 1 .. m + 1 PROVE \E i \in 1 .. n : a[k] = list[i]
    <3>1. CASE k = m + 1
      BY <1>0, <2>1, <3>1
    <3>2. CASE k # m + 1
      <4>1. k \in 1 .. m /\ a[k] = s[k]
        BY <2>1, <2>2, <3>2
      <4>2. PICK i \in 1 .. n - 1 : s[k] = list[i]
        BY <2>3, <4>1
      <4> HIDE DEF a
      <4> QED BY <1>0, <4>1, <4>2
    <3> QED BY <3>1, <3>2
  <2>5. ASSUME NEW i \in 1 .. n PROVE \E k \in 1 .. m + 1 : a[k].doc = list[i].doc
    <3>1. CASE i = n
      <4>1. a[m + 1] = list[i]
        BY <2>1, <3>1
      <4> HIDE DEF a, m
      <4> QED BY <2>2, <4>1
    <3>2. CASE i # n
      <4>1. PICK k \in 1 .. m : s[k].doc = list[i].doc
        BY <1>0, <2>3, <3>2
      <4>2. k \in 1 .. m + 1 /\ a[k] = s[k]
        BY <2>1, <2>2
      <4> HIDE DEF a, m
      <4> QED BY <4>1, <4>2
    <3> QED BY <3>1, <3>2
  <2>6. ASSUME NEW j \in 1 .. m + 1, NEW k \in 1 .. m + 1, a[j].doc = a[k].doc PROVE j = k
    <3>1. \A l \in 1 .. m : a[l].doc # e.doc
      <4>1. \A l \in 1 .. m : a[l] = s[l] /\ s[l].doc # e.doc
        BY <1>1, <1>4, <2>1
      <4> HIDE DEF a, m, e
      <4> QED BY <4>1
    <3>2. a[m + 1].doc = e.doc
      BY <2>1
    <3>3. \A l \in 1 .. m : a[l].doc = s[l].doc
      <4> HIDE DEF a, m
      <4> QED BY <2>1
    <3> HIDE DEF a, m, e
    <3> QED BY <2>2, <2>3, <2>6, <3>1, <3>2, <3>3
  <2>7. Merged(a, list, n)
    <3> HIDE DEF a, m
    <3> QED BY <2>1, <2>4, <2>5, <2>6 DEF Merged
  <2> QED BY <1>4, <2>7
<1> QED
  BY <1>3, <1>4

(* Merge keeps the first entry of every document.                           *)
LEMMA MergeIs ==
  ASSUME NEW list \in Seq(Hit)
  PROVE  Merged(Merge(list), list, Len(list))
<1> DEFINE N == Len(list)
           F == MergeLoop(list)
           T == {n \in 0 .. N : Merged(F[n], list, n)}
<1>0. N \in Nat
  OBVIOUS
<1>1. /\ Merge(list) = F[N] /\ F[0] = <<>>
      /\ \A n \in 1 .. N :
           F[n] = IF \E k \in DOMAIN F[n - 1] : F[n - 1][k].doc = list[n].doc
                  THEN F[n - 1] ELSE Append(F[n - 1], list[n])
  BY MergeLoopIs
<1>2. Merged(<<>>, list, 0)
  BY DEF Merged
<1>3. 0 \in T
  BY <1>0, <1>1, <1>2
<1>4. ASSUME NEW n \in 1 .. N, n - 1 \in T PROVE n \in T
  <2> DEFINE s == F[n - 1]
  <2>1. Merged(s, list, n - 1) /\ n \in 0 .. N
    BY <1>0, <1>4
  <2>2. F[n] = IF \E k \in DOMAIN s : s[k].doc = list[n].doc THEN s ELSE Append(s, list[n])
    BY <1>1
  <2> HIDE DEF s, F
  <2>3. IF \E k \in DOMAIN s : s[k].doc = list[n].doc
        THEN Merged(s, list, n) ELSE Merged(Append(s, list[n]), list, n)
    BY <2>1, MergedMore
  <2>4. Merged(F[n], list, n)
    BY <2>2, <2>3
  <2> QED BY <2>1, <2>4
<1>5. 0 .. N \subseteq T
  <2> HIDE DEF T, N
  <2> QED BY <1>0, <1>3, <1>4, LoopInduction
<1>6. Merged(F[N], list, N)
  <2> HIDE DEF F
  <2> QED BY <1>0, <1>5
<1> HIDE DEF F
<1> QED BY <1>1, <1>6

(* Where the entries of the sorted list were.                               *)
OldPlaces(list) ==
  [k \in DOMAIN list |-> CHOOSE i \in DOMAIN list : Cardinality(Ahead(list, i)) = k]

(* The entries ahead of one tell its place: of two entries one is ahead of *)
(* the other, and has fewer ahead of itself.                               *)
LEMMA AheadCounts ==
  ASSUME NEW list \in Seq(Hit), NEW i \in DOMAIN list
  PROVE  /\ Cardinality(Ahead(list, i)) \in DOMAIN list
         /\ \A j \in DOMAIN list :
              /\ i # j => (j \in Ahead(list, i) <=> i \notin Ahead(list, j))
              /\ i # j /\ j \in Ahead(list, i) =>
                   Cardinality(Ahead(list, j)) < Cardinality(Ahead(list, i))
<1> DEFINE n == Len(list)
           Score(j) == list[j].score
<1>0. n \in Nat /\ DOMAIN list = 1 .. n
  OBVIOUS
<1>1. \A j \in 1 .. n : Score(j) \in Nat
  <2>1. \A j \in 1 .. n : list[j] \in Hit
    OBVIOUS
  <2> QED BY <2>1 DEF Hit
<1>2. ASSUME NEW j \in 1 .. n
      PROVE  Ahead(list, j) = {l \in 1 .. n : Score(l) > Score(j) \/ (Score(l) = Score(j) /\ l <= j)}
  BY <1>0 DEF Ahead
<1> HIDE DEF n, Score
<1>3. ASSUME NEW j \in 1 .. n
      PROVE  /\ j \in Ahead(list, j) /\ Ahead(list, j) \in SUBSET (1 .. n)
             /\ IsFiniteSet(Ahead(list, j))
             /\ Cardinality(Ahead(list, j)) \in Nat
             /\ Cardinality(Ahead(list, j)) <= n
             /\ Cardinality(Ahead(list, j)) >= 1
  <2>1. j \in Ahead(list, j) /\ Ahead(list, j) \in SUBSET (1 .. n)
    BY <1>0, <1>1, <1>2
  <2>2. IsFiniteSet(1 .. n) /\ Cardinality(1 .. n) = n
    BY <1>0, FS_Interval
  <2>3. IsFiniteSet(Ahead(list, j)) /\ Cardinality(Ahead(list, j)) <= n
    BY <2>1, <2>2, FS_Subset
  <2>4. Cardinality(Ahead(list, j)) \in Nat
    BY <2>3, FS_CardinalityType
  <2>5. Cardinality(Ahead(list, j)) # 0
    BY <2>1, <2>3, FS_EmptySet
  <2> QED BY <2>1, <2>3, <2>4, <2>5
<1>4. Cardinality(Ahead(list, i)) \in DOMAIN list
  BY <1>0, <1>3
<1>5. ASSUME NEW j \in DOMAIN list, i # j
      PROVE  j \in Ahead(list, i) <=> i \notin Ahead(list, j)
  BY <1>0, <1>1, <1>2, <1>5
<1>6. ASSUME NEW j \in DOMAIN list, i # j, j \in Ahead(list, i)
      PROVE  Cardinality(Ahead(list, j)) < Cardinality(Ahead(list, i))
  <2>1. Ahead(list, j) \in SUBSET Ahead(list, i)
    BY <1>0, <1>1, <1>2, <1>6
  <2>2. Ahead(list, j) # Ahead(list, i)
    BY <1>0, <1>3, <1>5, <1>6
  <2>3. /\ Cardinality(Ahead(list, j)) <= Cardinality(Ahead(list, i))
        /\ Cardinality(Ahead(list, j)) # Cardinality(Ahead(list, i))
    BY <1>0, <1>3, <2>1, <2>2, FS_Subset
  <2> QED BY <1>0, <1>3, <2>3
<1> QED
  BY <1>4, <1>5, <1>6

(* The sort only moves the entries, and the better ones stand first.        *)
LEMMA SortIs ==
  ASSUME NEW list \in Seq(Hit)
  PROVE  /\ OldPlaces(list) \in [DOMAIN list -> DOMAIN list]
         /\ \A i \in DOMAIN list : \E k \in DOMAIN list : OldPlaces(list)[k] = i
         /\ \A j, k \in DOMAIN list : OldPlaces(list)[j] = OldPlaces(list)[k] => j = k
         /\ SortByScore(list) = [k \in DOMAIN list |-> list[OldPlaces(list)[k]]]
         /\ \A j, k \in DOMAIN list :
              j < k => list[OldPlaces(list)[j]].score >= list[OldPlaces(list)[k]].score
<1> DEFINE n == Len(list)
           D == DOMAIN list
           rank == [i \in D |-> Cardinality(Ahead(list, i))]
           p == OldPlaces(list)
<1>0. n \in Nat /\ D = 1 .. n
  OBVIOUS
<1>1. rank \in [D -> D]
  <2> HIDE DEF D
  <2> QED BY AheadCounts DEF D
<1>2. ASSUME NEW i \in D, NEW j \in D, i # j PROVE rank[i] # rank[j]
  <2>1. /\ Cardinality(Ahead(list, i)) \in D /\ Cardinality(Ahead(list, j)) \in D
        /\ (j \in Ahead(list, i) <=> i \notin Ahead(list, j))
        /\ j \in Ahead(list, i) => Cardinality(Ahead(list, j)) < Cardinality(Ahead(list, i))
        /\ i \in Ahead(list, j) => Cardinality(Ahead(list, i)) < Cardinality(Ahead(list, j))
    BY <1>2, AheadCounts
  <2> HIDE DEF D
  <2>2. Cardinality(Ahead(list, i)) \in Nat /\ Cardinality(Ahead(list, j)) \in Nat
    BY <1>0, <2>1
  <2> QED BY <2>1, <2>2
<1>3. rank \in Surjection(D, D)
  <2> HIDE DEF rank, D
  <2>1. rank \in Injection(D, D)
    BY <1>1, <1>2 DEF Injection, IsInjective
  <2>2. IsFiniteSet(D)
    BY <1>0, FS_Interval
  <2> QED BY <2>1, <2>2, FS_Injection
<1>4. ASSUME NEW k \in D PROVE p[k] \in D /\ rank[p[k]] = k
  <2>1. \E i \in D : rank[i] = k
    <3> HIDE DEF rank, D
    <3> QED BY <1>3 DEF Surjection
  <2>2. p[k] = CHOOSE i \in D : rank[i] = k
    <3>1. p[k] = CHOOSE i \in D : Cardinality(Ahead(list, i)) = k
      BY DEF OldPlaces
    <3>2. \A i \in D : rank[i] = Cardinality(Ahead(list, i))
      OBVIOUS
    <3> HIDE DEF rank, D, p
    <3> QED BY <3>1, <3>2
  <2> HIDE DEF rank, D, p
  <2> QED BY <2>1, <2>2
<1>5. p \in [D -> D]
  <2>1. p = [k \in D |-> p[k]]
    BY DEF OldPlaces
  <2> HIDE DEF p, D
  <2> QED BY <1>4, <2>1
<1>6. \A i \in D : \E k \in D : p[k] = i
  <2> SUFFICES ASSUME NEW i \in D PROVE p[rank[i]] = i /\ rank[i] \in D
    <3> HIDE DEF p, rank, D
    <3> QED OBVIOUS
  <2> HIDE DEF p, rank, D
  <2>1. rank[i] \in D
    BY <1>1
  <2> QED BY <1>2, <1>4, <2>1
<1>7. \A j, k \in D : p[j] = p[k] => j = k
  <2> HIDE DEF p, rank, D
  <2> QED BY <1>4
<1>8. SortByScore(list) = [k \in D |-> list[p[k]]]
  BY DEF SortByScore, OldPlaces
<1>9. ASSUME NEW j \in D, NEW k \in D, j < k PROVE list[p[j]].score >= list[p[k]].score
  <2>1. rank[p[j]] = j /\ rank[p[k]] = k /\ p[j] \in D /\ p[k] \in D
    <3> HIDE DEF p, rank, D
    <3> QED BY <1>4
  <2> DEFINE x == p[j]
             y == p[k]
  <2> HIDE DEF x, y
  <2>2. x \in D /\ y \in D /\ Cardinality(Ahead(list, x)) < Cardinality(Ahead(list, y))
    BY <1>9, <2>1 DEF x, y
  <2>3. x \in Ahead(list, y)
    <3>1. CASE x = y
      <4> HIDE DEF D
      <4>1. j = k
        BY <2>1, <3>1 DEF x, y
      <4> QED BY <1>0, <1>9, <4>1
    <3>2. CASE x # y
      <4>1. ~(y \in Ahead(list, x))
        <5>1. y \in Ahead(list, x) => Cardinality(Ahead(list, y)) < Cardinality(Ahead(list, x))
          BY <2>2, <3>2, AheadCounts
        <5>2. Cardinality(Ahead(list, y)) \in Nat /\ Cardinality(Ahead(list, x)) \in Nat
          BY <2>2, <1>0, AheadCounts
        <5> QED BY <2>2, <5>1, <5>2
      <4> QED BY <2>2, <3>2, <4>1, AheadCounts
    <3> QED BY <3>1, <3>2
  <2>4. list[x] \in Hit /\ list[y] \in Hit
    BY <2>2
  <2>5. list[x].score >= list[y].score
    <3>1. list[x].score > list[y].score \/ list[x].score = list[y].score
      BY <2>3 DEF Ahead
    <3> QED BY <2>4, <3>1 DEF Hit
  <2> QED BY <2>5 DEF x, y
<1> HIDE DEF p
<1> QED
  BY <1>5, <1>6, <1>7, <1>8, <1>9 DEF p

(* No entry scores more than one before it.                                 *)
Falls(s) == \A j, k \in 1 .. Len(s) : j < k => s[j].score >= s[k].score

(* The places of a kind are finitely many.                                 *)
LEMMA OfKindFinite ==
  ASSUME NEW s \in Seq(Hit), NEW kind
  PROVE  /\ IsFiniteSet(OfKind(s, kind)) /\ Cardinality(OfKind(s, kind)) \in Nat
         /\ OfKind(s, kind) = {k \in 1 .. Len(s) : Kind(s[k].doc) = kind}
<1>1. OfKind(s, kind) = {k \in 1 .. Len(s) : Kind(s[k].doc) = kind}
  BY DEF OfKind
<1>2. OfKind(s, kind) \in SUBSET (1 .. Len(s)) /\ Len(s) \in Nat
  BY <1>1
<1>3. IsFiniteSet(OfKind(s, kind))
  <2>1. IsFiniteSet(1 .. Len(s))
    BY <1>2, FS_Interval
  <2> QED BY <1>2, <2>1, FS_Subset
<1> QED
  BY <1>1, <1>3, FS_CardinalityType

(* One more entry is one more of its own kind.                             *)
LEMMA OfKindMore ==
  ASSUME NEW s \in Seq(Hit), NEW e \in Hit, NEW kind
  PROVE  Cardinality(OfKind(Append(s, e), kind)) =
           IF Kind(e.doc) = kind THEN Cardinality(OfKind(s, kind)) + 1
           ELSE Cardinality(OfKind(s, kind))
<1> DEFINE m == Len(s)
           a == Append(s, e)
<1>1. /\ m \in Nat /\ a \in Seq(Hit) /\ Len(a) = m + 1
      /\ \A k \in 1 .. m : a[k] = s[k]
      /\ a[m + 1] = e
      /\ 1 .. m + 1 = (1 .. m) \cup {m + 1} /\ m + 1 \notin 1 .. m
  OBVIOUS
<1>2. /\ OfKind(s, kind) = {k \in 1 .. m : Kind(s[k].doc) = kind}
      /\ OfKind(a, kind) = {k \in 1 .. m + 1 : Kind(a[k].doc) = kind}
      /\ IsFiniteSet(OfKind(s, kind))
  <2> HIDE DEF a
  <2> QED BY <1>1, OfKindFinite
<1> HIDE DEF a, m
<1>3. CASE Kind(e.doc) = kind
  <2>1. OfKind(a, kind) = OfKind(s, kind) \cup {m + 1} /\ m + 1 \notin OfKind(s, kind)
    BY <1>1, <1>2, <1>3
  <2>2. Cardinality(OfKind(a, kind)) = Cardinality(OfKind(s, kind)) + 1
    BY <1>2, <2>1, FS_AddElement
  <2> QED BY <1>3, <2>2 DEF a
<1>4. CASE Kind(e.doc) # kind
  <2>1. OfKind(a, kind) = OfKind(s, kind)
    BY <1>1, <1>2, <1>4
  <2> QED BY <1>4, <2>1 DEF a
<1> QED
  BY <1>3, <1>4

(* What the cap has let through of the first n.                             *)
Kept(s, list, n) ==
  /\ s \in Seq(Hit)
  /\ \A k \in 1 .. Len(s) : \E i \in 1 .. n : s[k] = list[i]
  /\ Falls(s)
  /\ \A kind : Cardinality(OfKind(s, kind)) <= SourceCap

(* One more entry: it is let through while its kind is below the cap.      *)
LEMMA KeptMore ==
  ASSUME NEW list \in Seq(Hit), Falls(list), NEW n \in 1 .. Len(list),
         NEW s, Kept(s, list, n - 1)
  PROVE  IF Cardinality(OfKind(s, Kind(list[n].doc))) < SourceCap
         THEN Kept(Append(s, list[n]), list, n) ELSE Kept(s, list, n)
<1> DEFINE e == list[n]
           m == Len(s)
           a == Append(s, e)
<1>0. /\ s \in Seq(Hit) /\ e \in Hit /\ m \in Nat
      /\ \A i \in 1 .. n - 1 : i \in 1 .. n /\ i \in 1 .. Len(list) /\ i < n
      /\ n \in 1 .. n
  BY DEF Kept
<1>1. CASE ~(Cardinality(OfKind(s, Kind(e.doc))) < SourceCap)
  <2>1. \A k \in 1 .. Len(s) : \E i \in 1 .. n : s[k] = list[i]
    BY <1>0 DEF Kept
  <2>2. Kept(s, list, n)
    BY <2>1 DEF Kept
  <2> QED BY <1>1, <2>2
<1>2. CASE Cardinality(OfKind(s, Kind(e.doc))) < SourceCap
  <2>1. /\ a \in Seq(Hit) /\ Len(a) = m + 1
        /\ \A k \in 1 .. m : a[k] = s[k]
        /\ a[m + 1] = e
    BY <1>0
  <2>2. \A k \in 1 .. m : \E i \in 1 .. n - 1 : s[k] = list[i]
    BY DEF Kept
  <2>3. \A k \in 1 .. m + 1 : k \in 1 .. m \/ k = m + 1
    BY <1>0
  <2>4. \A k \in 1 .. m + 1 : \E i \in 1 .. n : a[k] = list[i]
    <3> SUFFICES ASSUME NEW k \in 1 .. m + 1 PROVE \E i \in 1 .. n : a[k] = list[i]
      OBVIOUS
    <3>1. CASE k = m + 1
      BY <1>0, <2>1, <3>1
    <3>2. CASE k \in 1 .. m
      <4>1. PICK i \in 1 .. n - 1 : s[k] = list[i]
        BY <2>2, <3>2
      <4>2. a[k] = s[k]
        BY <2>1, <3>2
      <4> HIDE DEF a
      <4> QED BY <1>0, <4>1, <4>2
    <3> QED BY <2>3, <3>1, <3>2
  <2>5. \A j, k \in 1 .. m + 1 : j < k => a[j].score >= a[k].score
    <3> SUFFICES ASSUME NEW j \in 1 .. m + 1, NEW k \in 1 .. m + 1, j < k
                 PROVE  a[j].score >= a[k].score
      OBVIOUS
    <3>0. j \in 1 .. m /\ a[j] = s[j]
      <4>1. j \in 1 .. m
        BY <1>0
      <4> HIDE DEF a
      <4> QED BY <2>1, <4>1
    <3>1. CASE k = m + 1
      <4>1. PICK i \in 1 .. n - 1 : s[j] = list[i]
        BY <2>2, <3>0
      <4>2. list[i].score >= list[n].score
        BY <1>0 DEF Falls
      <4>3. a[k] = list[n]
        BY <2>1, <3>1
      <4> HIDE DEF a
      <4> QED BY <3>0, <4>1, <4>2, <4>3
    <3>2. CASE k \in 1 .. m
      <4>1. a[k] = s[k]
        BY <2>1, <3>2
      <4>2. s[j].score >= s[k].score
        BY <3>0, <3>2 DEF Kept, Falls
      <4> HIDE DEF a
      <4> QED BY <3>0, <4>1, <4>2
    <3> QED BY <2>3, <3>1, <3>2
  <2>6. ASSUME NEW kind PROVE Cardinality(OfKind(a, kind)) <= SourceCap
    <3> HIDE DEF a, e
    <3>1. Cardinality(OfKind(s, kind)) <= SourceCap /\ Cardinality(OfKind(s, kind)) \in Nat
      BY <1>0, OfKindFinite DEF Kept
    <3>2. Cardinality(OfKind(a, kind)) = IF Kind(e.doc) = kind THEN Cardinality(OfKind(s, kind)) + 1
           ELSE Cardinality(OfKind(s, kind))
      BY <1>0, OfKindMore DEF a
    <3>3. SourceCap \in Nat
      BY RetrievalAssumption
    <3> QED BY <1>2, <3>1, <3>2, <3>3
  <2>7. Kept(a, list, n)
    <3> HIDE DEF a
    <3> QED BY <2>1, <2>4, <2>5, <2>6 DEF Kept, Falls
  <2> QED BY <1>2, <2>7
<1> QED
  BY <1>1, <1>2

(* A list goes on as another.                                              *)
Prefix(s, t) == Len(s) <= Len(t) /\ \A k \in 1 .. Len(s) : t[k] = s[k]

(* Whatever an entry is left out for stands before it and fills the cap.    *)
CrowdedOut(d, e) ==
  \E m \in 0 .. Len(d) :
    /\ \A k \in 1 .. m : d[k].score >= e.score
    /\ Cardinality({k \in 1 .. m : Kind(d[k].doc) = Kind(e.doc)}) = SourceCap

(* What the cap lets through, and whom the rest was left out for.          *)
LEMMA DiverseIs ==
  ASSUME NEW list \in Seq(Hit), Falls(list)
  PROVE  /\ Kept(Diverse(list), list, Len(list))
         /\ \A i \in 1 .. Len(list) :
              \/ \E k \in 1 .. Len(Diverse(list)) : Diverse(list)[k] = list[i]
              \/ CrowdedOut(Diverse(list), list[i])
<1> DEFINE N == Len(list)
           F == DiverseLoop(list)
<1>0. N \in Nat
  OBVIOUS
<1>1. /\ Diverse(list) = F[N] /\ F[0] = <<>>
      /\ \A n \in 1 .. N :
           F[n] = IF Cardinality(OfKind(F[n - 1], Kind(list[n].doc))) < SourceCap
                  THEN Append(F[n - 1], list[n]) ELSE F[n - 1]
      /\ \A n \in 0 .. N : F[n] \in Seq(Hit)
  BY DiverseLoopIs
<1> HIDE DEF F
<1>2. \A n \in 0 .. N : Kept(F[n], list, n)
  <2> DEFINE T == {n \in 0 .. N : Kept(F[n], list, n)}
  <2>1. 0 \in T
    <3>1. ASSUME NEW s, s = <<>> PROVE Kept(s, list, 0)
      <4>1. s \in Seq(Hit) /\ Len(s) = 0
        BY <3>1
      <4>2. ASSUME NEW kind PROVE Cardinality(OfKind(s, kind)) <= SourceCap
        <5>1. OfKind(s, kind) = {}
          <6>1. DOMAIN s = {}
            BY <3>1
          <6> QED BY <6>1 DEF OfKind
        <5>2. SourceCap \in Nat
          BY RetrievalAssumption
        <5>3. Cardinality({}) = 0
          BY FS_EmptySet
        <5> QED BY <5>1, <5>2, <5>3
      <4> QED BY <4>1, <4>2 DEF Kept, Falls
    <3> QED BY <1>0, <1>1, <3>1
  <2>2. ASSUME NEW n \in 1 .. N, n - 1 \in T PROVE n \in T
    <3> DEFINE s == F[n - 1]
    <3>1. Kept(s, list, n - 1) /\ n \in 0 .. N
      BY <1>0, <2>2
    <3>2. F[n] = IF Cardinality(OfKind(s, Kind(list[n].doc))) < SourceCap
                 THEN Append(s, list[n]) ELSE s
      BY <1>1
    <3> HIDE DEF s
    <3>3. IF Cardinality(OfKind(s, Kind(list[n].doc))) < SourceCap
          THEN Kept(Append(s, list[n]), list, n) ELSE Kept(s, list, n)
      BY <3>1, KeptMore
    <3>4. Kept(F[n], list, n)
      BY <3>2, <3>3
    <3> QED BY <3>1, <3>4
  <2>3. 0 .. N \subseteq T
    <3> HIDE DEF T, N
    <3> QED BY <1>0, <2>1, <2>2, LoopInduction
  <2> QED BY <2>3
<1>3. ASSUME NEW i \in 0 .. N PROVE Prefix(F[i], F[N])
  <2> DEFINE T == {n \in 0 .. N : i <= n => Prefix(F[i], F[n])}
  <2>1. 0 \in T
    BY <1>0, <1>1 DEF Prefix
  <2>2. ASSUME NEW n \in 1 .. N, n - 1 \in T PROVE n \in T
    <3>0. n \in 0 .. N /\ n - 1 \in 0 .. N
      BY <1>0
    <3>1. CASE i = n
      <4>1. F[i] \in Seq(Hit)
        BY <1>1
      <4> QED BY <3>0, <3>1, <4>1 DEF Prefix
    <3>2. CASE i < n
      <4> DEFINE s == F[n - 1]
                 t == F[i]
      <4>1. s \in Seq(Hit) /\ t \in Seq(Hit) /\ Prefix(t, s)
        BY <1>1, <2>2, <3>0, <3>2
      <4>2. F[n] = s \/ F[n] = Append(s, list[n])
        BY <1>1
      <4> HIDE DEF s, t
      <4>3. list[n] \in Hit
        OBVIOUS
      <4>4. Prefix(t, Append(s, list[n]))
        <5>1. /\ Len(Append(s, list[n])) = Len(s) + 1 /\ Len(s) \in Nat /\ Len(t) \in Nat
              /\ \A k \in 1 .. Len(s) : Append(s, list[n])[k] = s[k]
          BY <4>1, <4>3
        <5> QED BY <4>1, <5>1 DEF Prefix
      <4>5. Prefix(t, F[n])
        BY <4>1, <4>2, <4>4
      <4> QED BY <3>0, <4>5 DEF t
    <3>3. CASE n < i
      BY <3>0, <3>3
    <3> QED BY <3>1, <3>2, <3>3
  <2>3. 0 .. N \subseteq T
    <3> HIDE DEF T, N
    <3> QED BY <1>0, <2>1, <2>2, LoopInduction
  <2> QED BY <1>0, <2>3
<1>4. ASSUME NEW i \in 1 .. N
      PROVE  \/ \E k \in 1 .. Len(F[N]) : F[N][k] = list[i]
             \/ CrowdedOut(F[N], list[i])
  <2> DEFINE s == F[i - 1]
             d == F[N]
             e == list[i]
  <2>1. /\ s \in Seq(Hit) /\ d \in Seq(Hit) /\ Kept(s, list, i - 1)
        /\ Prefix(s, d) /\ Prefix(F[i], d) /\ e \in Hit
    <3>1. i \in 0 .. N /\ i - 1 \in 0 .. N /\ N \in 0 .. N
      BY <1>0
    <3>2. e \in Hit
      OBVIOUS
    <3> HIDE DEF N, e
    <3> QED BY <1>1, <1>2, <1>3, <3>1, <3>2
  <2>2. F[i] = IF Cardinality(OfKind(s, Kind(e.doc))) < SourceCap THEN Append(s, e) ELSE s
    BY <1>1
  <2>3. CASE Cardinality(OfKind(s, Kind(e.doc))) < SourceCap
    <3> HIDE DEF s, d, e
    <3>1. Prefix(Append(s, e), d)
      BY <2>1, <2>2, <2>3
    <3>2. Len(Append(s, e)) = Len(s) + 1 /\ Append(s, e)[Len(s) + 1] = e /\ Len(s) \in Nat
          /\ Len(d) \in Nat
      BY <2>1
    <3>3. Len(s) + 1 \in 1 .. Len(d) /\ d[Len(s) + 1] = e
      BY <3>1, <3>2 DEF Prefix
    <3> QED BY <3>3 DEF d, e
  <2>4. CASE ~(Cardinality(OfKind(s, Kind(e.doc))) < SourceCap)
    <3>1. \A k \in 1 .. Len(s) : s[k].score >= e.score
      <4> SUFFICES ASSUME NEW k \in 1 .. Len(s) PROVE s[k].score >= e.score
        OBVIOUS
      <4>1. PICK j \in 1 .. i - 1 : s[k] = list[j]
        BY <2>1 DEF Kept
      <4>2. list[j].score >= list[i].score
        BY <1>0 DEF Falls
      <4> HIDE DEF s
      <4> QED BY <4>1, <4>2
    <3> HIDE DEF s, d, e
    <3>2. Len(s) \in 0 .. Len(d) /\ \A k \in 1 .. Len(s) : d[k] = s[k]
      BY <2>1 DEF Prefix
    <3>3. {k \in 1 .. Len(s) : Kind(d[k].doc) = Kind(e.doc)} = OfKind(s, Kind(e.doc))
      <4>1. OfKind(s, Kind(e.doc)) = {k \in 1 .. Len(s) : Kind(s[k].doc) = Kind(e.doc)}
        BY <2>1, OfKindFinite
      <4> QED BY <3>2, <4>1
    <3>4. Cardinality(OfKind(s, Kind(e.doc))) = SourceCap
      <4>1. Cardinality(OfKind(s, Kind(e.doc))) \in Nat
        BY <2>1, OfKindFinite
      <4>2. Cardinality(OfKind(s, Kind(e.doc))) <= SourceCap /\ SourceCap \in Nat
        BY <2>1, RetrievalAssumption DEF Kept
      <4> QED BY <2>4, <4>1, <4>2
    <3>5. \A k \in 1 .. Len(s) : d[k].score >= e.score
      BY <3>1, <3>2
    <3>6. CrowdedOut(d, e)
      BY <3>2, <3>3, <3>4, <3>5 DEF CrowdedOut
    <3> QED BY <3>6 DEF d, e
  <2> QED BY <2>3, <2>4
<1>5. Kept(F[N], list, N) /\ Diverse(list) = F[N]
  BY <1>0, <1>1, <1>2
<1> QED
  BY <1>4, <1>5

(* FlattenSeq joins the sequences one after the other.                      *)
LEMMA FlattenIs ==
  ASSUME NEW S, NEW seqs \in Seq(Seq(S))
  PROVE  \E g \in [0 .. Len(seqs) -> Seq(S)] :
           /\ g[0] = <<>>
           /\ \A i \in 1 .. Len(seqs) : g[i] = g[i - 1] \o seqs[i]
           /\ FlattenSeq(seqs) = g[Len(seqs)]
<1> DEFINE n == Len(seqs)
           Def(f) == [i \in 1 .. Len(seqs) |-> IF i = 1 THEN seqs[i] ELSE f[i - 1] \o seqs[i]]
           F == CHOOSE f : f = Def(f)
           step == [i \in 1 .. n |-> [s \in Seq(S) |-> s \o seqs[i]]]
<1>0. n \in Nat
  OBVIOUS
<1>e. <<>> \in Seq(S) /\ \A i \in 1 .. n : seqs[i] \in Seq(S) /\ <<>> \o seqs[i] = seqs[i]
  <2>1. \A i \in 1 .. n : seqs[i] \in Seq(S)
    OBVIOUS
  <2>2. \A s \in Seq(S) : <<>> \o s = s
    OBVIOUS
  <2> QED BY <2>1, <2>2
<1>1. IsLoop(n, Seq(S), <<>>, step)
  <2>1. ASSUME NEW i \in 1 .. n, NEW s \in Seq(S) PROVE s \o seqs[i] \in Seq(S)
    BY <1>e
  <2> HIDE DEF n
  <2> QED BY <1>0, <1>e, <2>1 DEF IsLoop
<1>2. PICK h : h \in [0 .. n -> Seq(S)] /\ h[0] = <<>> /\ \A i \in 1 .. n : h[i] = h[i - 1] \o seqs[i]
  <2>1. PICK f : Computes(f, n, Seq(S), <<>>, step)
    <3> HIDE DEF step, n
    <3> QED BY <1>1, LoopExists
  <2>2. f \in [0 .. n -> Seq(S)] /\ f[0] = <<>> /\ \A i \in 1 .. n : f[i] = step[i][f[i - 1]]
    <3> HIDE DEF step, n
    <3> QED BY <2>1 DEF Computes
  <2>3. ASSUME NEW i \in 1 .. n PROVE f[i] = f[i - 1] \o seqs[i]
    <3>1. i - 1 \in 0 .. n
      BY <1>0
    <3>2. f[i - 1] \in Seq(S)
      BY <2>2, <3>1
    <3> HIDE DEF n
    <3> QED BY <2>2, <3>2
  <2> QED BY <2>2, <2>3
<1>3. \E f : f = Def(f)
  <2> DEFINE f == [i \in 1 .. n |-> h[i]]
  <2>1. ASSUME NEW i \in 1 .. n PROVE f[i] = Def(f)[i]
    <3>1. CASE i = 1
      <4>1. h[1] = h[0] \o seqs[1]
        <5>1. 1 \in 1 .. n /\ 1 - 1 = 0
          BY <1>0, <3>1
        <5> HIDE DEF n
        <5> QED BY <1>2, <5>1
      <4>2. h[1] = seqs[1]
        <5> HIDE DEF n
        <5> QED BY <1>2, <1>e, <3>1, <4>1
      <4> QED BY <3>1, <4>2
    <3>2. CASE i # 1
      <4>1. i - 1 \in 1 .. n
        BY <1>0, <3>2
      <4>2. h[i] = h[i - 1] \o seqs[i]
        <5> HIDE DEF n
        <5> QED BY <1>2
      <4> QED BY <3>2, <4>1, <4>2
    <3> QED BY <3>1, <3>2
  <2>2. f = Def(f)
    BY <2>1
  <2> QED BY <2>2
<1>4. F = Def(F)
  BY <1>3, Zenon
<1>5. /\ n >= 1 => F[1] = seqs[1]
      /\ \A i \in 2 .. n : F[i] = F[i - 1] \o seqs[i]
  <2>1. ASSUME NEW i \in 1 .. n, NEW f
        PROVE  Def(f)[i] = IF i = 1 THEN seqs[i] ELSE f[i - 1] \o seqs[i]
    OBVIOUS
  <2>2. ASSUME NEW i \in 1 .. n
        PROVE  F[i] = IF i = 1 THEN seqs[i] ELSE F[i - 1] \o seqs[i]
    <3> HIDE DEF F, Def, n
    <3> QED BY <1>4, <2>1
  <2>3. n >= 1 => 1 \in 1 .. n
    BY <1>0
  <2>4. \A i \in 2 .. n : i \in 1 .. n /\ i # 1
    BY <1>0
  <2> HIDE DEF F, n
  <2> QED BY <2>2, <2>3, <2>4
<1>6. FlattenSeq(seqs) = IF n = 0 THEN <<>> ELSE F[n]
  <2>1. n = 0 => seqs = <<>>
    OBVIOUS
  <2>2. n # 0 => FlattenSeq(seqs) = F[n]
    BY DEF FlattenSeq
  <2>3. n = 0 => FlattenSeq(seqs) = seqs
    BY DEF FlattenSeq
  <2> QED BY <2>1, <2>2, <2>3
<1> DEFINE g == [i \in 0 .. n |-> IF i = 0 THEN <<>> ELSE F[i]]
<1> HIDE DEF F
<1>7. /\ g[0] = <<>> /\ FlattenSeq(seqs) = g[n]
      /\ \A i \in 1 .. n : g[i] = g[i - 1] \o seqs[i]
  <2>1. g[0] = <<>> /\ g[n] = IF n = 0 THEN <<>> ELSE F[n]
    BY <1>0
  <2>2. ASSUME NEW i \in 1 .. n PROVE g[i] = g[i - 1] \o seqs[i]
    <3>1. g[i] = F[i] /\ g[i - 1] = IF i = 1 THEN <<>> ELSE F[i - 1]
      BY <1>0
    <3>2. i = 1 \/ i \in 2 .. n
      BY <1>0
    <3> HIDE DEF g, n
    <3>3. CASE i = 1
      <4>1. n >= 1
        BY <1>0, <3>3
      <4> QED BY <1>5, <1>e, <3>1, <3>3, <4>1
    <3>4. CASE i \in 2 .. n
      <4>1. i # 1
        BY <3>4
      <4> QED BY <1>5, <3>1, <3>4, <4>1
    <3> QED BY <3>2, <3>3, <3>4
  <2> HIDE DEF g
  <2> QED BY <1>6, <2>1, <2>2
<1>8. \A i \in 0 .. n : g[i] \in Seq(S)
  <2> HIDE DEF g, n
  <2>1. ASSUME NEW i \in 1 .. n, g[i - 1] \in Seq(S) PROVE g[i] \in Seq(S)
    <3>1. g[i] = g[i - 1] \o seqs[i] /\ seqs[i] \in Seq(S)
      BY <1>7, <1>e
    <3>2. \A s, t \in Seq(S) : s \o t \in Seq(S)
      OBVIOUS
    <3> QED BY <2>1, <3>1, <3>2
  <2>2. g[0] \in Seq(S)
    BY <1>7, <1>e
  <2> QED BY <1>0, <2>1, <2>2, LoopStays
<1>9. g \in [0 .. n -> Seq(S)]
  <2>1. g = [i \in 0 .. n |-> g[i]]
    OBVIOUS
  <2> HIDE DEF g
  <2> QED BY <1>8, <2>1
<1> HIDE DEF g
<1> QED
  BY <1>7, <1>9

(* The lists of a list, one after the other, are a list.                   *)
LEMMA FlattenType ==
  ASSUME NEW S, NEW seqs \in Seq(Seq(S))
  PROVE  FlattenSeq(seqs) \in Seq(S)
<1>1. PICK g \in [0 .. Len(seqs) -> Seq(S)] : FlattenSeq(seqs) = g[Len(seqs)]
  BY FlattenIs
<1>2. Len(seqs) \in 0 .. Len(seqs)
  OBVIOUS
<1> QED
  BY <1>1, <1>2

(* A list has a key once at most, no document twice.                        *)
Once(list, key) == \A i, j \in 1 .. Len(list) : list[i] = key /\ list[j] = key => i = j

(* A list has no document twice.                                           *)
Distinct(list) == \A j, k \in 1 .. Len(list) : list[j].doc = list[k].doc => j = k

(* Two lists have the same entries.                                        *)
Rearranged(s, list) ==
  /\ s \in Seq(Hit) /\ Len(s) = Len(list)
  /\ \A k \in 1 .. Len(list) : \E i \in 1 .. Len(list) : s[k] = list[i]
  /\ \A i \in 1 .. Len(list) : \E k \in 1 .. Len(list) : s[k] = list[i]

(* The terms of a key by its rank.                                          *)
LEMMA TermsCredit ==
  ASSUME NEW X, NEW list \in Seq(X), Len(list) <= MaxHits, NEW key, Once(list, key)
  PROVE  /\ RankIn(list, key) \in 1 .. Len(list) + 1
         /\ Terms(list, key) = Credit(Len(list), RankIn(list, key))
<1>0. DOMAIN list = 1 .. Len(list) /\ Len(list) \in Nat
  OBVIOUS
<1>1. CASE \E t \in DOMAIN list : list[t] = key
  <2>1. PICK t \in DOMAIN list : list[t] = key
    BY <1>1
  <2>2. \A r \in DOMAIN list : list[r] = key <=> r = t
    BY <1>0, <2>1 DEF Once
  <2>3. key \in ToSet(list)
    BY <2>1 DEF ToSet
  <2>4. RankIn(list, key) = t
    <3>1. RankIn(list, key) = CHOOSE r \in DOMAIN list : list[r] = key
      BY <2>3 DEF RankIn
    <3> QED BY <2>2, <3>1
  <2>5. Terms(list, key) = Weight(t)
    BY <2>2, TermsIs
  <2> QED BY <1>0, <2>4, <2>5 DEF Credit
<1>2. CASE \A t \in DOMAIN list : list[t] # key
  <2>1. key \notin ToSet(list)
    BY <1>2 DEF ToSet
  <2>2. RankIn(list, key) = Len(list) + 1
    BY <2>1 DEF RankIn
  <2>3. Terms(list, key) = 0
    BY <1>2, TermsIs
  <2>4. Len(list) + 1 \notin 1 .. Len(list)
    BY <1>0
  <2> QED BY <1>0, <2>2, <2>3, <2>4 DEF Credit
<1> QED
  BY <1>1, <1>2

(* A ranking has every document once at most.                              *)
LEMMA RankingIs ==
  ASSUME NEW r \in Ranking
  PROVE  /\ r \in Seq(Doc) /\ Len(r) \in 0 .. MaxHits /\ Len(r) <= MaxHits
         /\ \A key : Once(r, key)
<1>1. MaxHits \in Nat
  BY RetrievalAssumption
<1>2. PICK n \in 0 .. MaxHits : r \in [1 .. n -> Doc]
  BY DEF Ranking
<1>3. r \in Seq(Doc) /\ Len(r) = n
  BY <1>1, <1>2
<1>4. \A i, j \in 1 .. n : r[i] = r[j] => i = j
  BY <1>2 DEF Ranking, IsInjective
<1> QED
  BY <1>1, <1>3, <1>4 DEF Once

(* What the fused list is about: documents, and the blank one.             *)
Key == Doc \cup {NoText}

(* The keys of the dense hits: of these only the blank one can be there    *)
(* twice.                                                                  *)
LEMMA DenseKeysIs ==
  ASSUME NEW hits \in Ranking
  PROVE  LET dense == DenseKeys(hits)
         IN  /\ dense \in Seq(Key) /\ Len(dense) \in 0 .. MaxHits /\ Len(dense) <= MaxHits
             /\ \A key : key = NoText \/ Once(dense, key)
<1>1. /\ hits \in Seq(Doc) /\ Len(hits) \in 0 .. MaxHits /\ Len(hits) <= MaxHits
      /\ \A key : Once(hits, key)
  BY RankingIs
<1>2. \A i \in 1 .. Len(hits) : hits[i] \in Doc
  BY <1>1
<1>3. /\ DenseKeys(hits) = [i \in 1 .. Len(hits) |-> IF hits[i] \in Blank THEN NoText ELSE hits[i]]
      /\ DOMAIN hits = 1 .. Len(hits)
  BY <1>1 DEF DenseKeys
<1>4. DenseKeys(hits) \in Seq(Key) /\ Len(DenseKeys(hits)) = Len(hits)
  BY <1>1, <1>2, <1>3 DEF Key
<1>5. ASSUME NEW key, key # NoText PROVE Once(DenseKeys(hits), key)
  <2>1. \A i \in 1 .. Len(hits) : DenseKeys(hits)[i] = key => hits[i] = key
    BY <1>3, <1>5
  <2>2. \A i, j \in 1 .. Len(hits) : hits[i] = key /\ hits[j] = key => i = j
    BY <1>1 DEF Once
  <2> QED BY <1>4, <2>1, <2>2 DEF Once
<1> QED
  BY <1>1, <1>4, <1>5

(* What the two searches find, with the scores.                             *)
ScoredKeys(dense, words) ==
  LET keys == dense \o words
  IN  [i \in DOMAIN keys |-> Scored(keys[i], FusedScore(dense, words, keys[i]))]

(* Every key is scored by the places that it has in the two lists.         *)
LEMMA ScoredKeysIs ==
  ASSUME NEW dense \in Seq(Key), Len(dense) <= MaxHits,
         NEW words \in Seq(Doc), Len(words) <= MaxHits
  PROVE  LET keys == dense \o words
             scored == ScoredKeys(dense, words)
         IN  /\ keys \in Seq(Key) /\ scored \in Seq(Hit) /\ Len(scored) = Len(keys)
             /\ \A i \in 1 .. Len(keys) :
                  /\ scored[i].doc = keys[i]
                  /\ scored[i].score = FusedScore(dense, words, keys[i])
             /\ RrfMerge(dense, words) = SortByScore(Merge(scored))
<1> DEFINE keys == dense \o words
           scored == ScoredKeys(dense, words)
<1>1. keys \in Seq(Key) /\ Len(keys) \in Nat /\ DOMAIN keys = 1 .. Len(keys)
  <2>1. words \in Seq(Key)
    BY DEF Key
  <2> QED BY <2>1
<1>2. \A key : FusedScore(dense, words, key) \in Nat
  <2>1. ASSUME NEW key PROVE FusedScore(dense, words, key) \in Nat
    <3>1. Terms(dense, key) \in Nat /\ Terms(words, key) \in Nat
      BY TermsIs
    <3> QED BY <3>1 DEF FusedScore
  <2> QED BY <2>1
<1>3. scored = [i \in 1 .. Len(keys) |-> Scored(keys[i], FusedScore(dense, words, keys[i]))]
  BY <1>1 DEF ScoredKeys
<1>4. \A i \in 1 .. Len(keys) : Scored(keys[i], FusedScore(dense, words, keys[i])) \in Hit
  <2>1. \A i \in 1 .. Len(keys) : keys[i] \in Key
    BY <1>1
  <2> HIDE DEF keys
  <2> QED BY <1>2, <2>1 DEF Scored, Hit, Key
<1>5. RrfMerge(dense, words) = SortByScore(Merge(scored))
  BY DEF RrfMerge, ScoredKeys
<1>6. \A i \in 1 .. Len(keys) : scored[i] = Scored(keys[i], FusedScore(dense, words, keys[i]))
  <2> HIDE DEF keys, scored
  <2> QED BY <1>3
<1> HIDE DEF keys, scored
<1>7. scored \in Seq(Hit) /\ Len(scored) = Len(keys)
  BY <1>1, <1>3, <1>4
<1>8. \A i \in 1 .. Len(keys) :
        scored[i].doc = keys[i] /\ scored[i].score = FusedScore(dense, words, keys[i])
  <2>1. \A d, x : Scored(d, x).doc = d /\ Scored(d, x).score = x
    BY DEF Scored
  <2> QED BY <1>6, <2>1
<1> QED
  BY <1>1, <1>5, <1>7, <1>8 DEF keys, scored

(* Sorting rearranges a list so that its scores fall.                      *)
LEMMA SortType ==
  ASSUME NEW list \in Seq(Hit)
  PROVE  Rearranged(SortByScore(list), list) /\ Falls(SortByScore(list))
<1> DEFINE p == OldPlaces(list)
           n == Len(list)
           sorted == SortByScore(list)
<1>1. /\ p \in [1 .. n -> 1 .. n] /\ n \in Nat
      /\ \A i \in 1 .. n : \E k \in 1 .. n : p[k] = i
      /\ sorted = [k \in 1 .. n |-> list[p[k]]]
      /\ \A j, k \in 1 .. n : j < k => list[p[j]].score >= list[p[k]].score
  <2>1. DOMAIN list = 1 .. n /\ n \in Nat
    OBVIOUS
  <2> HIDE DEF n, p, sorted
  <2> QED BY <2>1, SortIs DEF p, sorted
<1> HIDE DEF p, sorted
<1>2. \A k \in 1 .. n : sorted[k] = list[p[k]] /\ list[p[k]] \in Hit /\ p[k] \in 1 .. n
  BY <1>1
<1>3. sorted \in Seq(Hit) /\ Len(sorted) = n
  BY <1>1, <1>2
<1>4. Falls(sorted)
  BY <1>1, <1>2, <1>3 DEF Falls
<1>5. \A i \in 1 .. n : \E k \in 1 .. n : sorted[k] = list[i]
  <2> SUFFICES ASSUME NEW i \in 1 .. n PROVE \E k \in 1 .. n : sorted[k] = list[i]
    OBVIOUS
  <2>1. PICK k \in 1 .. n : p[k] = i
    BY <1>1
  <2> QED BY <1>2, <2>1
<1>6. \A k \in 1 .. n : \E i \in 1 .. n : sorted[k] = list[i]
  BY <1>2
<1>7. Rearranged(sorted, list)
  BY <1>3, <1>5, <1>6 DEF Rearranged
<1> QED
  BY <1>4, <1>7 DEF sorted

(* Sorting leaves a document where there was one.                          *)
LEMMA SortDistinct ==
  ASSUME NEW list \in Seq(Hit), Distinct(list)
  PROVE  Distinct(SortByScore(list))
<1> DEFINE p == OldPlaces(list)
           n == Len(list)
           sorted == SortByScore(list)
<1>1. /\ p \in [1 .. n -> 1 .. n]
      /\ \A j, k \in 1 .. n : p[j] = p[k] => j = k
      /\ sorted = [k \in 1 .. n |-> list[p[k]]]
  <2>1. DOMAIN list = 1 .. n /\ n \in Nat
    OBVIOUS
  <2> HIDE DEF n, p, sorted
  <2> QED BY <2>1, SortIs DEF p, sorted
<1> HIDE DEF p, sorted, n
<1>2. \A k \in 1 .. n : sorted[k] = list[p[k]] /\ p[k] \in 1 .. n
  BY <1>1
<1>3. ASSUME NEW j \in 1 .. n, NEW k \in 1 .. n, sorted[j].doc = sorted[k].doc PROVE j = k
  <2>1. list[p[j]].doc = list[p[k]].doc
    BY <1>2, <1>3
  <2>2. p[j] = p[k]
    BY <1>2, <2>1 DEF n, Distinct
  <2> QED BY <1>1, <2>2
<1>4. Len(sorted) = n
  BY SortType DEF Rearranged, sorted, n
<1> QED
  BY <1>3, <1>4 DEF sorted, Distinct

(* Fused, a document stands where its ranks put it.                         *)
LEMMA FusedFairly ==
  ASSUME NEW hits \in Ranking, NEW words \in Ranking, NEW dense, dense = DenseKeys(hits),
         NEW found, found = RrfMerge(dense, words)
  PROVE  LET fused == [i \in DOMAIN found |-> found[i].doc]
             keys  == ToSet(dense \o words)
             Behind(d, e) == /\ RankIn(dense, d) >= RankIn(dense, e)
                             /\ RankIn(words, d) >= RankIn(words, e)
         IN  /\ IsInjective(fused) /\ ToSet(fused) = keys
             /\ \A d, e \in keys \ {NoText} :
                  Behind(d, e) /\ ~Behind(e, d) => RankIn(fused, e) < RankIn(fused, d)
<1> DEFINE fused == [i \in DOMAIN found |-> found[i].doc]
           list == dense \o words
           keys == ToSet(list)
           scored == ScoredKeys(dense, words)
           merged == Merge(scored)
           Behind(d, e) == /\ RankIn(dense, d) >= RankIn(dense, e)
                           /\ RankIn(words, d) >= RankIn(words, e)
<1>1. /\ dense \in Seq(Key) /\ Len(dense) \in 0 .. MaxHits
      /\ words \in Seq(Doc) /\ Len(words) \in 0 .. MaxHits
      /\ \A key : key = NoText \/ Once(dense, key)
      /\ \A key : Once(words, key)
      /\ Len(dense) <= MaxHits /\ Len(words) <= MaxHits
  BY DenseKeysIs, RankingIs
<1>2. /\ list \in Seq(Key) /\ scored \in Seq(Hit) /\ Len(scored) = Len(list)
      /\ \A i \in 1 .. Len(list) :
           /\ scored[i].doc = list[i]
           /\ scored[i].score = FusedScore(dense, words, list[i])
      /\ found = SortByScore(merged)
  <2> HIDE DEF list, scored, merged
  <2> QED BY <1>1, ScoredKeysIs DEF list, scored, merged
<1>3. Merged(merged, scored, Len(scored))
  <2> HIDE DEF scored
  <2> QED BY <1>2, MergeIs
<1> HIDE DEF scored, merged, list
<1>4. merged \in Seq(Hit) /\ Distinct(merged)
  BY <1>3 DEF Merged, Distinct
<1> DEFINE n == Len(found)
<1>5. /\ found \in Seq(Hit) /\ n = Len(merged) /\ n \in Nat
      /\ DOMAIN found = 1 .. n /\ DOMAIN fused = 1 .. n
      /\ Falls(found) /\ Rearranged(found, merged) /\ Distinct(found)
  <2>1. Rearranged(found, merged) /\ Falls(found) /\ Distinct(found)
    BY <1>2, <1>4, SortType, SortDistinct
  <2>2. found \in Seq(Hit) /\ n = Len(merged)
    BY <2>1 DEF Rearranged
  <2>3. n \in Nat /\ DOMAIN found = 1 .. n
    BY <2>2
  <2> QED BY <2>1, <2>2, <2>3
<1>6. \A k \in 1 .. n : fused[k] = found[k].doc
  BY <1>5
<1>7. \A k \in 1 .. n : \E i \in 1 .. Len(list) :
        found[k].doc = list[i] /\ found[k].score = FusedScore(dense, words, list[i])
  <2> SUFFICES ASSUME NEW k \in 1 .. n
               PROVE  \E i \in 1 .. Len(list) :
                        /\ found[k].doc = list[i]
                        /\ found[k].score = FusedScore(dense, words, list[i])
    OBVIOUS
  <2>1. PICK j \in 1 .. Len(merged) : found[k] = merged[j]
    BY <1>5 DEF Rearranged
  <2>2. PICK i \in 1 .. Len(scored) : merged[j] = scored[i]
    BY <1>3, <2>1 DEF Merged
  <2> QED BY <1>2, <2>1, <2>2
<1>8. \A i \in 1 .. Len(list) : \E k \in 1 .. n : found[k].doc = list[i]
  <2> SUFFICES ASSUME NEW i \in 1 .. Len(list) PROVE \E k \in 1 .. n : found[k].doc = list[i]
    OBVIOUS
  <2>1. PICK j \in 1 .. Len(merged) : merged[j].doc = scored[i].doc
    BY <1>2, <1>3 DEF Merged
  <2>2. PICK k \in 1 .. n : found[k] = merged[j]
    BY <1>5, <2>1 DEF Rearranged
  <2> QED BY <1>2, <2>1, <2>2
<1>9. DOMAIN list = 1 .. Len(list) /\ Len(list) \in Nat
  BY <1>2
<1> HIDE DEF fused, n
<1>10. IsInjective(fused)
  <2>1. \A j, k \in 1 .. n : found[j].doc = found[k].doc => j = k
    BY <1>5 DEF Distinct, n
  <2>2. DOMAIN fused = 1 .. n
    BY <1>5
  <2> QED BY <1>6, <2>1, <2>2 DEF IsInjective
<1>11. ToSet(fused) = keys
  <2>1. ASSUME NEW k \in 1 .. n PROVE fused[k] \in keys
    <3>1. PICK i \in 1 .. Len(list) : found[k].doc = list[i]
      BY <1>7
    <3> QED BY <1>6, <1>9, <3>1 DEF ToSet
  <2>2. ASSUME NEW i \in 1 .. Len(list) PROVE list[i] \in ToSet(fused)
    <3>1. PICK k \in 1 .. n : found[k].doc = list[i]
      BY <1>8
    <3> QED BY <1>5, <1>6, <3>1 DEF ToSet
  <2>3. ToSet(fused) \subseteq keys
    BY <1>5, <2>1 DEF ToSet
  <2>4. keys \subseteq ToSet(fused)
    BY <1>9, <2>2 DEF ToSet
  <2> QED BY <2>3, <2>4
<1>12. ASSUME NEW key \in keys
       PROVE  \E k \in 1 .. n : /\ found[k].doc = key /\ RankIn(fused, key) = k
                                /\ found[k].score = FusedScore(dense, words, key)
  <2>1. PICK i \in 1 .. Len(list) : list[i] = key
    BY <1>9 DEF ToSet
  <2>2. PICK k \in 1 .. n : found[k].doc = key
    BY <1>8, <2>1
  <2>3. found[k].score = FusedScore(dense, words, key)
    BY <1>7, <2>2
  <2>4. RankIn(fused, key) = CHOOSE r \in 1 .. n : fused[r] = key
    BY <1>5, <1>11 DEF RankIn
  <2>5. \A r \in 1 .. n : fused[r] = key <=> r = k
    <3>1. \A h, j \in 1 .. n : found[h].doc = found[j].doc => h = j
      BY <1>5 DEF Distinct, n
    <3> QED BY <1>6, <2>2, <3>1
  <2>6. RankIn(fused, key) = k
    BY <2>4, <2>5
  <2> QED BY <2>2, <2>3, <2>6
<1>13. ASSUME NEW d \in keys \ {NoText}, NEW e \in keys \ {NoText}, Behind(d, e), ~Behind(e, d)
       PROVE  RankIn(fused, e) < RankIn(fused, d)
  <2> DEFINE rd == RankIn(dense, d)
             re == RankIn(dense, e)
             wd == RankIn(words, d)
             we == RankIn(words, e)
             a == Len(dense)
             b == Len(words)
  <2>1. /\ rd \in 1 .. a + 1 /\ Terms(dense, d) = Credit(a, rd)
        /\ re \in 1 .. a + 1 /\ Terms(dense, e) = Credit(a, re)
        /\ wd \in 1 .. b + 1 /\ Terms(words, d) = Credit(b, wd)
        /\ we \in 1 .. b + 1 /\ Terms(words, e) = Credit(b, we)
    <3>1. Once(words, d) /\ Once(words, e) /\ Once(dense, d) /\ Once(dense, e)
      BY <1>1
    <3> QED BY <1>1, <3>1, TermsCredit
  <2>2. /\ rd \in Nat \ {0} /\ re \in Nat \ {0} /\ wd \in Nat \ {0} /\ we \in Nat \ {0}
        /\ a \in 0 .. MaxHits /\ b \in 0 .. MaxHits /\ a \in Nat /\ b \in Nat
    BY <1>1, <2>1
  <2>3. re <= rd /\ we <= wd /\ (re < rd \/ we < wd)
    <3>1. rd >= re /\ wd >= we /\ ~(re >= rd /\ we >= wd)
      BY <1>13
    <3> HIDE DEF rd, re, wd, we
    <3> QED BY <2>2, <3>1
  <2> HIDE DEF rd, re, wd, we, a, b
  <2>4. /\ Credit(a, rd) \in Nat /\ Credit(a, re) \in Nat /\ Credit(a, rd) <= Credit(a, re)
        /\ re # rd /\ re <= a => Credit(a, rd) < Credit(a, re)
    BY <2>2, <2>3, CreditFalls
  <2>5. /\ Credit(b, wd) \in Nat /\ Credit(b, we) \in Nat /\ Credit(b, wd) <= Credit(b, we)
        /\ we # wd /\ we <= b => Credit(b, wd) < Credit(b, we)
    BY <2>2, <2>3, CreditFalls
  <2>6. (re < rd => re <= a) /\ (we < wd => we <= b)
    BY <2>1, <2>2
  <2>7. /\ FusedScore(dense, words, d) = Credit(a, rd) + Credit(b, wd)
        /\ FusedScore(dense, words, e) = Credit(a, re) + Credit(b, we)
    BY <2>1 DEF FusedScore
  <2>8. FusedScore(dense, words, d) < FusedScore(dense, words, e)
    BY <2>2, <2>3, <2>4, <2>5, <2>6, <2>7
  <2>9. PICK k \in 1 .. n : RankIn(fused, d) = k /\ found[k].score = FusedScore(dense, words, d)
    BY <1>12
  <2>10. PICK l \in 1 .. n : RankIn(fused, e) = l /\ found[l].score = FusedScore(dense, words, e)
    BY <1>12
  <2>11. found[k].score < found[l].score /\ found[k].score \in Nat /\ found[l].score \in Nat
    <3>1. FusedScore(dense, words, d) \in Nat /\ FusedScore(dense, words, e) \in Nat
      BY <2>4, <2>5, <2>7
    <3> QED BY <2>8, <2>9, <2>10, <3>1
  <2>12. ~(k <= l)
    <3>1. k < l => found[k].score >= found[l].score
      BY <1>5 DEF Falls, n
    <3> QED BY <2>11, <3>1
  <2> QED BY <1>5, <2>9, <2>10, <2>12
<1> QED
  BY <1>10, <1>11, <1>13 DEF fused, list

(* The first entries of a list.                                            *)
LEMMA TakeIs ==
  ASSUME NEW d \in Seq(Hit), NEW n \in Nat
  PROVE  /\ Take(d, n) \in Seq(Hit)
         /\ Len(Take(d, n)) = IF n < Len(d) THEN n ELSE Len(d)
         /\ \A k \in 1 .. Len(Take(d, n)) : Take(d, n)[k] = d[k]
<1> DEFINE m == IF n < Len(d) THEN n ELSE Len(d)
<1>1. Take(d, n) = SubSeq(d, 1, m)
  BY DEF Take
<1>2. m \in 0 .. Len(d) /\ Len(d) \in Nat
  OBVIOUS
<1> HIDE DEF m
<1>3. SubSeq(d, 1, m) \in Seq(Hit) /\ Len(SubSeq(d, 1, m)) = m
  BY <1>2
<1>4. \A k \in 1 .. m : SubSeq(d, 1, m)[k] = d[k]
  BY <1>2
<1> QED
  BY <1>1, <1>3, <1>4 DEF m

(* The entries that score at least as much as one.                         *)
Better(r, x) == {k \in DOMAIN r : r[k].score >= x.score}

(* Of a list that falls, the entries left out are not better than the rest. *)
LEMMA CutIs ==
  ASSUME NEW d \in Seq(Hit), NEW n \in Nat, NEW x, NEW q \in n .. Len(d),
         \A k \in 1 .. q : d[k].score >= x.score
  PROVE  Cardinality(Better(Take(d, n), x)) = n
<1> DEFINE r == Take(d, n)
<1>1. r \in Seq(Hit) /\ Len(r) = n /\ DOMAIN r = 1 .. n /\ \A k \in 1 .. n : r[k] = d[k]
  <2>1. r \in Seq(Hit) /\ Len(r) = n
    BY TakeIs
  <2>2. \A k \in 1 .. n : r[k] = d[k]
    BY <2>1, TakeIs
  <2> HIDE DEF r
  <2> QED BY <2>1, <2>2
<1>2. Better(r, x) = 1 .. n
  <2> HIDE DEF r
  <2>1. \A k \in 1 .. n : k \in 1 .. q
    OBVIOUS
  <2> QED BY <1>1, <2>1 DEF Better
<1>3. Cardinality(1 .. n) = n
  BY FS_Interval
<1> QED
  BY <1>2, <1>3

(* The entries that fill the cap are all in the context, and are better.    *)
LEMMA CapIs ==
  ASSUME NEW d \in Seq(Hit), NEW n \in Nat, NEW x, NEW q \in 0 .. Len(d), q <= n,
         \A k \in 1 .. q : d[k].score >= x.score,
         \A kind : Cardinality(OfKind(d, kind)) <= SourceCap,
         Cardinality({k \in 1 .. q : Kind(d[k].doc) = Kind(x.doc)}) = SourceCap
  PROVE  Cardinality(Better(Take(d, n), x) \cap OfKind(Take(d, n), Kind(x.doc))) = SourceCap
<1> DEFINE r == Take(d, n)
           kind == Kind(x.doc)
           S == {k \in 1 .. q : Kind(d[k].doc) = kind}
           B == Better(r, x) \cap OfKind(r, kind)
           D == OfKind(d, kind)
<1>1. /\ r \in Seq(Hit) /\ DOMAIN r = 1 .. Len(r) /\ Len(r) \in Nat /\ Len(r) <= Len(d)
      /\ Len(d) \in Nat /\ q <= Len(r)
      /\ \A k \in 1 .. Len(r) : r[k] = d[k]
  <2>1. r \in Seq(Hit) /\ Len(r) = (IF n < Len(d) THEN n ELSE Len(d))
        /\ \A k \in 1 .. Len(r) : r[k] = d[k]
    BY TakeIs
  <2>2. DOMAIN r = 1 .. Len(r) /\ Len(r) \in Nat /\ Len(d) \in Nat
    BY <2>1
  <2> HIDE DEF r
  <2> QED BY <2>1, <2>2
<1> HIDE DEF r, kind
<1>2. /\ D = {k \in 1 .. Len(d) : Kind(d[k].doc) = kind}
      /\ IsFiniteSet(D) /\ Cardinality(D) <= SourceCap
      /\ OfKind(r, kind) = {k \in 1 .. Len(r) : Kind(r[k].doc) = kind}
  BY <1>1, OfKindFinite
<1>3. S \subseteq B
  <2>1. \A k \in 1 .. q : k \in 1 .. Len(r) /\ r[k] = d[k]
    BY <1>1
  <2> QED BY <1>1, <1>2, <2>1 DEF Better
<1>4. B \subseteq D
  <2>1. \A k \in 1 .. Len(r) : k \in 1 .. Len(d)
    BY <1>1
  <2> QED BY <1>1, <1>2, <2>1
<1> HIDE DEF B, D, S
<1>5. /\ IsFiniteSet(B) /\ Cardinality(B) <= Cardinality(D) /\ Cardinality(S) <= Cardinality(B)
  <2>1. IsFiniteSet(B) /\ Cardinality(B) <= Cardinality(D)
    BY <1>2, <1>4, FS_Subset
  <2> QED BY <1>3, <2>1, FS_Subset
<1>6. Cardinality(S) = SourceCap
  BY DEF S, kind
<1>7. Cardinality(B) \in Nat /\ Cardinality(D) \in Nat /\ SourceCap \in Nat
  BY <1>2, <1>5, FS_CardinalityType, RetrievalAssumption
<1>8. Cardinality(B) = SourceCap
  BY <1>2, <1>5, <1>6, <1>7
<1> QED
  BY <1>8 DEF B, r, kind

(* The context is cut from the pool, and what it leaves out is left out    *)
(* for better ones.                                                        *)
LEMMA PickIs ==
  ASSUME NEW pool \in Seq(Hit)
  PROVE  /\ Pick(pool) \in Seq(Hit)
         /\ \A x \in ToSet(pool) \ ToSet(Pick(pool)) :
              \/ Cardinality(Better(Pick(pool), x)) = 2 * TopK
              \/ /\ Capped
                 /\ Cardinality(Better(Pick(pool), x)
                                  \cap OfKind(Pick(pool), Kind(x.doc))) = SourceCap
<1> DEFINE s == SortByScore(pool)
           d == IF Capped THEN Diverse(s) ELSE s
           n == 2 * TopK
<1>1. n \in Nat
  BY RetrievalAssumption
<1>2. Rearranged(s, pool) /\ Falls(s) /\ s \in Seq(Hit)
  BY SortType DEF Rearranged
<1>3. Pick(pool) = Take(d, n)
  BY DEF Pick
<1> HIDE DEF n, s
<1>4. Capped => Kept(Diverse(s), s, Len(s))
  BY <1>2, DiverseIs
<1>5. d \in Seq(Hit) /\ Falls(d)
  BY <1>2, <1>4 DEF Kept
<1>6. ASSUME NEW x \in ToSet(pool) \ ToSet(Take(d, n))
      PROVE  \/ Cardinality(Better(Take(d, n), x)) = n
             \/ /\ Capped
                /\ Cardinality(Better(Take(d, n), x) \cap OfKind(Take(d, n), Kind(x.doc)))
                     = SourceCap
  <2>1. PICK i \in 1 .. Len(pool) : pool[i] = x
    BY DEF ToSet
  <2>2. PICK j \in 1 .. Len(s) : s[j] = x
    BY <1>2, <2>1 DEF Rearranged
  <2>3. (\E k \in 1 .. Len(d) : d[k] = x) \/ (Capped /\ CrowdedOut(d, x))
    <3>1. CASE Capped
      <4>1. \/ \E k \in 1 .. Len(Diverse(s)) : Diverse(s)[k] = s[j]
            \/ CrowdedOut(Diverse(s), s[j])
        BY <1>2, DiverseIs
      <4> QED BY <2>2, <3>1, <4>1
    <3>2. CASE ~Capped
      BY <2>2, <3>2
    <3> QED BY <3>1, <3>2
  <2>4. Capped => \A kind : Cardinality(OfKind(d, kind)) <= SourceCap
    BY <1>4 DEF Kept
  <2>5. /\ Len(Take(d, n)) = IF n < Len(d) THEN n ELSE Len(d)
        /\ DOMAIN Take(d, n) = 1 .. Len(Take(d, n))
        /\ \A k \in 1 .. Len(Take(d, n)) : Take(d, n)[k] = d[k]
        /\ Len(d) \in Nat
    <3> HIDE DEF d
    <3>1. Take(d, n) \in Seq(Hit)
      BY <1>1, <1>5, TakeIs
    <3> QED BY <1>1, <1>5, <3>1, TakeIs
  <2> HIDE DEF d
  <2>6. CASE \E k \in 1 .. Len(d) : d[k] = x
    <3>1. PICK k \in 1 .. Len(d) : d[k] = x
      BY <2>6
    <3>2. k > n
      <4> SUFFICES ASSUME k <= n PROVE FALSE
        BY <1>1
      <4>1. k \in 1 .. Len(Take(d, n))
        BY <1>1, <2>5
      <4>2. Take(d, n)[k] = x /\ k \in DOMAIN Take(d, n)
        BY <2>5, <3>1, <4>1
      <4> QED BY <4>2 DEF ToSet
    <3>3. \A l \in 1 .. n : d[l].score >= x.score
      <4>1. \A l \in 1 .. n : l \in 1 .. Len(d) /\ l < k
        BY <1>1, <2>5, <3>2
      <4> QED BY <1>5, <3>1, <4>1 DEF Falls
    <3>4. n \in n .. Len(d)
      BY <1>1, <2>5, <3>2
    <3>5. Cardinality(Better(Take(d, n), x)) = n
      BY <1>1, <1>5, <3>3, <3>4, CutIs
    <3> QED BY <3>5
  <2>7. CASE Capped /\ CrowdedOut(d, x)
    <3>1. PICK q \in 0 .. Len(d) :
            /\ \A k \in 1 .. q : d[k].score >= x.score
            /\ Cardinality({k \in 1 .. q : Kind(d[k].doc) = Kind(x.doc)}) = SourceCap
      BY <2>7 DEF CrowdedOut
    <3>2. CASE q <= n
      <4>1. Cardinality(Better(Take(d, n), x) \cap OfKind(Take(d, n), Kind(x.doc))) = SourceCap
        BY <1>1, <1>5, <2>4, <2>7, <3>1, <3>2, CapIs
      <4> QED BY <2>7, <4>1
    <3>3. CASE n <= q
      <4>1. q \in n .. Len(d)
        BY <1>1, <3>3
      <4>2. Cardinality(Better(Take(d, n), x)) = n
        BY <1>1, <1>5, <3>1, <4>1, CutIs
      <4> QED BY <4>2
    <3> QED BY <1>1, <3>2, <3>3
  <2> QED BY <2>3, <2>6, <2>7
<1>7. Take(d, n) \in Seq(Hit)
  <2> HIDE DEF d
  <2> QED BY <1>1, <1>5, TakeIs
<1> HIDE DEF d
<1> QED
  BY <1>3, <1>6, <1>7 DEF n

(* A sub-query.                                                            *)
Sub == [pc : {"search", "fused", "found", "gathered"}, counts : BOOLEAN,
        dense : Seq(Key), words : Seq(Doc), found : Seq(Hit)]

(* The types of the retrieval's state.                                     *)
RetrievalTypeOK ==
  restricted \in BOOLEAN /\ subs \in Seq(Sub) /\ result \in Seq(Hit)

(* A sub-query's list is the fusion of two rankings, which it has kept.    *)
FusedFrom(sub) ==
  \E hits, words \in Ranking :
    /\ sub.dense = DenseKeys(hits) /\ sub.words = words
    /\ sub.found = RrfMerge(DenseKeys(hits), words)

(* What was fused is the fusion of two rankings, and the context was picked *)
(* from all that was found.                                                 *)
RetrievalInv ==
  /\ \A s \in DOMAIN subs : subs[s].pc = "fused" => FusedFrom(subs[s])
  /\ (\E s \in DOMAIN subs : subs[s].pc = "gathered") =>
       /\ \A s \in DOMAIN subs : subs[s].pc = "gathered"
       /\ result = Pick(Pool)

(* An entry that is scored is an entry, and the count is one.              *)
LEMMA HitTypes ==
  /\ \A d \in Doc \cup {NoText, Count}, x \in Nat : Scored(d, x) \in Hit
  /\ CountDoc \in Seq(Hit)
<1>1. \A d \in Doc \cup {NoText, Count}, x \in Nat : Scored(d, x) \in Hit
  BY DEF Scored, Hit
<1>2. Scored(Count, 0) \in Hit
  BY <1>1
<1> QED
  BY <1>1, <1>2 DEF CountDoc

(* The fusion of two rankings is a list of entries.                        *)
LEMMA RrfMergeType ==
  ASSUME NEW hits \in Ranking, NEW words \in Ranking
  PROVE  /\ DenseKeys(hits) \in Seq(Key) /\ words \in Seq(Doc)
         /\ RrfMerge(DenseKeys(hits), words) \in Seq(Hit)
<1> DEFINE dense == DenseKeys(hits)
           scored == ScoredKeys(dense, words)
<1>1. dense \in Seq(Key) /\ Len(dense) <= MaxHits /\ words \in Seq(Doc) /\ Len(words) <= MaxHits
  BY DenseKeysIs, RankingIs
<1>2. scored \in Seq(Hit) /\ RrfMerge(dense, words) = SortByScore(Merge(scored))
  <2> HIDE DEF dense
  <2> QED BY <1>1, ScoredKeysIs
<1> HIDE DEF scored
<1>3. Merge(scored) \in Seq(Hit)
  BY <1>2, MergeIs DEF Merged
<1>4. SortByScore(Merge(scored)) \in Seq(Hit)
  BY <1>3, SortType DEF Rearranged
<1> QED
  BY <1>1, <1>2, <1>4

(* A list comprehension makes a list of the same entries.                  *)
LEMMA OnlyType ==
  ASSUME NEW X, NEW list \in Seq(X), NEW S
  PROVE  Only(list, S) \in Seq(X)
<1>1. Only(list, S) = OnlyLoop(list, S)[Len(list)]
      /\ OnlyLoop(list, S) \in [0 .. Len(list) -> Seq(X)]
  BY OnlyLoopIs
<1>2. Len(list) \in 0 .. Len(list)
  OBVIOUS
<1> QED
  BY <1>1, <1>2

(* All that the sub-queries found is a list of entries.                    *)
LEMMA PoolType ==
  ASSUME RetrievalTypeOK
  PROVE  Pool \in Seq(Hit)
<1> DEFINE lists == [s \in DOMAIN subs |-> subs[s].found]
<1>1. subs \in Seq(Sub) /\ DOMAIN subs = 1 .. Len(subs) /\ Len(subs) \in Nat
  BY DEF RetrievalTypeOK
<1>2. \A s \in 1 .. Len(subs) : subs[s].found \in Seq(Hit)
  <2>1. \A s \in 1 .. Len(subs) : subs[s] \in Sub
    BY <1>1
  <2> QED BY <2>1 DEF Sub
<1>3. lists \in Seq(Seq(Hit))
  BY <1>1, <1>2
<1>4. FlattenSeq(lists) \in Seq(Hit)
  <2> HIDE DEF lists
  <2> QED BY <1>3, FlattenType
<1>5. Merge(FlattenSeq(lists)) \in Seq(Hit)
  <2> HIDE DEF lists
  <2> QED BY <1>4, MergeIs DEF Merged
<1> QED
  BY <1>5 DEF Pool

(* The pool is what was found, and nothing else.                           *)
LEMMA PoolStays ==
  ASSUME DOMAIN subs' = DOMAIN subs, \A s \in DOMAIN subs : subs'[s].found = subs[s].found
  PROVE  Pool' = Pool
<1>1. [s \in DOMAIN subs' |-> subs'[s].found] = [s \in DOMAIN subs |-> subs[s].found]
  OBVIOUS
<1>2. Pool' = Merge(FlattenSeq([s \in DOMAIN subs' |-> subs'[s].found]))
  BY DEF Pool
<1> QED
  BY <1>1, <1>2 DEF Pool

(* One sub-query moves on.                                                  *)
LEMMA SubMoves ==
  ASSUME RetrievalTypeOK, RetrievalInv, NEW s \in DOMAIN subs, NEW sub \in Sub,
         subs[s].pc \in {"search", "fused"}, sub.pc \in {"fused", "found"},
         sub.pc = "fused" => FusedFrom(sub),
         subs' = [subs EXCEPT ![s] = sub], UNCHANGED <<restricted, result>>
  PROVE  RetrievalTypeOK' /\ RetrievalInv'
<1>1. subs \in Seq(Sub) /\ DOMAIN subs = 1 .. Len(subs)
  BY DEF RetrievalTypeOK
<1>2. /\ subs' \in Seq(Sub) /\ DOMAIN subs' = DOMAIN subs /\ subs'[s] = sub
      /\ \A r \in DOMAIN subs : r # s => subs'[r] = subs[r]
  BY <1>1
<1>3. RetrievalTypeOK'
  BY <1>2 DEF RetrievalTypeOK
<1>4. ASSUME NEW r \in DOMAIN subs, subs'[r].pc = "fused" PROVE FusedFrom(subs'[r])
  BY <1>2, <1>4 DEF RetrievalInv
<1>5. ASSUME NEW r \in DOMAIN subs PROVE subs'[r].pc # "gathered"
  BY <1>2 DEF RetrievalInv
<1> QED
  BY <1>2, <1>3, <1>4, <1>5 DEF RetrievalInv

(* One sub-query is done.                                                  *)
LEMMA FoundMoves ==
  ASSUME RetrievalTypeOK, RetrievalInv, NEW s \in DOMAIN subs, NEW docs \in Seq(Hit),
         subs[s].pc \in {"search", "fused"},
         Found(s, docs), UNCHANGED <<restricted, result>>
  PROVE  RetrievalTypeOK' /\ RetrievalInv'
<1> DEFINE sub == [pc |-> "found", counts |-> FALSE, dense |-> <<>>, words |-> <<>>,
                   found |-> docs]
<1>1. sub \in Sub /\ sub.pc = "found"
  BY DEF Sub
<1>2. subs' = [subs EXCEPT ![s] = sub]
  BY DEF Found
<1> HIDE DEF sub
<1> QED
  BY <1>1, <1>2, SubMoves

(* Each step of the retrieval keeps its invariant.                         *)
LEMMA RetrievalStep ==
  ASSUME RetrievalTypeOK, RetrievalInv, RetrievalNext
  PROVE  RetrievalTypeOK' /\ RetrievalInv'
<1>0. subs \in Seq(Sub) /\ DOMAIN subs = 1 .. Len(subs) /\ Len(subs) \in Nat
      /\ \A s \in DOMAIN subs : subs[s] \in Sub
  BY DEF RetrievalTypeOK
<1>1. ASSUME NEW s \in DOMAIN subs, LookUpIds(s) PROVE RetrievalTypeOK' /\ RetrievalInv'
  <2>1. PICK d \in Doc : Found(s, <<Scored(d, 0)>>)
    BY <1>1 DEF LookUpIds
  <2>2. <<Scored(d, 0)>> \in Seq(Hit)
    <3>1. Scored(d, 0) \in Hit
      BY HitTypes
    <3> QED BY <3>1
  <2> QED BY <1>1, <2>1, <2>2, FoundMoves DEF LookUpIds, Turn
<1>2. ASSUME NEW s \in DOMAIN subs, Nothing(s) PROVE RetrievalTypeOK' /\ RetrievalInv'
  <2>1. PICK docs \in {<<>>, CountDoc} : Found(s, docs)
    BY <1>2 DEF Nothing
  <2>2. docs \in Seq(Hit)
    <3>1. <<>> \in Seq(Hit) /\ CountDoc \in Seq(Hit)
      BY HitTypes
    <3> QED BY <2>1, <3>1
  <2> QED BY <1>2, <2>1, <2>2, FoundMoves DEF Nothing, Turn
<1>3. ASSUME NEW s \in DOMAIN subs, Search(s) PROVE RetrievalTypeOK' /\ RetrievalInv'
  <2>1. PICK hits \in Ranking, words \in Ranking, counts \in BOOLEAN :
          subs' = [subs EXCEPT ![s] =
            [pc |-> "fused", counts |-> counts, dense |-> DenseKeys(hits),
             words |-> words, found |-> RrfMerge(DenseKeys(hits), words)]]
    BY <1>3 DEF Search
  <2> DEFINE sub == [pc |-> "fused", counts |-> counts, dense |-> DenseKeys(hits),
                     words |-> words, found |-> RrfMerge(DenseKeys(hits), words)]
  <2>2. sub \in Sub /\ sub.pc = "fused"
    BY RrfMergeType DEF Sub
  <2>3. FusedFrom(sub)
    BY DEF FusedFrom
  <2>4. subs' = [subs EXCEPT ![s] = sub]
    BY <2>1
  <2>5. subs[s].pc = "search" /\ UNCHANGED <<restricted, result>>
    BY <1>3 DEF Search, Turn
  <2> HIDE DEF sub
  <2> QED BY <2>2, <2>3, <2>4, <2>5, SubMoves
<1>4. ASSUME NEW s \in DOMAIN subs, Rerank(s) PROVE RetrievalTypeOK' /\ RetrievalInv'
  <2>1. PICK chosen : Found(s, IF subs[s].counts THEN CountDoc \o Only(subs[s].found, chosen)
                               ELSE Only(subs[s].found, chosen))
    BY <1>4 DEF Rerank
  <2> DEFINE kept == Only(subs[s].found, chosen)
             docs == IF subs[s].counts THEN CountDoc \o kept ELSE kept
  <2>2. subs[s].found \in Seq(Hit)
    BY <1>0 DEF Sub
  <2>3. kept \in Seq(Hit)
    BY <2>2, OnlyType
  <2> HIDE DEF kept
  <2>4. docs \in Seq(Hit)
    <3>1. CountDoc \o kept \in Seq(Hit)
      BY <2>3, HitTypes
    <3> QED BY <2>3, <3>1
  <2>5. Found(s, docs)
    BY <2>1 DEF kept
  <2>6. subs[s].pc = "fused" /\ UNCHANGED <<restricted, result>>
    BY <1>4 DEF Rerank
  <2> HIDE DEF docs
  <2> QED BY <2>4, <2>5, <2>6, FoundMoves
<1>5. ASSUME Gather PROVE RetrievalTypeOK' /\ RetrievalInv'
  <2>1. /\ result' = Pick(Pool)
        /\ subs' = [s \in DOMAIN subs |-> [subs[s] EXCEPT !.pc = "gathered"]]
        /\ restricted' = restricted
    BY <1>5 DEF Gather
  <2>2. \A s \in DOMAIN subs : [subs[s] EXCEPT !.pc = "gathered"] \in Sub
    BY <1>0 DEF Sub
  <2>3. \A s \in DOMAIN subs : /\ [subs[s] EXCEPT !.pc = "gathered"].pc = "gathered"
                               /\ [subs[s] EXCEPT !.pc = "gathered"].found = subs[s].found
    BY <1>0 DEF Sub
  <2>4. subs' \in Seq(Sub) /\ DOMAIN subs' = DOMAIN subs /\ Len(subs') = Len(subs)
    BY <1>0, <2>1, <2>2
  <2>5. \A s \in DOMAIN subs : subs'[s].pc = "gathered" /\ subs'[s].found = subs[s].found
    BY <2>1, <2>3
  <2>6. Pool' = Pool
    BY <2>4, <2>5, PoolStays
  <2>7. Pick(Pool)' = Pick(Pool)
    <3>1. Capped' = Capped
      BY <2>1, <2>4 DEF Capped
    <3> QED BY <2>6, <3>1 DEF Pick
  <2>8. Pick(Pool) \in Seq(Hit)
    BY PoolType, PickIs
  <2>9. RetrievalTypeOK'
    BY <2>1, <2>4, <2>8 DEF RetrievalTypeOK
  <2>10. RetrievalInv'
    BY <2>1, <2>4, <2>5, <2>7 DEF RetrievalInv
  <2> QED BY <2>9, <2>10
<1> QED
  BY <1>1, <1>2, <1>3, <1>4, <1>5 DEF RetrievalNext

(* The retrieval begins within its invariant.                              *)
LEMMA RetrievalInitial ==
  ASSUME RetrievalInit
  PROVE  RetrievalTypeOK /\ RetrievalInv
<1> DEFINE sub == [pc |-> "search", counts |-> FALSE, dense |-> <<>>, words |-> <<>>,
                   found |-> <<>>]
<1>1. PICK n \in 1 .. MaxSubs : subs = [s \in 1 .. n |-> sub]
  BY DEF RetrievalInit
<1>2. sub \in Sub /\ sub.pc = "search"
  BY DEF Sub
<1> HIDE DEF sub
<1>3. MaxSubs \in Nat
  BY RetrievalAssumption
<1>4. subs \in Seq(Sub) /\ DOMAIN subs = 1 .. n /\ \A s \in 1 .. n : subs[s] = sub
  BY <1>1, <1>2, <1>3
<1> QED
  BY <1>2, <1>4 DEF RetrievalInit, RetrievalTypeOK, RetrievalInv

(* The invariant is about the retrieval's own state.                       *)
LEMMA RetrievalStutters ==
  ASSUME RetrievalTypeOK, RetrievalInv, UNCHANGED retrievalVars
  PROVE  RetrievalTypeOK' /\ RetrievalInv'
<1>1. restricted' = restricted /\ subs' = subs /\ result' = result
  BY DEF retrievalVars
<1>2. Pool' = Pool
  BY <1>1, PoolStays
<1>3. Pick(Pool)' = Pick(Pool)
  BY <1>1, <1>2 DEF Pick, Capped
<1> QED
  BY <1>1, <1>3 DEF RetrievalTypeOK, RetrievalInv

(* What has been fused is ranked fairly.                                   *)
LEMMA RankedFairlyFollows ==
  ASSUME RetrievalInv
  PROVE  RankedFairly
<1> SUFFICES ASSUME NEW s \in DOMAIN subs, subs[s].pc = "fused"
             PROVE  LET dense == subs[s].dense
                        words == subs[s].words
                        fused == [i \in DOMAIN subs[s].found |-> subs[s].found[i].doc]
                        keys  == ToSet(dense \o words)
                        Behind(d, e) == /\ RankIn(dense, d) >= RankIn(dense, e)
                                        /\ RankIn(words, d) >= RankIn(words, e)
                    IN  /\ IsInjective(fused) /\ ToSet(fused) = keys
                        /\ \A d, e \in keys \ {NoText} :
                             Behind(d, e) /\ ~Behind(e, d) =>
                               RankIn(fused, e) < RankIn(fused, d)
  BY DEF RankedFairly
<1>1. PICK hits \in Ranking, words \in Ranking :
        /\ subs[s].dense = DenseKeys(hits) /\ subs[s].words = words
        /\ subs[s].found = RrfMerge(DenseKeys(hits), words)
  BY DEF RetrievalInv, FusedFrom
<1>2. subs[s].words \in Ranking /\ subs[s].found = RrfMerge(subs[s].dense, subs[s].words)
  BY <1>1
<1> QED
  BY <1>1, <1>2, FusedFairly

(* What has been picked is the best.                                       *)
LEMMA BestKeptFollows ==
  ASSUME RetrievalTypeOK, RetrievalInv
  PROVE  BestKept
<1> SUFFICES ASSUME NEW s \in DOMAIN subs, subs[s].pc = "gathered",
                    NEW x \in ToSet(Pool) \ ToSet(result)
             PROVE  LET better == {k \in DOMAIN result : result[k].score >= x.score}
                    IN  \/ Cardinality(better) = 2 * TopK
                        \/ Capped /\ Cardinality(better \cap OfKind(result, Kind(x.doc)))
                                       = SourceCap
  BY DEF BestKept
<1>1. result = Pick(Pool) /\ Pool \in Seq(Hit)
  BY PoolType DEF RetrievalInv
<1> QED
  BY <1>1, PickIs DEF Better

-----------------------------------------------------------------------------
(* Raw records: what the normalisers make of them.                         *)

(* The kinds of raw records.                                               *)
Name ==
  {"slack", "jira", "jira_comment", "gdrive", "commit", "pull_request", "zendesk",
   "elasticsearch", "datadog", "batch", "alarm", "line", "splunk", "azure_monitor",
   "gcp_logging"}

(* There is a normaliser for each of them, and for nothing else.           *)
LEMMA Names == DOMAIN Normalisers = Name
BY DEF Normalisers, Name

(* What a normaliser says: the type, the mark, the fields of the id, and   *)
(* whether the level is found.                                             *)
Type(name) == Normalisers[name].type

(* What the ids of a kind of record begin with.                            *)
Mark(name) == Normalisers[name].mark

(* The fields that identify a kind of record.                              *)
Ids(name) == Normalisers[name].ids

(* The first of them.                                                      *)
First(name) == Normalisers[name].ids[1]

(* The one that stands in.                                                 *)
Second(name) == Normalisers[name].ids[2]

(* Whether the filter finds the level of such a record.                    *)
Told(name) == Normalisers[name].told

(* The documents' types, and the fields that the ids are taken from.        *)
Takes(name, type, first) ==
  Type(name) = type /\ First(name) = first /\ Len(Ids(name)) = 1

(* The type and both fields.                                               *)
TakesEither(name, type, first, second) ==
  /\ Type(name) = type /\ First(name) = first
  /\ Second(name) = second /\ Len(Ids(name)) = 2

(* The types and the fields, as the normalisers have them.                 *)
LEMMA IdFields ==
  /\ Takes("slack", "slack", "ts")
  /\ Takes("jira", "jira", "id")
  /\ TakesEither("jira_comment", "jira", "id", "self")
  /\ Takes("gdrive", "gdrive", "id")
  /\ Takes("commit", "github", "sha")
  /\ TakesEither("pull_request", "github", "id", "number")
  /\ Takes("zendesk", "zendesk", "id")
  /\ Takes("elasticsearch", "elasticsearch", "_id")
  /\ Takes("datadog", "datadog", "id")
  /\ TakesEither("batch", "cloudwatch", "id", "timestamp")
  /\ Takes("alarm", "cloudwatch", "AlarmName")
  /\ TakesEither("line", "cloudwatch", "id", "eventId")
  /\ TakesEither("splunk", "splunk", "_cd", "_serial")
  /\ TakesEither("azure_monitor", "azure_monitor", "id", "correlationId")
  /\ Takes("gcp_logging", "gcp_logging", "insertId")
BY DEF Takes, TakesEither, Type, Ids, First, Second,
       Normalisers, Normaliser, Slack, Jira, JiraComment, GDrive, Commit,
       PullRequest, Zendesk, Elasticsearch, Datadog, CloudWatchBatch, CloudWatchAlarm,
       CloudWatchLine, Splunk, AzureMonitor, GCPLogging

(* The levels of three kinds of record are found.                          *)
LEMMA LevelsTold ==
  /\ ~Told("slack")
  /\ ~Told("jira")
  /\ ~Told("jira_comment")
  /\ ~Told("gdrive")
  /\ ~Told("commit")
  /\ ~Told("pull_request")
  /\ ~Told("zendesk")
  /\ Told("elasticsearch")
  /\ Told("datadog")
  /\ ~Told("batch")
  /\ ~Told("alarm")
  /\ ~Told("line")
  /\ Told("splunk")
  /\ ~Told("azure_monitor")
  /\ ~Told("gcp_logging")
BY DEF Told, Normalisers, Normaliser, Slack, Jira, JiraComment, GDrive, Commit,
       PullRequest, Zendesk, Elasticsearch, Datadog, CloudWatchBatch, CloudWatchAlarm,
       CloudWatchLine, Splunk, AzureMonitor, GCPLogging

(* All ids but those of comments begin the same.                           *)
LEMMA Marked ==
  /\ Mark("jira") = Mark("slack")
  /\ Mark("gdrive") = Mark("slack")
  /\ Mark("commit") = Mark("slack")
  /\ Mark("pull_request") = Mark("slack")
  /\ Mark("zendesk") = Mark("slack")
  /\ Mark("elasticsearch") = Mark("slack")
  /\ Mark("datadog") = Mark("slack")
  /\ Mark("batch") = Mark("slack")
  /\ Mark("alarm") = Mark("slack")
  /\ Mark("line") = Mark("slack")
  /\ Mark("splunk") = Mark("slack")
  /\ Mark("azure_monitor") = Mark("slack")
  /\ Mark("gcp_logging") = Mark("slack")
  /\ Mark("jira_comment") # Mark("slack")
BY DEF Mark, Normalisers, Normaliser, Slack, Jira, JiraComment, GDrive, Commit,
       PullRequest, Zendesk, Elasticsearch, Datadog, CloudWatchBatch, CloudWatchAlarm,
       CloudWatchLine, Splunk, AzureMonitor, GCPLogging

(* The type, the mark and the first of the id fields tell the normalisers   *)
(* apart, but for a batch and a line of CloudWatch, and no other field can  *)
(* be mistaken for the first.                                               *)
LEMMA FieldsTell ==
  ASSUME NEW a \in Name, NEW b \in Name
  PROVE  /\ (Type(a) = Type(b) /\ Mark(a) = Mark(b) /\ First(a) = First(b))
              <=> (a = b \/ {a, b} = {"batch", "line"})
         /\ Type(a) = Type(b) /\ Len(Ids(b)) = 2 => First(a) # Second(b)
         /\ First(a) # "hash"
<1>1. First(a) # "hash"
  BY IdFields DEF Takes, TakesEither, Name
<1>2. Type(a) = Type(b) /\ Mark(a) = Mark(b) /\ First(a) = First(b)
        <=> \/ a = b
            \/ (a = "batch" /\ b = "line") \/ (a = "line" /\ b = "batch")
  BY IdFields, Marked DEF Takes, TakesEither, Name
<1>3. ASSUME Type(a) = Type(b), Len(Ids(b)) = 2
      PROVE  First(a) # Second(b)
  BY <1>3, IdFields DEF Takes, TakesEither, Name
<1>4. {a, b} = {"batch", "line"}
        <=> (a = "batch" /\ b = "line") \/ (a = "line" /\ b = "batch")
  BY Zenon
<1> QED
  BY <1>1, <1>2, <1>3, <1>4

(* The ranks of the levels are numbers.                                    *)
LEMMA Ranks ==
  /\ "WARNING" \in DOMAIN LevelRank /\ "INFO" \in DOMAIN LevelRank
  /\ \A level \in DOMAIN LevelRank : LevelRank[level] \in Nat
BY DEF LevelRank

(* Whatever minimum is configured, a well-formed record that states a       *)
(* severity is judged as _should_ingest does: those whose document has the  *)
(* level are stored exactly from the minimum on, CloudWatch's only where    *)
(* INFO would be, and all others, the two log sources that the filter has   *)
(* under another name among them, always.                                   *)
THEOREM SeverityHolds == \A raw \in RawRecord : SeverityKept(raw)
<1> SUFFICES ASSUME NEW raw \in RawRecord, ~Malformed(raw), Known(raw.level)
             PROVE  SeverityKept(raw)
  BY DEF SeverityKept
<1>1. raw.from \in Name
  BY Names DEF RawRecord
<1>2. IsStored(raw) <=> ShouldIngest(raw)
  BY DEF IsStored, Outcome
<1>3. LevelRank[raw.level] \in Nat /\ MinRank \in Nat /\ LevelRank["INFO"] \in Nat
  BY Ranks DEF Known, MinRank
<1>4. CASE raw.from \in {"elasticsearch", "datadog", "splunk"}
  <2>1. Of(raw).told /\ Of(raw).type \in LogSourceTypes
    BY <1>1, <1>4, IdFields, LevelsTold
       DEF Of, Takes, TakesEither, Type, Told, LogSourceTypes
  <2>2. IsStored(raw) <=> LevelRank[raw.level] >= MinRank
    BY <1>2, <2>1 DEF ShouldIngest
  <2> QED
    BY <1>4, <2>2 DEF SeverityKept
<1>5. CASE raw.from \in {"batch", "alarm", "line"}
  <2>1. ~Of(raw).told /\ Of(raw).type \in LogSourceTypes
    BY <1>1, <1>5, IdFields, LevelsTold
       DEF Of, Takes, TakesEither, Type, Told, LogSourceTypes
  <2>2. IsStored(raw) => LevelRank["INFO"] >= MinRank
    BY <1>2, <2>1 DEF ShouldIngest
  <2>3. IsStored(raw) => MinRank <= LevelRank["INFO"]
    BY <1>3, <2>2
  <2> QED
    BY <1>5, <2>3 DEF SeverityKept
<1>6. CASE raw.from \notin {"elasticsearch", "datadog", "splunk", "batch", "alarm", "line"}
  <2>1. Of(raw).type \notin LogSourceTypes
    BY <1>1, <1>6, IdFields DEF Of, Takes, TakesEither, Type, LogSourceTypes, Name
  <2>2. IsStored(raw)
    BY <1>2, <2>1 DEF ShouldIngest
  <2> QED
    BY <1>6, <2>2 DEF SeverityKept
<1> QED
  BY <1>4, <1>5, <1>6

(* The parts of a raw record.                                              *)
LEMMA IdTypes ==
  ASSUME NEW raw \in RawRecord
  PROVE  raw.thing \in 1 .. 2 /\ raw.from \in Name /\ Of(raw) = Normalisers[raw.from]
BY Names DEF RawRecord, Of

(* Two documents are one if their types and ids are.                       *)
LEMMA DocumentParts ==
  ASSUME NEW raw \in RawRecord, NEW other \in RawRecord
  PROVE  Document(raw, 1) = Document(other, 2)
           <=> Of(raw).type = Of(other).type /\ SourceId(raw, 1) = SourceId(other, 2)
BY DEF Document

(* Versions of one thing that have an id are one document, whichever process*)
(* normalises them, and two things are two documents unless both came       *)
(* without an id, for each pair of the fifteen kinds of record.             *)
THEOREM RecordsToldApart == \A raw, other \in RawRecord : ToldApart(raw, other)
<1> SUFFICES ASSUME NEW raw \in RawRecord, NEW other \in RawRecord
             PROVE  ToldApart(raw, other)
  OBVIOUS
<1> DEFINE n == Of(raw)
           m == Of(other)
<1>1. /\ raw.thing \in 1 .. 2 /\ other.thing \in 1 .. 2
      /\ raw.from \in Name /\ other.from \in Name
      /\ n = Normalisers[raw.from] /\ m = Normalisers[other.from]
  BY IdTypes
<1> HIDE DEF n, m
<1>2. /\ (n.type = m.type /\ n.mark = m.mark /\ n.ids[1] = m.ids[1])
            <=> (raw.from = other.from \/ {raw.from, other.from} = {"batch", "line"})
      /\ n.type = m.type /\ n.mark = m.mark /\ Len(m.ids) = 2 => n.ids[1] # m.ids[2]
      /\ n.type = m.type /\ n.mark = m.mark /\ Len(n.ids) = 2 => m.ids[1] # n.ids[2]
      /\ n.ids[1] # "hash" /\ m.ids[1] # "hash"
  BY <1>1, FieldsTell DEF Type, Mark, First, Second, Ids
<1>3. CASE "id" \in raw.has /\ "id" \in other.has
  <2>1. /\ SourceId(raw, 1) = <<n.mark, n.ids[1], raw.thing>>
        /\ SourceId(other, 2) = <<m.mark, m.ids[1], other.thing>>
    BY <1>3 DEF SourceId, n, m
  <2>2. Document(raw, 1) = Document(other, 2)
          <=> /\ n.type = m.type /\ n.mark = m.mark /\ n.ids[1] = m.ids[1]
              /\ raw.thing = other.thing
    BY <2>1, DocumentParts DEF n, m
  <2> QED
    BY <1>2, <1>3, <2>2 DEF ToldApart, SameThing
<1>4. CASE "id" \in raw.has /\ "id" \notin other.has
  <2>1. SourceId(raw, 1) = <<n.mark, n.ids[1], raw.thing>>
    BY <1>4 DEF SourceId, n
  <2>2. \/ SourceId(other, 2) = <<m.mark, m.ids[2], IF m.shared THEN 0 ELSE other.thing>>
             /\ Len(m.ids) = 2
        \/ SourceId(other, 2) = <<m.mark, "hash", other.thing, 2>>
        \/ SourceId(other, 2) = <<m.mark>>
    BY <1>4 DEF SourceId, m
  <2>3. ~(n.type = m.type /\ SourceId(raw, 1) = SourceId(other, 2))
    BY <1>2, <2>1, <2>2
  <2> QED
    BY <1>4, <2>3, DocumentParts DEF ToldApart, n, m
<1>5. CASE "id" \notin raw.has /\ "id" \in other.has
  <2>1. SourceId(other, 2) = <<m.mark, m.ids[1], other.thing>>
    BY <1>5 DEF SourceId, m
  <2>2. \/ SourceId(raw, 1) = <<n.mark, n.ids[2], IF n.shared THEN 0 ELSE raw.thing>>
             /\ Len(n.ids) = 2
        \/ SourceId(raw, 1) = <<n.mark, "hash", raw.thing, 1>>
        \/ SourceId(raw, 1) = <<n.mark>>
    BY <1>5 DEF SourceId, n
  <2>3. ~(n.type = m.type /\ SourceId(raw, 1) = SourceId(other, 2))
    BY <1>2, <2>1, <2>2
  <2> QED
    BY <1>5, <2>3, DocumentParts DEF ToldApart, n, m
<1>6. CASE "id" \notin raw.has /\ "id" \notin other.has
  BY <1>6 DEF ToldApart
<1> QED
  BY <1>3, <1>4, <1>5, <1>6

-----------------------------------------------------------------------------
(* The code in a brief: frames, and the sources that are asked for them.   *)

(* A line of a trace, as the frames are told apart.                        *)
TraceLine == [file : File \cup {"none"}, line : Nat]

(* The entries of a list that are in S, in their order.                     *)
Selected(s, X, list, S, n) ==
  /\ s \in Seq(X)
  /\ \A k \in 1 .. Len(s) : s[k] \in S /\ \E i \in 1 .. n : s[k] = list[i]
  /\ \A i \in 1 .. n : list[i] \in S => \E k \in 1 .. Len(s) : s[k] = list[i]
  /\ \A j, k \in 1 .. Len(s) : j < k =>
       \E a, b \in 1 .. n : a < b /\ s[j] = list[a] /\ s[k] = list[b]

(* One more entry is selected if it is in the set.                         *)
LEMMA SelectedMore ==
  ASSUME NEW X, NEW list \in Seq(X), NEW S, NEW n \in 1 .. Len(list), NEW s,
         Selected(s, X, list, S, n - 1)
  PROVE  IF list[n] \in S THEN Selected(Append(s, list[n]), X, list, S, n)
         ELSE Selected(s, X, list, S, n)
<1> DEFINE e == list[n]
           m == Len(s)
           a == Append(s, e)
<1>0. /\ s \in Seq(X) /\ e \in X /\ m \in Nat
      /\ \A i \in 1 .. n - 1 : i \in 1 .. n /\ i < n
      /\ \A i \in 1 .. n : i \in 1 .. n - 1 \/ i = n
      /\ n \in 1 .. n
  BY DEF Selected
<1>s. /\ \A k \in 1 .. m : s[k] \in S /\ \E i \in 1 .. n - 1 : s[k] = list[i]
      /\ \A i \in 1 .. n - 1 : list[i] \in S => \E k \in 1 .. m : s[k] = list[i]
      /\ \A j, k \in 1 .. m : j < k =>
           \E b, c \in 1 .. n - 1 : b < c /\ s[j] = list[b] /\ s[k] = list[c]
  BY DEF Selected
<1>1. CASE e \notin S
  <2>1. \A k \in 1 .. m : s[k] \in S /\ \E i \in 1 .. n : s[k] = list[i]
    BY <1>0, <1>s
  <2>2. \A i \in 1 .. n : list[i] \in S => \E k \in 1 .. m : s[k] = list[i]
    BY <1>0, <1>1, <1>s
  <2>3. \A j, k \in 1 .. m : j < k =>
          \E b, c \in 1 .. n : b < c /\ s[j] = list[b] /\ s[k] = list[c]
    BY <1>0, <1>s
  <2>4. Selected(s, X, list, S, n)
    BY <1>0, <2>1, <2>2, <2>3 DEF Selected
  <2> QED BY <1>1, <2>4
<1>2. CASE e \in S
  <2>1. /\ a \in Seq(X) /\ Len(a) = m + 1
        /\ \A k \in 1 .. m : a[k] = s[k]
        /\ a[m + 1] = e
    BY <1>0
  <2>2. /\ \A k \in 1 .. m + 1 : k \in 1 .. m \/ k = m + 1
        /\ \A k \in 1 .. m : k \in 1 .. m + 1
        /\ m + 1 \in 1 .. m + 1
    BY <1>0
  <2> HIDE DEF a, m
  <2>3. \A k \in 1 .. m + 1 : a[k] \in S /\ \E i \in 1 .. n : a[k] = list[i]
    <3> SUFFICES ASSUME NEW k \in 1 .. m + 1 PROVE a[k] \in S /\ \E i \in 1 .. n : a[k] = list[i]
      OBVIOUS
    <3>1. CASE k = m + 1
      BY <1>0, <1>2, <2>1, <3>1
    <3>2. CASE k \in 1 .. m
      <4>1. /\ a[k] = s[k] /\ s[k] \in S
            /\ \E i \in 1 .. n - 1 : s[k] = list[i]
        BY <1>s, <2>1, <3>2
      <4> QED BY <1>0, <4>1
    <3> QED BY <2>2, <3>1, <3>2
  <2>4. \A i \in 1 .. n : list[i] \in S => \E k \in 1 .. m + 1 : a[k] = list[i]
    <3> SUFFICES ASSUME NEW i \in 1 .. n, list[i] \in S PROVE \E k \in 1 .. m + 1 : a[k] = list[i]
      OBVIOUS
    <3>1. CASE i = n
      BY <2>1, <2>2, <3>1
    <3>2. CASE i \in 1 .. n - 1
      BY <1>s, <2>1, <2>2, <3>2
    <3> QED BY <1>0, <3>1, <3>2
  <2>5. \A j, k \in 1 .. m + 1 : j < k =>
          \E b, c \in 1 .. n : b < c /\ a[j] = list[b] /\ a[k] = list[c]
    <3> SUFFICES ASSUME NEW j \in 1 .. m + 1, NEW k \in 1 .. m + 1, j < k
                 PROVE  \E b, c \in 1 .. n : b < c /\ a[j] = list[b] /\ a[k] = list[c]
      OBVIOUS
    <3>0. j \in 1 .. m
      BY <1>0
    <3>1. CASE k = m + 1
      <4>1. PICK b \in 1 .. n - 1 : s[j] = list[b]
        BY <1>s, <3>0
      <4>2. b \in 1 .. n /\ b < n /\ a[j] = list[b] /\ a[k] = list[n]
        BY <1>0, <2>1, <3>0, <3>1, <4>1
      <4> QED BY <1>0, <4>2
    <3>2. CASE k \in 1 .. m
      <4>1. PICK b \in 1 .. n - 1, c \in 1 .. n - 1 : b < c /\ s[j] = list[b] /\ s[k] = list[c]
        BY <1>s, <3>0, <3>2
      <4> QED BY <1>0, <2>1, <3>0, <3>2, <4>1
    <3> QED BY <2>2, <3>1, <3>2
  <2>6. Selected(a, X, list, S, n)
    BY <2>1, <2>3, <2>4, <2>5 DEF Selected, m
  <2> QED BY <1>2, <2>6 DEF a
<1> QED
  BY <1>1, <1>2

(* A list comprehension selects the entries that are in the set.           *)
LEMMA OnlyIs ==
  ASSUME NEW X, NEW list \in Seq(X), NEW S
  PROVE  Selected(Only(list, S), X, list, S, Len(list))
<1> DEFINE N == Len(list)
           F == OnlyLoop(list, S)
           T == {n \in 0 .. N : Selected(F[n], X, list, S, n)}
<1>0. N \in Nat
  OBVIOUS
<1>1. /\ Only(list, S) = F[N] /\ F[0] = <<>>
      /\ \A n \in 1 .. N :
           F[n] = IF list[n] \in S THEN Append(F[n - 1], list[n]) ELSE F[n - 1]
  BY OnlyLoopIs
<1> HIDE DEF F
<1>2. 0 \in T
  <2>1. ASSUME NEW s, s = <<>> PROVE Selected(s, X, list, S, 0)
    <3>1. s \in Seq(X) /\ Len(s) = 0
      BY <2>1
    <3> QED BY <3>1 DEF Selected
  <2> QED BY <1>0, <1>1, <2>1
<1>3. ASSUME NEW n \in 1 .. N, n - 1 \in T PROVE n \in T
  <2> DEFINE s == F[n - 1]
  <2>1. Selected(s, X, list, S, n - 1) /\ n \in 0 .. N
    BY <1>0, <1>3
  <2>2. F[n] = IF list[n] \in S THEN Append(s, list[n]) ELSE s
    BY <1>1
  <2> HIDE DEF s
  <2>3. Selected(F[n], X, list, S, n)
    BY <2>1, <2>2, SelectedMore
  <2> QED BY <2>1, <2>3
<1>4. 0 .. N \subseteq T
  <2> HIDE DEF T, N
  <2> QED BY <1>0, <1>2, <1>3, LoopInduction
<1> QED
  BY <1>0, <1>1, <1>4

(* The first line with a frame.                                             *)
LEMMA FirstAtIs ==
  ASSUME NEW X, NEW lines \in Seq(X), NEW i \in 1 .. Len(lines)
  PROVE  /\ FirstAt(lines, lines[i]) \in 1 .. Len(lines)
         /\ FirstAt(lines, lines[i]) <= i
         /\ lines[FirstAt(lines, lines[i])] = lines[i]
<1> DEFINE x == lines[i]
           S == {n \in 1 .. Len(lines) : lines[n] = x}
<1>1. PICK m \in S : \A n \in S : m <= n
  <2>1. S \in SUBSET Nat /\ i \in S
    OBVIOUS
  <2> HIDE DEF S
  <2> QED BY <2>1, LeastOfNat
<1>2. DOMAIN lines = 1 .. Len(lines) /\ Len(lines) \in Nat
  OBVIOUS
<1>3. m \in DOMAIN lines /\ lines[m] = x /\ \A k \in 1 .. m - 1 : lines[k] # x
  BY <1>1, <1>2
<1> DEFINE f == FirstAt(lines, x)
<1>4. f \in DOMAIN lines /\ lines[f] = x /\ \A k \in 1 .. f - 1 : lines[k] # x
  BY <1>3 DEF FirstAt
<1> HIDE DEF f, x
<1>5. f <= i
  BY <1>2, <1>4 DEF x
<1> QED
  BY <1>2, <1>4, <1>5 DEF f, x

(* The search for frames, after each line.                                 *)
FramesLoop(lines) ==
  CHOOSE seen : seen = [n \in 0 .. Len(lines) |->
    IF n = 0 THEN <<>>
    ELSE IF lines[n] = Noise \/ Contains(seen[n - 1], lines[n])
         THEN seen[n - 1] ELSE Append(seen[n - 1], lines[n])]

(* The loop of Frames.                                                     *)
LEMMA FramesLoopIs ==
  ASSUME NEW X, NEW lines \in Seq(X)
  PROVE  /\ Frames(lines) = FramesLoop(lines)[Len(lines)]
         /\ FramesLoop(lines)[0] = <<>>
         /\ \A n \in 1 .. Len(lines) :
              FramesLoop(lines)[n] =
                IF lines[n] = Noise \/ Contains(FramesLoop(lines)[n - 1], lines[n])
                THEN FramesLoop(lines)[n - 1]
                ELSE Append(FramesLoop(lines)[n - 1], lines[n])
<1> DEFINE N == Len(lines)
           Def(f) == [n \in 0 .. Len(lines) |->
             IF n = 0 THEN <<>>
             ELSE IF lines[n] = Noise \/ Contains(f[n - 1], lines[n])
                  THEN f[n - 1] ELSE Append(f[n - 1], lines[n])]
           step == [n \in 1 .. N |-> [s \in Seq(X) |->
             IF lines[n] = Noise \/ Contains(s, lines[n]) THEN s ELSE Append(s, lines[n])]]
           F == FramesLoop(lines)
<1>1. Frames(lines) = F[Len(lines)]
  BY DEF Frames, FramesLoop
<1>2. IsLoop(N, Seq(X), <<>>, step)
  BY DEF IsLoop
<1>3. \E f : f = Def(f)
  <2>0. PICK f : Computes(f, N, Seq(X), <<>>, step)
    <3> HIDE DEF step, N
    <3> QED BY <1>2, LoopExists
  <2>1. /\ f \in [0 .. N -> Seq(X)] /\ f[0] = <<>>
        /\ \A n \in 1 .. N : f[n] = step[n][f[n - 1]]
    <3> HIDE DEF step, N
    <3> QED BY <2>0 DEF Computes
  <2>2. ASSUME NEW n \in 0 .. N PROVE f[n] = Def(f)[n]
    <3>1. CASE n = 0
      BY <2>1, <3>1
    <3>2. CASE n # 0
      <4>1. n \in 1 .. N /\ n - 1 \in 0 .. N
        BY <3>2
      <4> QED BY <2>1, <3>2, <4>1
    <3> QED BY <3>1, <3>2
  <2>3. f = Def(f)
    BY <2>1, <2>2
  <2> QED BY <2>3
<1>4. F = Def(F)
  BY <1>3, Zenon DEF FramesLoop
<1> QED
  <2>1. ASSUME NEW f
        PROVE  /\ Def(f)[0] = <<>>
               /\ \A n \in 1 .. N :
                    Def(f)[n] = IF lines[n] = Noise \/ Contains(f[n - 1], lines[n])
                                THEN f[n - 1] ELSE Append(f[n - 1], lines[n])
    OBVIOUS
  <2> HIDE DEF F, Def
  <2> QED BY <1>1, <1>4, <2>1 DEF F

(* What of the first n lines has been seen: its frames, each once, ordered  *)
(* by where they are first.                                                 *)
Seen(s, X, lines, n) ==
  /\ s \in Seq(X)
  /\ \A k \in 1 .. Len(s) : s[k] # Noise /\ \E i \in 1 .. n : s[k] = lines[i]
  /\ \A k \in 1 .. Len(s) : FirstAt(lines, s[k]) \in 1 .. n
  /\ \A i \in 1 .. n : lines[i] # Noise => \E k \in 1 .. Len(s) : s[k] = lines[i]
  /\ \A j, k \in 1 .. Len(s) : j < k => FirstAt(lines, s[j]) < FirstAt(lines, s[k])

(* One more line: a frame that has been seen adds nothing.                 *)
LEMMA SeenMore ==
  ASSUME NEW X, NEW lines \in Seq(X), NEW n \in 1 .. Len(lines), NEW s,
         Seen(s, X, lines, n - 1)
  PROVE  IF lines[n] = Noise \/ Contains(s, lines[n]) THEN Seen(s, X, lines, n)
         ELSE Seen(Append(s, lines[n]), X, lines, n)
<1> DEFINE e == lines[n]
           m == Len(s)
           a == Append(s, e)
<1>0. /\ s \in Seq(X) /\ e \in X /\ m \in Nat
      /\ \A i \in 1 .. n - 1 : i \in 1 .. n /\ i < n
      /\ \A i \in 1 .. n : i \in 1 .. n - 1 \/ i = n
      /\ n \in 1 .. n
  BY DEF Seen
<1>s. /\ \A k \in 1 .. m : s[k] # Noise /\ \E i \in 1 .. n - 1 : s[k] = lines[i]
      /\ \A k \in 1 .. m : FirstAt(lines, s[k]) \in 1 .. n - 1
      /\ \A i \in 1 .. n - 1 : lines[i] # Noise => \E k \in 1 .. m : s[k] = lines[i]
      /\ \A j, k \in 1 .. m : j < k => FirstAt(lines, s[j]) < FirstAt(lines, s[k])
  BY DEF Seen
<1>1. CASE e = Noise \/ Contains(s, e)
  <2>1. \A k \in 1 .. m : s[k] # Noise /\ \E i \in 1 .. n : s[k] = lines[i]
    BY <1>0, <1>s
  <2>2. \A i \in 1 .. n : lines[i] # Noise => \E k \in 1 .. m : s[k] = lines[i]
    BY <1>0, <1>1, <1>s DEF Contains
  <2>3. \A k \in 1 .. m : FirstAt(lines, s[k]) \in 1 .. n
    BY <1>0, <1>s
  <2>4. Seen(s, X, lines, n)
    BY <1>0, <1>s, <2>1, <2>2, <2>3 DEF Seen
  <2> QED BY <1>1, <2>4
<1>2. CASE ~(e = Noise \/ Contains(s, e))
  <2>0. FirstAt(lines, e) = n
    <3>1. /\ FirstAt(lines, e) \in 1 .. Len(lines) /\ FirstAt(lines, e) <= n
          /\ lines[FirstAt(lines, e)] = e
      BY FirstAtIs
    <3> DEFINE f == FirstAt(lines, e)
    <3> HIDE DEF f
    <3>2. f \notin 1 .. n - 1
      BY <1>2, <1>s, <3>1 DEF Contains, f
    <3> QED BY <3>1, <3>2 DEF f
  <2>1. /\ a \in Seq(X) /\ Len(a) = m + 1
        /\ \A k \in 1 .. m : a[k] = s[k]
        /\ a[m + 1] = e
    BY <1>0
  <2>2. /\ \A k \in 1 .. m + 1 : k \in 1 .. m \/ k = m + 1
        /\ \A k \in 1 .. m : k \in 1 .. m + 1
        /\ m + 1 \in 1 .. m + 1
    BY <1>0
  <2> HIDE DEF a, m
  <2>3. ASSUME NEW k \in 1 .. m + 1
        PROVE  a[k] # Noise /\ (\E i \in 1 .. n : a[k] = lines[i]) /\ FirstAt(lines, a[k]) \in 1 .. n
    <3>1. CASE k = m + 1
      BY <1>0, <1>2, <2>0, <2>1, <3>1
    <3>2. CASE k \in 1 .. m
      <4>1. /\ a[k] = s[k] /\ s[k] # Noise /\ FirstAt(lines, s[k]) \in 1 .. n - 1
            /\ \E i \in 1 .. n - 1 : s[k] = lines[i]
        BY <1>s, <2>1, <3>2
      <4> QED BY <1>0, <4>1
    <3> QED BY <2>2, <3>1, <3>2
  <2>4. \A i \in 1 .. n : lines[i] # Noise => \E k \in 1 .. m + 1 : a[k] = lines[i]
    <3> SUFFICES ASSUME NEW i \in 1 .. n, lines[i] # Noise PROVE \E k \in 1 .. m + 1 : a[k] = lines[i]
      OBVIOUS
    <3>1. CASE i = n
      BY <2>1, <2>2, <3>1
    <3>2. CASE i \in 1 .. n - 1
      BY <1>s, <2>1, <2>2, <3>2
    <3> QED BY <1>0, <3>1, <3>2
  <2>5. \A j, k \in 1 .. m + 1 : j < k => FirstAt(lines, a[j]) < FirstAt(lines, a[k])
    <3> SUFFICES ASSUME NEW j \in 1 .. m + 1, NEW k \in 1 .. m + 1, j < k
                 PROVE  FirstAt(lines, a[j]) < FirstAt(lines, a[k])
      OBVIOUS
    <3>0. j \in 1 .. m /\ a[j] = s[j] /\ FirstAt(lines, s[j]) \in 1 .. n - 1
      <4>1. j \in 1 .. m
        BY <1>0
      <4> QED BY <1>s, <2>1, <4>1
    <3>1. CASE k = m + 1
      BY <1>0, <2>0, <2>1, <3>0, <3>1
    <3>2. CASE k \in 1 .. m
      BY <1>s, <2>1, <3>0, <3>2
    <3> QED BY <2>2, <3>1, <3>2
  <2>6. Seen(a, X, lines, n)
    BY <2>1, <2>3, <2>4, <2>5 DEF Seen, m
  <2> QED BY <1>2, <2>6 DEF a
<1> QED
  BY <1>1, <1>2

(* All frames of a trace are seen.                                         *)
LEMMA FramesIs ==
  ASSUME NEW X, NEW lines \in Seq(X)
  PROVE  Seen(Frames(lines), X, lines, Len(lines))
<1> DEFINE N == Len(lines)
           F == FramesLoop(lines)
           T == {n \in 0 .. N : Seen(F[n], X, lines, n)}
<1>0. N \in Nat
  OBVIOUS
<1>1. /\ Frames(lines) = F[N] /\ F[0] = <<>>
      /\ \A n \in 1 .. N :
           F[n] = IF lines[n] = Noise \/ Contains(F[n - 1], lines[n])
                  THEN F[n - 1] ELSE Append(F[n - 1], lines[n])
  BY FramesLoopIs
<1> HIDE DEF F
<1>2. 0 \in T
  <2>1. ASSUME NEW s, s = <<>> PROVE Seen(s, X, lines, 0)
    <3>1. s \in Seq(X) /\ Len(s) = 0
      BY <2>1
    <3> QED BY <3>1 DEF Seen
  <2> QED BY <1>0, <1>1, <2>1
<1>3. ASSUME NEW n \in 1 .. N, n - 1 \in T PROVE n \in T
  <2> DEFINE s == F[n - 1]
  <2>1. Seen(s, X, lines, n - 1) /\ n \in 0 .. N
    BY <1>0, <1>3
  <2>2. F[n] = IF lines[n] = Noise \/ Contains(s, lines[n]) THEN s ELSE Append(s, lines[n])
    BY <1>1
  <2> HIDE DEF s
  <2>3. Seen(F[n], X, lines, n)
    BY <2>1, <2>2, SeenMore
  <2> QED BY <2>1, <2>3
<1>4. 0 .. N \subseteq T
  <2> HIDE DEF T, N
  <2> QED BY <1>0, <1>2, <1>3, LoopInduction
<1> QED
  BY <1>0, <1>1, <1>4

(* The frames that are first seen after one.                                *)
Deeper(lines, f) == {g \in ToSet(lines) \ {Noise, f} : FirstAt(lines, g) > FirstAt(lines, f)}

(* The frames that are kept: fewer than MaxFrames are deeper.              *)
Innermost(lines) == {f \in ToSet(lines) \ {Noise} : ~(Cardinality(Deeper(lines, f)) >= MaxFrames)}

(* A list of the frames of S, the inner before the outer.                   *)
Inward(s, X, lines, S) ==
  /\ s \in Seq(X)
  /\ \A k \in 1 .. Len(s) : s[k] \in S
  /\ \A f \in S : \E k \in 1 .. Len(s) : s[k] = f
  /\ \A j, k \in 1 .. Len(s) : j < k => FirstAt(lines, s[k]) < FirstAt(lines, s[j])

(* As many frames are deeper than one as follow it.                        *)
LEMMA DeeperIs ==
  ASSUME NEW X, NEW lines \in Seq(X), NEW s, Seen(s, X, lines, Len(lines)),
         NEW i \in 1 .. Len(s)
  PROVE  /\ IsFiniteSet(Deeper(lines, s[i]))
         /\ Cardinality(Deeper(lines, s[i])) = Len(s) - i
<1> DEFINE L == Len(s)
           D == Deeper(lines, s[i])
           f == [j \in i + 1 .. L |-> s[j]]
<1>0. /\ s \in Seq(X) /\ L \in Nat /\ i \in 1 .. L /\ i \in Nat
      /\ Len(lines) \in Nat /\ ToSet(lines) = {lines[n] : n \in 1 .. Len(lines)}
      /\ \A j \in i + 1 .. L : j \in 1 .. L /\ i < j
  BY DEF Seen, ToSet
<1>s. /\ \A k \in 1 .. L : s[k] # Noise /\ \E n \in 1 .. Len(lines) : s[k] = lines[n]
      /\ \A k \in 1 .. L : FirstAt(lines, s[k]) \in 1 .. Len(lines)
      /\ \A n \in 1 .. Len(lines) : lines[n] # Noise => \E k \in 1 .. L : s[k] = lines[n]
      /\ \A j, k \in 1 .. L : j < k => FirstAt(lines, s[j]) < FirstAt(lines, s[k])
  BY DEF Seen
<1>m. \A k \in 1 .. L : FirstAt(lines, s[k]) \in Nat
  BY <1>s
<1> HIDE DEF L
<1>1. \A j \in i + 1 .. L : s[j] \in D
  <2> SUFFICES ASSUME NEW j \in i + 1 .. L PROVE s[j] \in D
    OBVIOUS
  <2>1. j \in 1 .. L /\ i < j /\ FirstAt(lines, s[i]) < FirstAt(lines, s[j])
    BY <1>0, <1>s
  <2>2. s[j] \in ToSet(lines) /\ s[j] # Noise
    BY <1>0, <1>s, <2>1
  <2>3. FirstAt(lines, s[i]) \in Nat /\ FirstAt(lines, s[j]) \in Nat
    BY <1>m, <1>0, <2>1
  <2>4. s[j] # s[i] /\ FirstAt(lines, s[j]) > FirstAt(lines, s[i])
    BY <2>1, <2>3
  <2> QED BY <2>2, <2>4 DEF Deeper
<1>2. \A g \in D : \E j \in i + 1 .. L : s[j] = g
  <2> SUFFICES ASSUME NEW g \in D PROVE \E j \in i + 1 .. L : s[j] = g
    OBVIOUS
  <2>1. g \in ToSet(lines) /\ g # Noise /\ g # s[i] /\ FirstAt(lines, g) > FirstAt(lines, s[i])
    BY DEF Deeper
  <2>2. PICK j \in 1 .. L : s[j] = g
    BY <1>0, <1>s, <2>1
  <2>3. j # i /\ ~(j < i)
    BY <1>0, <1>m, <1>s, <2>1, <2>2
  <2>4. j \in i + 1 .. L
    BY <1>0, <2>2, <2>3
  <2> QED BY <2>2, <2>4
<1>3. \A j, k \in i + 1 .. L : s[j] = s[k] => j = k
  <2> SUFFICES ASSUME NEW j \in i + 1 .. L, NEW k \in i + 1 .. L, j < k, s[j] = s[k] PROVE FALSE
    BY <1>0
  <2>1. FirstAt(lines, s[j]) < FirstAt(lines, s[k]) /\ FirstAt(lines, s[j]) \in Nat
    BY <1>0, <1>s, <1>m
  <2> QED BY <2>1
<1> HIDE DEF D
<1>4. f \in Bijection(i + 1 .. L, D)
  <2> DEFINE R == i + 1 .. L
  <2> HIDE DEF R
  <2>1. f \in [R -> D] /\ \A j \in R : f[j] = s[j]
    BY <1>1 DEF R
  <2>2. (\A j, k \in R : f[j] = f[k] => j = k) /\ (\A g \in D : \E j \in R : f[j] = g)
    BY <1>2, <1>3, <2>1 DEF R
  <2> HIDE DEF f
  <2>3. f \in Bijection(R, D)
    BY <2>1, <2>2 DEF Bijection, Injection, Surjection, IsInjective
  <2> QED BY <2>3 DEF R
<1>5. IsFiniteSet(i + 1 .. L) /\ Cardinality(i + 1 .. L) = L - i
  <2>1. ASSUME NEW a \in Int, NEW b \in Int
        PROVE  /\ IsFiniteSet(a .. b)
               /\ Cardinality(a .. b) = IF a > b THEN 0 ELSE b - a + 1
    BY FS_Interval
  <2>2. i + 1 \in Int /\ L \in Int
    BY <1>0
  <2>3. /\ IsFiniteSet(i + 1 .. L)
        /\ Cardinality(i + 1 .. L) = IF i + 1 > L THEN 0 ELSE L - (i + 1) + 1
    <3> DEFINE a == i + 1
    <3> HIDE DEF a
    <3>1. /\ IsFiniteSet(a .. L)
          /\ Cardinality(a .. L) = IF a > L THEN 0 ELSE L - a + 1
      BY <2>1, <2>2, Zenon DEF a
    <3> QED BY <3>1 DEF a
  <2> QED BY <1>0, <2>3
<1> HIDE DEF f
<1>6. IsFiniteSet(D) /\ Cardinality(D) = Cardinality(i + 1 .. L)
  BY <1>4, <1>5, FS_Bijection DEF ExistsBijection
<1> QED
  BY <1>5, <1>6 DEF D, L

(* The parsed frames are the innermost ones, the inner before the outer.   *)
LEMMA ParsedIs ==
  ASSUME NEW X, NEW lines \in Seq(X)
  PROVE  Inward(ParseTraceback(lines), X, lines, Innermost(lines))
<1> DEFINE s == Frames(lines)
           L == Len(s)
           first == IF L > MaxFrames THEN L - MaxFrames + 1 ELSE 1
           r == ParseTraceback(lines)
           m == L - first + 1
<1>0. Seen(s, X, lines, Len(lines))
  BY FramesIs
<1>1. s \in Seq(X) /\ L \in Nat /\ MaxFrames \in Nat
  BY <1>0, BriefAssumption DEF Seen
<1> HIDE DEF s
<1>2. first \in Nat \ {0} /\ first <= L + 1 /\ m \in Nat /\ m <= L /\ m = L - first + 1
  BY <1>1
<1>r. \A i \in 1 .. L : L - i < MaxFrames <=> L - i + 1 <= m
  BY <1>1
<1> HIDE DEF L, m, first
<1>3. r = Reverse(SubSeq(s, first, L))
  BY DEF ParseTraceback, s, L, first
<1>4. r \in Seq(X) /\ Len(r) = m /\ \A k \in 1 .. m : r[k] = s[L - k + 1]
  <2> DEFINE u == SubSeq(s, first, L)
  <2>1. u \in Seq(X) /\ Len(u) = m /\ \A k \in 1 .. m : u[k] = s[first + k - 1]
    BY <1>1, <1>2 DEF L
  <2>2. r = [k \in 1 .. m |-> u[m - k + 1]]
    BY <1>3, <2>1 DEF Reverse
  <2> HIDE DEF u, r
  <2>3. \A k \in 1 .. m : /\ m - k + 1 \in 1 .. m
                          /\ first + (m - k + 1) - 1 = L - k + 1
    BY <1>1, <1>2
  <2>4. \A k \in 1 .. m : u[m - k + 1] \in X /\ u[m - k + 1] = s[L - k + 1]
    BY <1>1, <1>2, <2>1, <2>3
  <2>5. r \in Seq(X)
    BY <1>2, <2>2, <2>4
  <2>6. Len(r) = m
    BY <1>2, <2>2
  <2> QED BY <2>2, <2>4, <2>5, <2>6
<1>s. /\ \A k \in 1 .. L : s[k] # Noise /\ \E n \in 1 .. Len(lines) : s[k] = lines[n]
      /\ \A n \in 1 .. Len(lines) : lines[n] # Noise => \E k \in 1 .. L : s[k] = lines[n]
      /\ \A j, k \in 1 .. L : j < k => FirstAt(lines, s[j]) < FirstAt(lines, s[k])
  BY <1>0 DEF Seen, L
<1>5. ToSet(lines) = {lines[n] : n \in 1 .. Len(lines)}
  BY DEF ToSet
<1>6. \A i \in 1 .. L : s[i] \in Innermost(lines) <=> L - i + 1 <= m
  <2> SUFFICES ASSUME NEW i \in 1 .. L PROVE s[i] \in Innermost(lines) <=> L - i + 1 <= m
    OBVIOUS
  <2>1. Cardinality(Deeper(lines, s[i])) = L - i
    BY <1>0, DeeperIs DEF L
  <2>2. s[i] \in ToSet(lines) \ {Noise}
    BY <1>s, <1>5
  <2>3. L - i < MaxFrames <=> L - i + 1 <= m
    BY <1>r
  <2>4. ~(L - i >= MaxFrames) <=> L - i < MaxFrames
    BY <1>1
  <2> QED BY <2>1, <2>2, <2>3, <2>4 DEF Innermost
<1>7. \A k \in 1 .. m : L - k + 1 \in 1 .. L /\ L - (L - k + 1) + 1 <= m
  BY <1>1, <1>2
<1> HIDE DEF r
<1>8. \A k \in 1 .. m : r[k] \in Innermost(lines)
  BY <1>4, <1>6, <1>7
<1>9. \A f \in Innermost(lines) : \E k \in 1 .. m : r[k] = f
  <2> SUFFICES ASSUME NEW f \in Innermost(lines) PROVE \E k \in 1 .. m : r[k] = f
    OBVIOUS
  <2>1. PICK i \in 1 .. L : s[i] = f
    BY <1>s, <1>5 DEF Innermost
  <2>2. L - i + 1 <= m
    BY <1>6, <2>1
  <2>3. L - i + 1 \in 1 .. m /\ L - (L - i + 1) + 1 = i
    BY <1>1, <1>2, <2>1, <2>2
  <2> QED BY <1>4, <2>1, <2>3
<1>10. \A j, k \in 1 .. m : j < k => FirstAt(lines, r[k]) < FirstAt(lines, r[j])
  <2> SUFFICES ASSUME NEW j \in 1 .. m, NEW k \in 1 .. m, j < k
               PROVE  FirstAt(lines, r[k]) < FirstAt(lines, r[j])
    OBVIOUS
  <2>1. L - k + 1 \in 1 .. L /\ L - j + 1 \in 1 .. L /\ L - k + 1 < L - j + 1
    BY <1>1, <1>2, <1>7
  <2> QED BY <1>4, <1>s, <2>1
<1> QED
  BY <1>4, <1>8, <1>9, <1>10 DEF Inward, r, m, L

(* A filter of such a list is such a list.                                  *)
LEMMA OnlyInward ==
  ASSUME NEW X, NEW lines, NEW s, NEW S, Inward(s, X, lines, S), NEW A
  PROVE  Inward(Only(s, A), X, lines, S \cap A)
<1> DEFINE t == Only(s, A)
           N == Len(s)
<1>1. /\ s \in Seq(X) /\ \A k \in 1 .. N : s[k] \in S
      /\ \A f \in S : \E k \in 1 .. N : s[k] = f
      /\ \A j, k \in 1 .. N : j < k => FirstAt(lines, s[k]) < FirstAt(lines, s[j])
  BY DEF Inward
<1>2. Selected(t, X, s, A, N)
  BY <1>1, OnlyIs
<1> HIDE DEF t, N
<1>3. /\ t \in Seq(X)
      /\ \A k \in 1 .. Len(t) : t[k] \in A /\ \E i \in 1 .. N : t[k] = s[i]
      /\ \A i \in 1 .. N : s[i] \in A => \E k \in 1 .. Len(t) : t[k] = s[i]
      /\ \A j, k \in 1 .. Len(t) : j < k =>
           \E a, b \in 1 .. N : a < b /\ t[j] = s[a] /\ t[k] = s[b]
  BY <1>2 DEF Selected
<1>4. \A k \in 1 .. Len(t) : t[k] \in S \cap A
  BY <1>1, <1>3
<1>5. \A f \in S \cap A : \E k \in 1 .. Len(t) : t[k] = f
  <2> SUFFICES ASSUME NEW f \in S, f \in A PROVE \E k \in 1 .. Len(t) : t[k] = f
    OBVIOUS
  <2>1. PICK i \in 1 .. N : s[i] = f
    BY <1>1
  <2> QED BY <1>3, <2>1
<1>6. \A j, k \in 1 .. Len(t) : j < k => FirstAt(lines, t[k]) < FirstAt(lines, t[j])
  <2> SUFFICES ASSUME NEW j \in 1 .. Len(t), NEW k \in 1 .. Len(t), j < k
               PROVE  FirstAt(lines, t[k]) < FirstAt(lines, t[j])
    OBVIOUS
  <2>1. PICK a \in 1 .. N, b \in 1 .. N : a < b /\ t[j] = s[a] /\ t[k] = s[b]
    BY <1>3
  <2> QED BY <1>1, <2>1
<1> QED
  BY <1>3, <1>4, <1>5, <1>6 DEF Inward, t

(* What a source answers for a frame.                                      *)
Answer(X) == [frame : X, source : {"github", "bitbucket", "local"}, repo : Nat]

(* What was found of the frames of S, each from its source: of one source   *)
(* the inner before the outer.                                              *)
Answers(found, X, lines, S, source) ==
  /\ found \in Seq(Answer(X))
  /\ \A k \in 1 .. Len(found) : /\ found[k].frame \in S
                                /\ found[k].source = source[found[k].frame]
  /\ \A f \in S : \E k \in 1 .. Len(found) : found[k].frame = f
  /\ \A j, k \in 1 .. Len(found) : j < k /\ found[j].source = found[k].source =>
       FirstAt(lines, found[k].frame) < FirstAt(lines, found[j].frame)

(* Such a list with a source for each of its frames.                       *)
LEMMA LabelledIs ==
  ASSUME NEW X, NEW lines, NEW s, NEW S, Inward(s, X, lines, S),
         NEW label \in {"github", "bitbucket", "local"}, NEW repo \in [1 .. Len(s) -> Nat],
         NEW source, \A f \in S : source[f] = label
  PROVE  Answers([i \in 1 .. Len(s) |-> CodeFrame(s[i], label, repo[i])], X, lines, S, source)
<1> DEFINE N == Len(s)
           found == [i \in 1 .. N |-> CodeFrame(s[i], label, repo[i])]
<1>1. /\ s \in Seq(X) /\ N \in Nat /\ \A k \in 1 .. N : s[k] \in S /\ s[k] \in X
      /\ \A f \in S : \E k \in 1 .. N : s[k] = f
      /\ \A j, k \in 1 .. N : j < k => FirstAt(lines, s[k]) < FirstAt(lines, s[j])
  BY DEF Inward
<1>2. \A i \in 1 .. N : /\ found[i] = CodeFrame(s[i], label, repo[i])
                        /\ repo[i] \in Nat
  OBVIOUS
<1> HIDE DEF N
<1>3. \A i \in 1 .. N : /\ found[i] \in Answer(X)
                        /\ found[i].frame = s[i] /\ found[i].source = label
  <2> HIDE DEF found
  <2>1. ASSUME NEW f \in X, NEW r \in Nat
        PROVE  /\ CodeFrame(f, label, r) \in Answer(X)
               /\ CodeFrame(f, label, r).frame = f /\ CodeFrame(f, label, r).source = label
    BY DEF Answer, CodeFrame
  <2> QED BY <1>1, <1>2, <2>1
<1>4. found \in Seq(Answer(X)) /\ Len(found) = N
  <2>1. found \in [1 .. N -> Answer(X)]
    BY <1>3
  <2> HIDE DEF found
  <2> QED BY <1>1, <2>1
<1> HIDE DEF found
<1>5. \A k \in 1 .. N : found[k].frame \in S /\ found[k].source = source[found[k].frame]
  <2> SUFFICES ASSUME NEW k \in 1 .. N
               PROVE  found[k].frame \in S /\ found[k].source = source[found[k].frame]
    OBVIOUS
  <2> QED BY <1>1, <1>3
<1>6. ASSUME NEW j \in 1 .. N, NEW k \in 1 .. N, j < k
      PROVE  FirstAt(lines, found[k].frame) < FirstAt(lines, found[j].frame)
  <2>1. found[k].frame = s[k] /\ found[j].frame = s[j]
    BY <1>3
  <2> QED BY <1>1, <1>6, <2>1
<1>7. ASSUME NEW f \in S PROVE \E k \in 1 .. N : found[k].frame = f
  <2>1. PICK k \in 1 .. N : s[k] = f
    BY <1>1
  <2> QED BY <1>3, <2>1
<1>8. Answers(found, X, lines, S, source)
  <2>1. Len(found) = N
    BY <1>4
  <2> QED BY <1>4, <1>5, <1>6, <1>7, <2>1 DEF Answers
<1> QED
  BY <1>8 DEF found, N

(* What two sources found, one after the other.                            *)
LEMMA JoinedIs ==
  ASSUME NEW X, NEW lines, NEW source,
         NEW a, NEW S, Answers(a, X, lines, S, source),
         NEW b, NEW T, Answers(b, X, lines, T, source),
         \A f \in S, g \in T : source[f] # source[g]
  PROVE  Answers(a \o b, X, lines, S \cup T, source)
<1> DEFINE m == Len(a)
           n == Len(b)
           c == a \o b
<1>1. /\ a \in Seq(Answer(X))
      /\ \A k \in 1 .. m : a[k].frame \in S /\ a[k].source = source[a[k].frame]
      /\ \A f \in S : \E k \in 1 .. m : a[k].frame = f
      /\ \A j, k \in 1 .. m : j < k /\ a[j].source = a[k].source =>
           FirstAt(lines, a[k].frame) < FirstAt(lines, a[j].frame)
  BY DEF Answers
<1>2. /\ b \in Seq(Answer(X))
      /\ \A k \in 1 .. n : b[k].frame \in T /\ b[k].source = source[b[k].frame]
      /\ \A f \in T : \E k \in 1 .. n : b[k].frame = f
      /\ \A j, k \in 1 .. n : j < k /\ b[j].source = b[k].source =>
           FirstAt(lines, b[k].frame) < FirstAt(lines, b[j].frame)
  BY DEF Answers
<1>3. /\ m \in Nat /\ n \in Nat /\ c \in Seq(Answer(X)) /\ Len(c) = m + n
      /\ \A k \in 1 .. m : c[k] = a[k] /\ k \in 1 .. m + n
      /\ \A k \in 1 .. n : c[m + k] = b[k] /\ m + k \in 1 .. m + n
  BY <1>1, <1>2
<1>4. \A k \in 1 .. m + n : k \in 1 .. m \/ (k - m \in 1 .. n /\ m + (k - m) = k /\ k \notin 1 .. m)
  BY <1>3
<1> HIDE DEF c, m, n
<1>5. \A k \in 1 .. m + n :
        \/ k \in 1 .. m /\ c[k] = a[k]
        \/ k - m \in 1 .. n /\ k \notin 1 .. m /\ c[k] = b[k - m]
  BY <1>3, <1>4
<1>6. \A k \in 1 .. m + n : c[k].frame \in S \cup T /\ c[k].source = source[c[k].frame]
  BY <1>1, <1>2, <1>5
<1>7. \A f \in S \cup T : \E k \in 1 .. m + n : c[k].frame = f
  BY <1>1, <1>2, <1>3
<1>8. \A j, k \in 1 .. m + n : j < k /\ c[j].source = c[k].source =>
        FirstAt(lines, c[k].frame) < FirstAt(lines, c[j].frame)
  <2> SUFFICES ASSUME NEW j \in 1 .. m + n, NEW k \in 1 .. m + n, j < k, c[j].source = c[k].source
               PROVE  FirstAt(lines, c[k].frame) < FirstAt(lines, c[j].frame)
    OBVIOUS
  <2>1. CASE k \in 1 .. m
    <3>1. j \in 1 .. m
      BY <1>3, <2>1
    <3> QED BY <1>1, <1>3, <2>1, <3>1
  <2>2. CASE k - m \in 1 .. n /\ c[k] = b[k - m] /\ j \in 1 .. m /\ c[j] = a[j]
    BY <1>1, <1>2, <2>2
  <2>3. CASE k - m \in 1 .. n /\ c[k] = b[k - m] /\ j - m \in 1 .. n /\ c[j] = b[j - m]
    <3>1. j - m < k - m
      BY <1>3
    <3> QED BY <1>2, <2>3, <3>1
  <2> QED BY <1>5, <2>1, <2>2, <2>3
<1> QED
  BY <1>3, <1>6, <1>7, <1>8 DEF Answers, c

(* What remains is what has not been found.                                 *)
LEMMA RemainingIs ==
  ASSUME NEW X, NEW lines, NEW source, NEW frames, NEW I, Inward(frames, X, lines, I),
         NEW found, NEW S, Answers(found, X, lines, S, source),
         S \subseteq I, \A f \in S, g \in I : f.file = g.file => g \in S
  PROVE  Inward(Remaining(frames, found), X, lines, I \ S)
<1> DEFINE A == {frame \in ToSet(frames) :
                  \A i \in DOMAIN found : found[i].frame.file # frame.file}
<1>1. Remaining(frames, found) = Only(frames, A)
  BY DEF Remaining
<1>2. /\ DOMAIN found = 1 .. Len(found)
      /\ \A k \in 1 .. Len(found) : found[k].frame \in S
      /\ \A f \in S : \E k \in 1 .. Len(found) : found[k].frame = f
  BY DEF Answers
<1>3. /\ ToSet(frames) = {frames[k] : k \in 1 .. Len(frames)}
      /\ \A k \in 1 .. Len(frames) : frames[k] \in I
      /\ \A f \in I : \E k \in 1 .. Len(frames) : frames[k] = f
  BY DEF Inward, ToSet
<1>4. I \cap A = I \ S
  <2>1. \A f \in I : f \in ToSet(frames)
    BY <1>3
  <2>2. ASSUME NEW f \in I, f \in S PROVE f \notin A
    <3>1. PICK k \in 1 .. Len(found) : found[k].frame = f
      BY <1>2, <2>2
    <3> QED BY <1>2, <3>1
  <2>3. ASSUME NEW f \in I, f \notin S PROVE f \in A
    <3>1. \A k \in DOMAIN found : found[k].frame.file # f.file
      BY <1>2, <2>3
    <3> QED BY <2>1, <3>1
  <2> HIDE DEF A
  <2> QED BY <2>2, <2>3
<1> HIDE DEF A
<1>5. Inward(Only(frames, A), X, lines, I \cap A)
  BY OnlyInward
<1> QED
  BY <1>1, <1>4, <1>5

(* A remote that works answers the frames whose file it has.               *)
LEMMA FetchRemoteIs ==
  ASSUME NEW X, NEW lines, NEW frames, NEW I, Inward(frames, X, lines, I),
         NEW label \in {"github", "bitbucket"}, NEW remote \in Remote,
         NEW source, \A f \in I : Has(remote, f) => source[f] = label
  PROVE  Answers(FetchRemote(label, remote, frames), X, lines,
                 {f \in I : Has(remote, f)}, source)
<1> DEFINE S == {f \in I : Has(remote, f)}
<1>1. CASE remote.status # "ok"
  <2>1. S = {} /\ FetchRemote(label, remote, frames) = <<>>
    BY <1>1 DEF Has, FetchRemote
  <2>2. ASSUME NEW found, found = <<>> PROVE Answers(found, X, lines, {}, source)
    <3>1. found \in Seq(Answer(X)) /\ Len(found) = 0
      BY <2>2
    <3> QED BY <3>1 DEF Answers
  <2> HIDE DEF S
  <2>3. Answers(FetchRemote(label, remote, frames), X, lines, S, source)
    BY <2>1, <2>2
  <2> QED BY <2>3 DEF S
<1>2. CASE remote.status = "ok"
  <2> DEFINE A == {frame \in ToSet(frames) : InRepos(remote, frame) # {}}
             t == Only(frames, A)
             repo == [i \in 1 .. Len(t) |-> FirstRepo(remote, t[i])]
  <2>1. I \cap A = S
    <3>1. I \subseteq ToSet(frames)
      BY DEF Inward, ToSet
    <3> QED BY <1>2, <3>1 DEF Has
  <2>2. Inward(t, X, lines, S)
    <3> HIDE DEF A
    <3>1. Inward(t, X, lines, I \cap A)
      BY OnlyInward
    <3> QED BY <2>1, <3>1
  <2> HIDE DEF A, t
  <2>3. ASSUME NEW f, Has(remote, f) PROVE FirstRepo(remote, f) \in Nat
    <3> DEFINE R == InRepos(remote, f)
    <3>1. R \in SUBSET Nat /\ R # {}
      BY <2>3 DEF Remote, InRepos, Has
    <3> HIDE DEF R
    <3>2. \E k \in R : \A m \in R : k <= m
      BY <3>1, LeastOfNat
    <3>3. FirstRepo(remote, f) \in R
      BY <3>2, Zenon DEF FirstRepo, R
    <3> QED BY <3>1, <3>3
  <2>4. \A i \in 1 .. Len(t) : t[i] \in S
    BY <2>2 DEF Inward
  <2>5. repo \in [1 .. Len(t) -> Nat]
    BY <2>3, <2>4
  <2>6. DOMAIN t = 1 .. Len(t)
    BY <2>2 DEF Inward
  <2>7. FetchRemote(label, remote, frames) = [i \in 1 .. Len(t) |-> CodeFrame(t[i], label, repo[i])]
    <3>1. FetchRemote(label, remote, frames)
            = [i \in DOMAIN t |-> CodeFrame(t[i], label, FirstRepo(remote, t[i]))]
      BY <1>2 DEF FetchRemote, t, A
    <3>2. \A i \in 1 .. Len(t) : repo[i] = FirstRepo(remote, t[i])
      OBVIOUS
    <3> HIDE DEF repo
    <3> QED BY <2>6, <3>1, <3>2
  <2>8. (\A f \in S : source[f] = label) /\ label \in {"github", "bitbucket", "local"}
    OBVIOUS
  <2> HIDE DEF S, repo
  <2>9. Answers([i \in 1 .. Len(t) |-> CodeFrame(t[i], label, repo[i])], X, lines, S, source)
    BY <2>2, <2>5, <2>8, LabelledIs, ZenonT(30)
  <2>10. Answers(FetchRemote(label, remote, frames), X, lines, S, source)
    BY <2>7, <2>9, Zenon
  <2> QED BY <2>10 DEF S
<1> QED
  BY <1>1, <1>2

(* The disk answers the frames whose file it has.                          *)
LEMMA FetchLocalIs ==
  ASSUME NEW X, NEW lines, NEW frames, NEW I, Inward(frames, X, lines, I), NEW disk,
         NEW source, \A f \in I : f.file \in disk => source[f] = "local"
  PROVE  Answers(FetchLocal(disk, frames), X, lines, {f \in I : f.file \in disk}, source)
<1> DEFINE S == {f \in I : f.file \in disk}
           A == {frame \in ToSet(frames) : frame.file \in disk}
           t == Only(frames, A)
           repo == [i \in 1 .. Len(t) |-> 0]
<1>1. I \cap A = S
  <2>1. I \subseteq ToSet(frames)
    BY DEF Inward, ToSet
  <2> QED BY <2>1
<1>2. Inward(t, X, lines, S)
  <2> HIDE DEF A
  <2>1. Inward(t, X, lines, I \cap A)
    BY OnlyInward
  <2> QED BY <1>1, <2>1
<1> HIDE DEF A, t
<1>3. DOMAIN t = 1 .. Len(t)
  BY <1>2 DEF Inward
<1>4. FetchLocal(disk, frames) = [i \in 1 .. Len(t) |-> CodeFrame(t[i], "local", repo[i])]
  <2>1. FetchLocal(disk, frames) = [i \in DOMAIN t |-> CodeFrame(t[i], "local", 0)]
    BY DEF FetchLocal, t, A
  <2>2. \A i \in 1 .. Len(t) : repo[i] = 0
    OBVIOUS
  <2> HIDE DEF repo
  <2> QED BY <1>3, <2>1, <2>2
<1>5. repo \in [1 .. Len(t) -> Nat]
  OBVIOUS
<1>6. \A f \in S : source[f] = "local"
  OBVIOUS
<1> HIDE DEF S, repo
<1>7. Answers(FetchLocal(disk, frames), X, lines, S, source)
  BY <1>2, <1>4, <1>5, <1>6, LabelledIs
<1> QED
  BY <1>7 DEF S

(* Together the sources answer each frame once, from the first that can.   *)
LEMMA FetchedIs ==
  ASSUME NEW X, NEW lines \in Seq(X), NEW github \in Remote, NEW bitbucket \in Remote, NEW disk
  PROVE  Answers(FetchCodeContext(ParseTraceback(lines), github, bitbucket, disk), X, lines,
                 {f \in Innermost(lines) : SourceFor(f, github, bitbucket, disk) # "nowhere"},
                 [f \in Innermost(lines) |-> SourceFor(f, github, bitbucket, disk)])
<1> DEFINE frames == ParseTraceback(lines)
           I == Innermost(lines)
           source == [f \in I |-> SourceFor(f, github, bitbucket, disk)]
           G == {f \in I : Has(github, f)}
           B == {f \in I \ G : Has(bitbucket, f)}
           D == {f \in (I \ G) \ B : f.file \in disk}
           gh == FetchGitHub(github, frames)
           bb == FetchBitbucket(bitbucket, Remaining(frames, gh))
           local == FetchLocal(disk, Remaining(frames, gh \o bb))
<1>1. Inward(frames, X, lines, I)
  BY ParsedIs
<1>2. /\ \A f \in G : source[f] = "github"
      /\ \A f \in B : source[f] = "bitbucket"
      /\ \A f \in D : source[f] = "local"
      /\ {f \in I : SourceFor(f, github, bitbucket, disk) # "nowhere"} = (G \cup B) \cup D
      /\ \A f \in I : Has(github, f) => source[f] = "github"
      /\ \A f \in I \ G : Has(bitbucket, f) => source[f] = "bitbucket"
      /\ \A f \in (I \ G) \ B : f.file \in disk => source[f] = "local"
  BY DEF SourceFor
<1>3. /\ \A f \in G, g \in I : f.file = g.file => g \in G
      /\ \A f \in G \cup B, g \in I : f.file = g.file => g \in G \cup B
  <2>1. ASSUME NEW f, NEW g, f.file = g.file, NEW remote, Has(remote, f) PROVE Has(remote, g)
    BY <2>1 DEF Has, InRepos
  <2>2. ASSUME NEW f \in G, NEW g \in I, f.file = g.file PROVE g \in G
    BY <2>1, <2>2
  <2>3. ASSUME NEW f \in B, NEW g \in I, f.file = g.file PROVE g \in G \cup B
    BY <2>1, <2>3
  <2> QED BY <2>2, <2>3
<1>4. G \subseteq I /\ G \cup B \subseteq I /\ (I \ G) \ B = I \ (G \cup B)
  OBVIOUS
<1> HIDE DEF source, I, frames
<1>5. Answers(gh, X, lines, G, source)
  BY <1>1, <1>2, FetchRemoteIs DEF FetchGitHub
<1> HIDE DEF gh
<1>6. Inward(Remaining(frames, gh), X, lines, I \ G)
  <2> HIDE DEF G, B
  <2> QED BY <1>1, <1>3, <1>4, <1>5, RemainingIs
<1>7. Answers(bb, X, lines, B, source)
  <2> DEFINE J == I \ G
             rest == Remaining(frames, gh)
  <2>1. B = {f \in J : Has(bitbucket, f)} /\ \A f \in J : Has(bitbucket, f) => source[f] = "bitbucket"
    BY <1>2
  <2> HIDE DEF J, rest, B
  <2>2. Answers(FetchRemote("bitbucket", bitbucket, rest), X, lines, B, source)
    <3>1. Inward(rest, X, lines, J)
      BY <1>6 DEF J, rest
    <3> QED BY <2>1, <3>1, FetchRemoteIs
  <2> QED BY <2>2 DEF FetchBitbucket, rest
<1> HIDE DEF bb
<1>8. Answers(gh \o bb, X, lines, G \cup B, source)
  <2> HIDE DEF G, B
  <2>1. \A f \in G, g \in B : source[f] # source[g]
    BY <1>2
  <2> QED BY <1>5, <1>7, <2>1, JoinedIs
<1>9. Inward(Remaining(frames, gh \o bb), X, lines, (I \ G) \ B)
  <2> DEFINE GB == G \cup B
             both == gh \o bb
  <2>1. /\ Answers(both, X, lines, GB, source) /\ GB \subseteq I
        /\ \A f \in GB, g \in I : f.file = g.file => g \in GB
        /\ (I \ G) \ B = I \ GB
    BY <1>3, <1>4, <1>8
  <2> HIDE DEF GB, both
  <2>2. Inward(Remaining(frames, both), X, lines, I \ GB)
    BY <1>1, <2>1, RemainingIs
  <2> QED BY <2>1, <2>2 DEF both
<1>10. Answers(local, X, lines, D, source)
  <2> DEFINE J == (I \ G) \ B
             rest == Remaining(frames, gh \o bb)
  <2>1. D = {f \in J : f.file \in disk} /\ \A f \in J : f.file \in disk => source[f] = "local"
    BY <1>2
  <2>2. Inward(rest, X, lines, J)
    BY <1>9
  <2>3. local = FetchLocal(disk, rest)
    OBVIOUS
  <2> HIDE DEF J, rest, D, local
  <2> QED BY <2>1, <2>2, <2>3, FetchLocalIs
<1>11. Answers((gh \o bb) \o local, X, lines, (G \cup B) \cup D, source)
  <2> DEFINE GB == G \cup B
             both == gh \o bb
  <2>1. \A f \in GB, g \in D : source[f] # source[g]
    <3> HIDE DEF G, B, D
    <3> QED BY <1>2
  <2>2. Answers(both, X, lines, GB, source)
    BY <1>8
  <2> HIDE DEF GB, both, D, local
  <2>3. Answers(both \o local, X, lines, GB \cup D, source)
    BY <1>10, <2>1, <2>2, JoinedIs
  <2> QED BY <2>3 DEF both, GB
<1>12. FetchCodeContext(frames, github, bitbucket, disk) = (gh \o bb) \o local
  BY DEF FetchCodeContext, gh, bb
<1>13. Answers(FetchCodeContext(frames, github, bitbucket, disk), X, lines,
               {f \in I : SourceFor(f, github, bitbucket, disk) # "nowhere"}, source)
  <2> HIDE DEF G, B, D, local
  <2> QED BY <1>2, <1>11, <1>12
<1> QED
  BY <1>13 DEF source, I, frames

(* So the code of each of the innermost frames is found, for any trace,    *)
(* remotes and disk.                                                       *)
LEMMA CodeFoundFollows ==
  ASSUME NEW X, NEW lines \in Seq(X), NEW github \in Remote, NEW bitbucket \in Remote, NEW disk
  PROVE  CodeFound(lines, github, bitbucket, disk)
<1> DEFINE found == FetchCodeContext(ParseTraceback(lines), github, bitbucket, disk)
           I == Innermost(lines)
           From(f) == SourceFor(f, github, bitbucket, disk)
           source == [f \in I |-> From(f)]
           S == {f \in I : From(f) # "nowhere"}
           PlaceOf(f) == {i \in DOMAIN found : found[i].frame = f}
<1>1. Answers(found, X, lines, S, source)
  BY FetchedIs
<1>2. \A f \in I : source[f] = From(f)
  OBVIOUS
<1> HIDE DEF found, source
<1>3. /\ DOMAIN found = 1 .. Len(found) /\ Len(found) \in Nat
      /\ \A k \in 1 .. Len(found) : /\ found[k].frame \in S
                                    /\ found[k].source = From(found[k].frame)
      /\ \A f \in S : \E k \in 1 .. Len(found) : found[k].frame = f
      /\ \A j, k \in 1 .. Len(found) : j < k /\ found[j].source = found[k].source =>
           FirstAt(lines, found[k].frame) < FirstAt(lines, found[j].frame)
  BY <1>1, <1>2 DEF Answers
<1> HIDE DEF From
<1>4. \A f \in I : FirstAt(lines, f) \in Nat
  <2> SUFFICES ASSUME NEW f \in I PROVE FirstAt(lines, f) \in Nat
    OBVIOUS
  <2>1. PICK i \in 1 .. Len(lines) : lines[i] = f
    BY DEF Innermost, ToSet
  <2>2. FirstAt(lines, lines[i]) \in 1 .. Len(lines)
    BY FirstAtIs
  <2> QED BY <2>1, <2>2
<1>5. \A j, k \in DOMAIN found : found[j].frame = found[k].frame => j = k
  <2> SUFFICES ASSUME NEW j \in 1 .. Len(found), NEW k \in 1 .. Len(found), j < k,
                      found[j].frame = found[k].frame
               PROVE  FALSE
    BY <1>3
  <2>1. found[j].source = found[k].source /\ found[j].frame \in I
    BY <1>3
  <2>2. FirstAt(lines, found[k].frame) < FirstAt(lines, found[j].frame)
    BY <1>3, <2>1
  <2> QED BY <1>4, <2>1, <2>2
<1>6. ASSUME NEW f \in ToSet(lines) \ {Noise}
      PROVE  IF \/ Cardinality(Deeper(lines, f)) >= MaxFrames
                \/ From(f) = "nowhere"
             THEN PlaceOf(f) = {}
             ELSE \E i \in DOMAIN found : PlaceOf(f) = {i} /\ found[i].source = From(f)
  <2>1. CASE f \notin S
    <3>1. PlaceOf(f) = {}
      BY <1>3, <2>1
    <3> QED BY <2>1, <3>1 DEF Innermost
  <2>2. CASE f \in S
    <3>1. PICK i \in DOMAIN found : found[i].frame = f
      BY <1>3, <2>2
    <3>2. PlaceOf(f) = {i} /\ found[i].source = From(f)
      BY <1>3, <1>5, <3>1
    <3> QED BY <2>2, <3>2 DEF Innermost
  <2> QED BY <2>1, <2>2
<1>7. \A i, j \in DOMAIN found :
        i < j /\ found[i].source = found[j].source
          => FirstAt(lines, found[j].frame) < FirstAt(lines, found[i].frame)
  BY <1>3
<1> QED
  BY <1>6, <1>7, Zenon DEF CodeFound, found, From, Deeper

-----------------------------------------------------------------------------
(* The five algorithms together.                                           *)

(* The lines that a trace grows by.                                        *)
TraceLines == {Frame(file, n) : file \in File, n \in 1 .. 2} \cup {Noise}

(* The types of what the algorithms are given.                             *)
AlgorithmsTypeOK ==
  /\ RetrievalTypeOK
  /\ text \in Seq(LineKind) /\ Len(text) <= MaxLines
  /\ raws \in Seq(RawRecord) /\ Len(raws) <= 2
  /\ trace \in Seq(TraceLines) /\ Len(trace) <= MaxTrace

(* The inductive invariant of the five.                                    *)
AlgorithmsInv == AlgorithmsTypeOK /\ RetrievalInv

(* It holds of nothing.                                                    *)
LEMMA AlgorithmsInitial == AlgorithmsInit => AlgorithmsInv
<1> SUFFICES ASSUME AlgorithmsInit PROVE AlgorithmsInv
  OBVIOUS
<1>1. RetrievalTypeOK /\ RetrievalInv
  BY RetrievalInitial DEF AlgorithmsInit
<1>2. MaxLines \in Nat /\ MaxTrace \in Nat
  BY AlgorithmsAssumption
<1>3. text = <<>> /\ raws = <<>> /\ trace = <<>>
  BY DEF AlgorithmsInit
<1> QED
  BY <1>1, <1>2, <1>3 DEF AlgorithmsInv, AlgorithmsTypeOK

(* Whoever is given something, or moves, keeps it.                         *)
LEMMA AlgorithmsStep == AlgorithmsInv /\ [AlgorithmsNext]_algorithmsVars => AlgorithmsInv'
<1> SUFFICES ASSUME AlgorithmsInv, [AlgorithmsNext]_algorithmsVars PROVE AlgorithmsInv'
  OBVIOUS
<1> USE DEF AlgorithmsInv
<1>1. CASE AddLine
  <2>1. PICK kind \in LineKind : text' = Append(text, kind)
    BY <1>1 DEF AddLine
  <2>2. text' \in Seq(LineKind) /\ Len(text') <= MaxLines
    BY <1>1, <2>1, AlgorithmsAssumption DEF AddLine, AlgorithmsTypeOK
  <2>3. raws' = raws /\ trace' = trace /\ UNCHANGED retrievalVars
    BY <1>1 DEF AddLine
  <2> QED BY <2>2, <2>3, RetrievalStutters DEF AlgorithmsTypeOK
<1>2. CASE AddRaw
  <2>1. PICK raw \in RawRecord : raws' = Append(raws, raw)
    BY <1>2 DEF AddRaw
  <2>2. raws' \in Seq(RawRecord) /\ Len(raws') <= 2
    BY <1>2, <2>1 DEF AddRaw, AlgorithmsTypeOK
  <2>3. text' = text /\ trace' = trace /\ UNCHANGED retrievalVars
    BY <1>2 DEF AddRaw
  <2> QED BY <2>2, <2>3, RetrievalStutters DEF AlgorithmsTypeOK
<1>3. CASE AddFrame
  <2>1. PICK line \in TraceLines : trace' = Append(trace, line)
    BY <1>3 DEF AddFrame, TraceLines
  <2>2. trace' \in Seq(TraceLines) /\ Len(trace') <= MaxTrace
    BY <1>3, <2>1, AlgorithmsAssumption DEF AddFrame, AlgorithmsTypeOK
  <2>3. text' = text /\ raws' = raws /\ UNCHANGED retrievalVars
    BY <1>3 DEF AddFrame
  <2> QED BY <2>2, <2>3, RetrievalStutters DEF AlgorithmsTypeOK
<1>4. CASE Retrieve
  BY <1>4, RetrievalStep DEF Retrieve, inputs, AlgorithmsTypeOK
<1>5. CASE UNCHANGED algorithmsVars
  BY <1>5, RetrievalStutters DEF algorithmsVars, inputs, AlgorithmsTypeOK
<1> QED
  BY <1>1, <1>2, <1>3, <1>4, <1>5 DEF AlgorithmsNext

(* What the algorithms are given, and what the retrieval keeps, is of the  *)
(* types that the code hands on.                                           *)
THEOREM AlgorithmsTypeCorrect == AlgorithmsSpec => []AlgorithmsTypeOK
BY AlgorithmsInitial, AlgorithmsStep, PTL DEF AlgorithmsSpec, AlgorithmsInv

(* For any documents, weights and rankings, in the fused list of every     *)
(* sub-query a document that one search ranks higher and neither lower     *)
(* comes first, and every document found is there once.                    *)
THEOREM RankedFairlyHolds == AlgorithmsSpec => []RankedFairly
<1>1. AlgorithmsInv => RankedFairly
  BY RankedFairlyFollows DEF AlgorithmsInv
<1> QED
  BY <1>1, AlgorithmsInitial, AlgorithmsStep, PTL DEF AlgorithmsSpec

(* For any number of sub-queries and any limits, a document that was found *)
(* is left out of the context only for better ones that fill it, or the    *)
(* cap of its kind.                                                        *)
THEOREM BestKeptHolds == AlgorithmsSpec => []BestKept
<1>1. AlgorithmsInv => BestKept
  BY BestKeptFollows DEF AlgorithmsInv, AlgorithmsTypeOK
<1> QED
  BY <1>1, AlgorithmsInitial, AlgorithmsStep, PTL DEF AlgorithmsSpec

(* Whatever two raw records are normalised, two things are two documents,  *)
(* versions of one are one, and a record is dropped as its severity says.  *)
THEOREM NormalisedHolds == AlgorithmsSpec => []Normalised
<1>1. AlgorithmsInv => Normalised
  <2> SUFFICES ASSUME AlgorithmsInv PROVE Normalised
    OBVIOUS
  <2>1. \A i \in DOMAIN raws : raws[i] \in RawRecord
    BY DEF AlgorithmsInv, AlgorithmsTypeOK
  <2>2. \A i \in DOMAIN raws : SeverityKept(raws[i])
    BY <2>1, SeverityHolds
  <2>3. ASSUME Len(raws) = 2 PROVE ToldApart(raws[1], raws[2])
    <3>1. raws[1] \in RawRecord /\ raws[2] \in RawRecord
      <4>1. raws \in Seq(RawRecord) /\ 1 \in 1 .. Len(raws) /\ 2 \in 1 .. Len(raws)
        BY <2>3 DEF AlgorithmsInv, AlgorithmsTypeOK
      <4> QED BY <4>1
    <3> QED BY <3>1, RecordsToldApart
  <2> QED BY <2>2, <2>3 DEF Normalised
<1> QED
  BY <1>1, AlgorithmsInitial, AlgorithmsStep, PTL DEF AlgorithmsSpec

(* For a trace of any length, any remotes and disks, the code of each of   *)
(* the innermost frames is in the brief once, from the first source that   *)
(* works and has it.                                                       *)
THEOREM CodeInBriefHolds == AlgorithmsSpec => []CodeInBrief
<1>1. AlgorithmsInv => CodeInBrief
  <2> SUFFICES ASSUME AlgorithmsInv, NEW github \in Remotes, NEW bitbucket \in Remotes,
                      NEW disk \in Disks
               PROVE  CodeFound(trace, github, bitbucket, disk)
    BY DEF CodeInBrief
  <2>1. trace \in Seq(TraceLines)
    BY DEF AlgorithmsInv, AlgorithmsTypeOK
  <2>2. github \in Remote /\ bitbucket \in Remote
    BY AlgorithmsAssumption
  <2> QED BY <2>1, <2>2, CodeFoundFollows
<1> QED
  BY <1>1, AlgorithmsInitial, AlgorithmsStep, PTL DEF AlgorithmsSpec
=============================================================================
