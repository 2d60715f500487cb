--------------------------- MODULE IndexingProofs ---------------------------
(***************************************************************************)
(* Proofs about chunking and indexing for every text, every set of records *)
(* and editions, every limit, overlap and batch size, and any number of    *)
(* builds, failed calls and time limits.                                   *)
(*                                                                         *)
(* The argument.  The splitter is made of folds.  A fold is a recursive    *)
(* function on numbers; that it is defined, and that what each of its      *)
(* steps keeps holds at its end, is FoldHolds, which rests on the least    *)
(* number principle and not on an induction rule.  What every fold here    *)
(* keeps: the pieces made so far fit under the limit, and they hold every  *)
(* letter that has been taken.  Trimming removes separators only, and a    *)
(* separator is no letter.  So a level of Cut is as good as the next one   *)
(* (CutAtIs), and the last one, which cuts by width, is good by the        *)
(* arithmetic of its blocks.                                               *)
(*                                                                         *)
(* The builds need more than the properties say.  A context may be put     *)
(* before a chunk only because it is filed under a key that names the      *)
(* chunk (KeyIs); and it may be cached only because no later call can      *)
(* overwrite it, which takes that a chunk is in one batch once and leaves  *)
(* it when it is called (AskedOnce).  Nothing is lost because the chunks   *)
(* before the next one to be embedded have a point or a failed record      *)
(* (Progress).                                                             *)
(***************************************************************************)
EXTENDS Indexing, FiniteSetTheorems, SequenceTheorems, WellFoundedInduction, TLAPS

-----------------------------------------------------------------------------
(* Numbers and folds. *)

(* A set of numbers has a least one ... *)
LEMMA LeastNumber ==
    ASSUME NEW S \in SUBSET Nat, S # {}
    PROVE  \E n \in S : \A m \in S : n <= m
<1> DEFINE R == {p \in Nat \X Nat : p[1] < p[2]}
<1>1. IsWellFoundedOn(R, Nat)
      BY NatLessThanWellFounded DEF OpToRel
<1> HIDE DEF R
<1>2. PICK n \in S : \A m \in S : <<m, n>> \notin R
      BY <1>1, WFMin
<1>3. ASSUME NEW m \in S PROVE n <= m
      <2>1. n \in Nat /\ m \in Nat /\ <<m, n>> \notin R
            BY <1>2
      <2>2. ~ (m < n)
            BY <2>1 DEF R
      <2> QED BY <2>1, <2>2
<1> QED BY <1>3

(* ... so one that holds 0 and every successor holds them all. *)
LEMMA EveryNumber ==
    ASSUME NEW S \in SUBSET Nat, 0 \in S, \A n \in S : n + 1 \in S
    PROVE  \A n \in Nat : n \in S
<1> SUFFICES ASSUME NEW k \in Nat, k \notin S PROVE FALSE
    OBVIOUS
<1> DEFINE T == Nat \ S
<1>1. T \in SUBSET Nat /\ T # {}
      OBVIOUS
<1> HIDE DEF T
<1>2. PICK n \in T : \A m \in T : n <= m
      BY <1>1, LeastNumber
<1> USE DEF T
<1>3. n # 0 /\ n - 1 \in Nat /\ n - 1 \notin T
      BY <1>2
<1>4. (n - 1) + 1 \in S
      BY <1>3
<1> QED BY <1>2, <1>4

LEMMA MinIs ==
    ASSUME NEW S \in SUBSET Nat, S # {}
    PROVE  Min(S) \in S /\ \A k \in S : Min(S) <= k
<1>1. \E n \in S : \A k \in S : n <= k
      BY LeastNumber
<1> QED BY <1>1 DEF Min

LEMMA MaxIs ==
    ASSUME NEW n \in Nat, NEW S \in SUBSET (1 .. n), S # {}
    PROVE  Max(S) \in S /\ \A k \in S : k <= Max(S)
<1> DEFINE T == {m \in Nat : \A k \in S : k <= m}
<1>1. T \in SUBSET Nat /\ n \in T
      OBVIOUS
<1>2. PICK m \in T : \A k \in T : m <= k
      <2> HIDE DEF T
      <2> QED BY <1>1, LeastNumber
<1>3. m \in S
      <2> SUFFICES ASSUME m \notin S PROVE FALSE
          OBVIOUS
      <2>1. \A k \in S : k \in Nat /\ k >= 1 /\ k < m
            BY <1>2
      <2>2. PICK j \in S : TRUE
            OBVIOUS
      <2>3. m \in Nat /\ j \in Nat /\ j >= 1 /\ j < m
            BY <1>2, <2>1, <2>2
      <2>4. m - 1 \in Nat /\ \A k \in S : k <= m - 1
            BY <2>1, <2>3
      <2>5. m - 1 \in T
            BY <2>4
      <2> QED BY <1>2, <2>3, <2>5
<1>4. \A k \in S : k <= m
      BY <1>2
<1> QED BY <1>3, <1>4 DEF Max

LEMMA PairMin ==
    ASSUME NEW a \in Int, NEW b \in Int, NEW m, m = Min({a, b})
    PROVE  m = IF a <= b THEN a ELSE b
<1>1. \E x \in {a, b} : \A y \in {a, b} : x <= y
      OBVIOUS
<1>2. m \in {a, b} /\ m <= a /\ m <= b
      BY <1>1 DEF Min
<1> QED BY <1>2

LEMMA PairMax ==
    ASSUME NEW a \in Int, NEW b \in Int, NEW m, m = Max({a, b})
    PROVE  m = IF a >= b THEN a ELSE b
<1>1. \E x \in {a, b} : \A y \in {a, b} : y <= x
      OBVIOUS
<1>2. m \in {a, b} /\ a <= m /\ b <= m
      BY <1>1 DEF Max
<1> QED BY <1>2

-----------------------------------------------------------------------------
(* Folds.                                                                   *)

(* The equation that FoldLeft solves: a set of positions is folded by       *)
(* taking out the last of them.                                             *)
Folds(h, D, step, base, s) ==
    h = [S \in SUBSET D |-> IF S = {} THEN base ELSE step[h[S \ {Max(S)}]][s[Max(S)]]]

LEMMA FoldExists ==
    ASSUME NEW n \in Nat, NEW step, NEW base, NEW s
    PROVE  \E h : Folds(h, 1 .. n, step, base, s)
<1> DEFINE T == {k \in Nat : \E h : Folds(h, 1 .. k, step, base, s)}
<1>1. 0 \in T
      <2> DEFINE h == [S \in SUBSET (1 .. 0) |-> base]
      <2>1. \A S \in SUBSET (1 .. 0) : S = {}
            OBVIOUS
      <2>2. Folds(h, 1 .. 0, step, base, s)
            BY <2>1 DEF Folds
      <2> QED BY <2>2
<1>2. ASSUME NEW k \in T PROVE k + 1 \in T
      <2>1. k \in Nat
            OBVIOUS
      <2>2. PICK h : Folds(h, 1 .. k, step, base, s)
            OBVIOUS
      <2> DEFINE P == SUBSET (1 .. k)
                 Q == SUBSET (1 .. (k + 1))
                 g == [S \in Q |-> IF k + 1 \in S THEN step[h[S \ {k + 1}]][s[k + 1]] ELSE h[S]]
                 e(S) == IF S = {} THEN base ELSE step[g[S \ {Max(S)}]][s[Max(S)]]
      <2>3. ASSUME NEW S \in Q PROVE g[S] = e(S)
            <3>1. CASE k + 1 \in S
                  <4>1. Max(S) = k + 1
                        <5>1. PICK m \in Nat : m = k + 1
                              BY <2>1
                        <5>2. S \in SUBSET (1 .. m) /\ S # {} /\ m \in S
                              BY <3>1, <5>1
                        <5> HIDE DEF P, Q, g, e, T
                        <5>3. Max(S) \in S
                              BY <5>1, <5>2, MaxIs
                        <5>4. m <= Max(S)
                              BY <5>1, <5>2, MaxIs
                        <5>5. PICK x \in 1 .. m : x = Max(S)
                              BY <5>2, <5>3
                        <5>6. x = m
                              BY <5>1, <5>4, <5>5
                        <5> QED BY <5>1, <5>5, <5>6
                  <4>2. S \ {k + 1} \in P /\ S \ {k + 1} \in Q /\ k + 1 \notin S \ {k + 1} /\ S # {}
                        BY <2>1, <3>1
                  <4>3. g[S \ {k + 1}] = h[S \ {k + 1}]
                        BY <4>2
                  <4>4. g[S] = step[h[S \ {k + 1}]][s[k + 1]]
                        BY <3>1
                  <4> QED BY <4>1, <4>2, <4>3, <4>4
            <3>2. CASE k + 1 \notin S
                  <4>1. S \in P
                        BY <2>1, <3>2
                  <4>2. g[S] = h[S]
                        BY <3>2
                  <4>3. h[S] = IF S = {} THEN base ELSE step[h[S \ {Max(S)}]][s[Max(S)]]
                        BY <2>2, <4>1 DEF Folds
                  <4>4. S \ {Max(S)} \in Q /\ k + 1 \notin S \ {Max(S)}
                        BY <3>2
                  <4>5. g[S \ {Max(S)}] = h[S \ {Max(S)}]
                        BY <4>4
                  <4> QED BY <4>2, <4>3, <4>5
            <3> QED BY <3>1, <3>2
      <2>4. g = [S \in Q |-> g[S]]
            OBVIOUS
      <2>5. [S \in Q |-> g[S]] = [S \in Q |-> e(S)]
            <3> HIDE DEF g, e, Q
            <3> QED BY <2>3
      <2>6. Folds(g, 1 .. (k + 1), step, base, s)
            <3> HIDE DEF g
            <3> QED BY <2>4, <2>5 DEF Folds
      <2> QED BY <2>1, <2>6
<1>3. n \in T
      <2> HIDE DEF T
      <2>1. T \in SUBSET Nat
            BY DEF T
      <2> QED BY <1>1, <1>2, <2>1, EveryNumber
<1> QED BY <1>3

Closed(step, A, B) == \A a \in A : \A b \in B : step[a][b] \in A

(* The states a fold goes through, one per item. *)
Goes(f, step, base, s, A) ==
    /\ f \in [0 .. Len(s) -> A]
    /\ f[0] = base
    /\ f[Len(s)] = Fold(step, base, s)
    /\ \A i \in 1 .. Len(s) : f[i] = step[f[i - 1]][s[i]]

LEMMA FoldIs ==
    ASSUME NEW A, NEW B, NEW step, NEW base \in A, NEW s \in Seq(B), Closed(step, A, B)
    PROVE  \E f : Goes(f, step, base, s, A)
<1> DEFINE n == Len(s)
<1>1. n \in Nat /\ DOMAIN s = 1 .. n /\ \A i \in 1 .. n : s[i] \in B
      OBVIOUS
<1> HIDE DEF n
<1>2. \E h : Folds(h, 1 .. n, step, base, s)
      BY <1>1, FoldExists
<1>3. Fold(step, base, s) = (CHOOSE h : Folds(h, DOMAIN s, step, base, s))[DOMAIN s]
      BY DEF Fold, FoldLeft, MapThenFoldSet, Folds
<1>4. PICK h : Folds(h, 1 .. n, step, base, s) /\ Fold(step, base, s) = h[1 .. n]
      <2> DEFINE c == CHOOSE h : Folds(h, 1 .. n, step, base, s)
      <2>1. Folds(c, 1 .. n, step, base, s)
            BY <1>2
      <2> QED BY <1>1, <1>3, <2>1
<1> DEFINE f == [k \in 0 .. n |-> h[1 .. k]]
<1>5. f[0] = base
      <2>1. 1 .. 0 = {} /\ {} \in SUBSET (1 .. n)
            OBVIOUS
      <2>2. h[{}] = base
            BY <1>4, <2>1 DEF Folds
      <2> QED BY <1>1, <2>1, <2>2
<1>6. ASSUME NEW k \in 1 .. n PROVE f[k] = step[f[k - 1]][s[k]]
      <2> DEFINE S == 1 .. k
      <2>1. k \in Nat /\ k - 1 \in 0 .. n /\ k \in 0 .. n /\ S \in SUBSET (1 .. n) /\ k \in S
            BY <1>1
      <2>2. Max(S) = k
            <3>1. S \in SUBSET (1 .. k) /\ S # {}
                  BY <2>1
            <3>2. Max(S) \in S /\ \A j \in S : j <= Max(S)
                  <4> HIDE DEF S
                  <4> QED BY <2>1, <3>1, MaxIs
            <3> QED BY <2>1, <3>2
      <2>3. S \ {k} = 1 .. k - 1
            BY <2>1
      <2>4. h[S] = step[h[S \ {Max(S)}]][s[Max(S)]]
            <3> HIDE DEF S
            <3> QED BY <1>4, <2>1 DEF Folds
      <2>5. h[S] = step[h[1 .. k - 1]][s[k]]
            <3> HIDE DEF S
            <3> QED BY <2>2, <2>3, <2>4
      <2> QED BY <2>1, <2>5
<1>7. \A k \in 0 .. n : f[k] \in A
      <2> HIDE DEF f
      <2> DEFINE T == {k \in Nat : k <= n => f[k] \in A}
      <2>1. 0 \in T
            BY <1>5
      <2>2. ASSUME NEW k \in T PROVE k + 1 \in T
            <3>1. CASE k + 1 <= n
                  <4>1. k + 1 \in 1 .. n /\ (k + 1) - 1 = k /\ f[k] \in A
                        BY <1>1, <3>1
                  <4>2. f[k + 1] = step[f[k]][s[k + 1]]
                        BY <1>6, <4>1
                  <4> QED BY <1>1, <4>1, <4>2 DEF Closed
            <3> QED BY <3>1
      <2>3. \A k \in Nat : k \in T
            <3> HIDE DEF T
            <3>1. T \in SUBSET Nat
                  BY DEF T
            <3> QED BY <2>1, <2>2, <3>1, EveryNumber
      <2> QED BY <1>1, <2>3
<1>8. f \in [0 .. n -> A] /\ f[n] = Fold(step, base, s)
      BY <1>1, <1>4, <1>7
<1> HIDE DEF f
<1> QED BY <1>5, <1>6, <1>8 DEF n, Goes

(* If every step keeps what a state holds and adds what its item adds, the  *)
(* fold ends with all of it.                                                *)
LEMMA FoldHolds ==
    ASSUME NEW A, NEW B, NEW step, NEW base \in A, NEW s \in Seq(B), NEW holds, NEW adds,
           Closed(step, A, B), \A a \in A, b \in B : holds[a] \cup adds[b] \subseteq holds[step[a][b]]
    PROVE  /\ Fold(step, base, s) \in A
           /\ holds[base] \subseteq holds[Fold(step, base, s)]
           /\ \A i \in 1 .. Len(s) : adds[s[i]] \subseteq holds[Fold(step, base, s)]
<1>0. PICK f : Goes(f, step, base, s, A)
      BY FoldIs
<1>1. /\ f \in [0 .. Len(s) -> A]
      /\ f[0] = base /\ f[Len(s)] = Fold(step, base, s)
      /\ \A i \in 1 .. Len(s) : f[i] = step[f[i - 1]][s[i]]
      BY <1>0 DEF Goes
<1>2. PICK n \in Nat : n = Len(s)
      OBVIOUS
<1>9. \A i \in 1 .. n : s[i] \in B
      BY <1>2
<1> DEFINE Kept(k) == holds[base] \subseteq holds[f[k]] /\ \A i \in 1 .. k : adds[s[i]] \subseteq holds[f[k]]
           T == {k \in Nat : k <= n => Kept(k)}
<1>3. 0 \in T
      BY <1>1
<1>4. ASSUME NEW k \in T PROVE k + 1 \in T
      <2>1. k \in Nat /\ k + 1 \in Nat
            OBVIOUS
      <2>2. ASSUME k + 1 <= n PROVE Kept(k + 1)
            <3>1. k <= n /\ k + 1 \in 1 .. n /\ k \in 0 .. n /\ (k + 1) - 1 = k
                  BY <1>2, <2>1, <2>2
            <3>5. Kept(k)
                  BY <3>1
            <3>2. f[k] \in A /\ s[k + 1] \in B /\ f[k + 1] = step[f[k]][s[k + 1]]
                  BY <1>1, <1>2, <1>9, <3>1
            <3>3. holds[f[k]] \subseteq holds[f[k + 1]] /\ adds[s[k + 1]] \subseteq holds[f[k + 1]]
                  BY <3>2
            <3>4. \A i \in 1 .. k + 1 : i \in 1 .. k \/ i = k + 1
                  BY <2>1
            <3> QED BY <3>5, <3>3, <3>4
      <2> QED BY <2>1, <2>2
<1>5. n \in T
      <2> HIDE DEF T
      <2>1. T \in SUBSET Nat
            BY DEF T
      <2> QED BY <1>2, <1>3, <1>4, <2>1, EveryNumber
<1>6. Kept(n) /\ f[n] \in A
      BY <1>1, <1>2, <1>5
<1> QED BY <1>1, <1>2, <1>6

-----------------------------------------------------------------------------
(* FlattenSeq.                                                              *)

Flattens(h, n, ss) == h = [i \in 1 .. n |-> IF i = 1 THEN ss[i] ELSE h[i - 1] \o ss[i]]

LEMMA FlattenExists ==
    ASSUME NEW n \in Nat, NEW ss
    PROVE  \E h : Flattens(h, n, ss)
<1> DEFINE T == {k \in Nat : \E h : Flattens(h, k, ss)}
<1>1. 0 \in T
      <2> DEFINE h == [i \in 1 .. 0 |-> ss]
      <2>1. Flattens(h, 0, ss)
            BY DEF Flattens
      <2> QED BY <2>1
<1>2. ASSUME NEW k \in T PROVE k + 1 \in T
      <2>1. k \in Nat
            OBVIOUS
      <2>2. PICK h : Flattens(h, k, ss)
            OBVIOUS
      <2> DEFINE g == [i \in 1 .. k + 1 |-> IF i = k + 1 THEN IF k = 0 THEN ss[i] ELSE h[k] \o ss[i] ELSE h[i]]
                 e(i) == IF i = 1 THEN ss[i] ELSE g[i - 1] \o ss[i]
      <2>3. ASSUME NEW i \in 1 .. k + 1 PROVE g[i] = e(i)
            <3>1. CASE i = k + 1 /\ k = 0
                  BY <2>1, <3>1
            <3>2. CASE i = k + 1 /\ k # 0
                  <4>1. i - 1 = k /\ i - 1 \in 1 .. k + 1 /\ i - 1 # k + 1 /\ i # 1
                        BY <2>1, <3>2
                  <4>2. g[i - 1] = h[k]
                        BY <4>1
                  <4> QED BY <3>2, <4>1, <4>2
            <3>3. CASE i # k + 1
                  <4>1. i \in 1 .. k
                        BY <2>1, <3>3
                  <4>2. g[i] = h[i] /\ h[i] = IF i = 1 THEN ss[i] ELSE h[i - 1] \o ss[i]
                        BY <2>2, <3>3, <4>1 DEF Flattens
                  <4>3. i # 1 => i - 1 \in 1 .. k + 1 /\ i - 1 # k + 1
                        BY <2>1, <4>1
                  <4>4. i # 1 => g[i - 1] = h[i - 1]
                        BY <4>3
                  <4> QED BY <4>2, <4>4
            <3> QED BY <3>1, <3>2, <3>3
      <2>4. g = [i \in 1 .. k + 1 |-> g[i]]
            OBVIOUS
      <2>5. [i \in 1 .. k + 1 |-> g[i]] = [i \in 1 .. k + 1 |-> e(i)]
            <3> HIDE DEF g, e
            <3> QED BY <2>3
      <2>6. Flattens(g, k + 1, ss)
            <3> HIDE DEF g
            <3> QED BY <2>4, <2>5 DEF Flattens
      <2> QED BY <2>1, <2>6
<1>3. n \in T
      <2> HIDE DEF T
      <2>1. T \in SUBSET Nat
            BY DEF T
      <2> QED BY <1>1, <1>2, <2>1, EveryNumber
<1> QED BY <1>3

Differ(s) == \A i, j \in DOMAIN s : s[i] = s[j] => i = j

(* All places of a sequence of sequences hold different things. *)
AllDiffer(ss) ==
    \A i, k \in DOMAIN ss : \A j \in DOMAIN ss[i], l \in DOMAIN ss[k] :
        ss[i][j] = ss[k][l] => i = k /\ j = l

LEMMA SeqIs ==
    ASSUME NEW B, NEW s \in Seq(B)
    PROVE  Len(s) \in Nat /\ DOMAIN s = 1 .. Len(s) /\ \A i \in DOMAIN s : s[i] \in B
OBVIOUS

LEMMA ConcatIs ==
    ASSUME NEW B, NEW s \in Seq(B), NEW t \in Seq(B), NEW c, c = s \o t
    PROVE  /\ c \in Seq(B) /\ Len(c) = Len(s) + Len(t)
           /\ \A p \in DOMAIN c : \/ p \in DOMAIN s /\ c[p] = s[p]
                                  \/ \E q \in DOMAIN t : p = Len(s) + q /\ c[p] = t[q]
           /\ \A p \in DOMAIN s : p \in DOMAIN c /\ c[p] = s[p]
           /\ \A q \in DOMAIN t : Len(s) + q \in DOMAIN c /\ c[Len(s) + q] = t[q]
<1>1. PICK a \in Nat : a = Len(s) /\ DOMAIN s = 1 .. a
      BY SeqIs
<1>2. PICK b \in Nat : b = Len(t) /\ DOMAIN t = 1 .. b
      BY SeqIs
<1>3. c \in Seq(B) /\ Len(c) = a + b
      BY <1>1, <1>2, ConcatProperties
<1>4. DOMAIN c = 1 .. a + b
      BY <1>3, SeqIs
<1>5. \A p \in 1 .. a + b : c[p] = IF p <= a THEN s[p] ELSE t[p - a]
      BY <1>1, <1>2, ConcatProperties
<1>6. \A p \in 1 .. a + b : p <= a => p \in 1 .. a
      BY <1>1, <1>2
<1>7. \A p \in 1 .. a + b : ~ (p <= a) => p - a \in 1 .. b /\ p = a + (p - a)
      BY <1>1, <1>2
<1>8. \A p \in 1 .. a : p \in 1 .. a + b /\ p <= a
      BY <1>1, <1>2
<1>9. \A q \in 1 .. b : a + q \in 1 .. a + b /\ ~ (a + q <= a) /\ (a + q) - a = q
      BY <1>1, <1>2
<1>10. ASSUME NEW p \in DOMAIN c
       PROVE  \/ p \in DOMAIN s /\ c[p] = s[p]
              \/ \E q \in DOMAIN t : p = Len(s) + q /\ c[p] = t[q]
       BY <1>1, <1>2, <1>4, <1>5, <1>6, <1>7
<1>11. ASSUME NEW p \in DOMAIN s PROVE p \in DOMAIN c /\ c[p] = s[p]
       BY <1>1, <1>4, <1>5, <1>8
<1>12. ASSUME NEW q \in DOMAIN t PROVE Len(s) + q \in DOMAIN c /\ c[Len(s) + q] = t[q]
       <2>1. q \in 1 .. b
             BY <1>2
       <2>2. a + q \in 1 .. a + b /\ ~ (a + q <= a) /\ (a + q) - a = q
             BY <1>9, <2>1
       <2>3. c[a + q] = t[(a + q) - a]
             BY <1>5, <2>2
       <2> QED BY <1>1, <1>4, <2>2, <2>3
<1> QED BY <1>1, <1>2, <1>3, <1>10, <1>11, <1>12

LEMMA ConcatDiffers ==
    ASSUME NEW B, NEW s \in Seq(B), NEW t \in Seq(B), Differ(s), Differ(t),
           \A p \in DOMAIN s, q \in DOMAIN t : s[p] # t[q]
    PROVE  Differ(s \o t)
<1>1. PICK c : c = s \o t
      OBVIOUS
<1>2. \A p \in DOMAIN c : \/ p \in DOMAIN s /\ c[p] = s[p]
                          \/ \E q \in DOMAIN t : p = Len(s) + q /\ c[p] = t[q]
      BY <1>1, ConcatIs
<1> SUFFICES ASSUME NEW p \in DOMAIN c, NEW q \in DOMAIN c, c[p] = c[q] PROVE p = q
    BY <1>1 DEF Differ
<1>3. CASE p \in DOMAIN s /\ c[p] = s[p] /\ q \in DOMAIN s /\ c[q] = s[q]
      BY <1>3 DEF Differ
<1>4. ASSUME NEW i \in DOMAIN t, NEW j \in DOMAIN t,
             p = Len(s) + i, c[p] = t[i], q = Len(s) + j, c[q] = t[j]
      PROVE  p = q
      BY <1>4 DEF Differ
<1> QED BY <1>2, <1>3, <1>4

(* What the sequences up to k hold, c holds. *)
Joins(c, ss, k) ==
    /\ \A p \in DOMAIN c : \E i \in 1 .. k : \E j \in DOMAIN ss[i] : c[p] = ss[i][j]
    /\ \A i \in 1 .. k : \A j \in DOMAIN ss[i] : \E p \in DOMAIN c : c[p] = ss[i][j]
    /\ AllDiffer(ss) => Differ(c)

LEMMA JoinsOneMore ==
    ASSUME NEW B, NEW ss \in Seq(Seq(B)), NEW k \in Nat, NEW s \in Seq(B),
           k + 1 <= Len(ss), Joins(s, ss, k)
    PROVE  s \o ss[k + 1] \in Seq(B) /\ Joins(s \o ss[k + 1], ss, k + 1)
<1>1. PICK m \in Nat : m = k + 1
      OBVIOUS
<1>2. DOMAIN ss = 1 .. Len(ss) /\ Len(ss) \in Nat
      BY SeqIs
<1>3. m \in DOMAIN ss /\ m \in 1 .. m
      BY <1>1, <1>2
<1>4. \A i \in 1 .. k : i \in DOMAIN ss /\ i \in 1 .. m /\ i # m
      BY <1>1, <1>2
<1>5. \A i \in 1 .. m : i \in 1 .. k \/ i = m
      BY <1>1
<1>6. PICK t \in Seq(B) : t = ss[m]
      BY <1>3, SeqIs
<1>7. PICK c : c = s \o t
      OBVIOUS
<1>8. /\ \A p \in DOMAIN c : \/ p \in DOMAIN s /\ c[p] = s[p]
                             \/ \E q \in DOMAIN t : p = Len(s) + q /\ c[p] = t[q]
      /\ \A p \in DOMAIN s : p \in DOMAIN c /\ c[p] = s[p]
      /\ \A q \in DOMAIN t : Len(s) + q \in DOMAIN c /\ c[Len(s) + q] = t[q]
      /\ c \in Seq(B)
      BY <1>7, ConcatIs
<1>9. \A p \in DOMAIN c : \E i \in 1 .. m : \E j \in DOMAIN ss[i] : c[p] = ss[i][j]
      <2> SUFFICES ASSUME NEW p \in DOMAIN c
                   PROVE  \E i \in 1 .. m : \E j \in DOMAIN ss[i] : c[p] = ss[i][j]
          OBVIOUS
      <2>1. CASE p \in DOMAIN s /\ c[p] = s[p]
            <3>1. \E i \in 1 .. k : \E j \in DOMAIN ss[i] : s[p] = ss[i][j]
                  BY <2>1 DEF Joins
            <3> QED BY <1>4, <2>1, <3>1
      <2>2. CASE \E q \in DOMAIN t : c[p] = t[q]
            BY <1>3, <1>6, <2>2
      <2> QED BY <1>8, <2>1, <2>2
<1>10. \A i \in 1 .. m : \A j \in DOMAIN ss[i] : \E p \in DOMAIN c : c[p] = ss[i][j]
       <2> SUFFICES ASSUME NEW i \in 1 .. m, NEW j \in DOMAIN ss[i]
                    PROVE  \E p \in DOMAIN c : c[p] = ss[i][j]
           OBVIOUS
       <2>1. CASE i \in 1 .. k
             <3>1. \E p \in DOMAIN s : s[p] = ss[i][j]
                   BY <2>1 DEF Joins
             <3> QED BY <1>8, <3>1
       <2>2. CASE i = m
             BY <1>6, <1>8, <2>2
       <2> QED BY <1>5, <2>1, <2>2
<1>11. ASSUME AllDiffer(ss) PROVE Differ(c)
       <2>1. Differ(s)
             BY <1>11 DEF Joins
       <2>2. Differ(t)
             BY <1>3, <1>6, <1>11 DEF AllDiffer, Differ
       <2>3. ASSUME NEW p \in DOMAIN s, NEW q \in DOMAIN t, s[p] = t[q] PROVE FALSE
             <3>1. PICK i \in 1 .. k : \E j \in DOMAIN ss[i] : s[p] = ss[i][j]
                   BY DEF Joins
             <3>2. PICK j \in DOMAIN ss[i] : s[p] = ss[i][j]
                   BY <3>1
             <3>3. ss[i][j] = ss[m][q] /\ q \in DOMAIN ss[m] /\ i # m /\ i \in DOMAIN ss
                   BY <1>4, <1>6, <2>3, <3>2
             <3> QED BY <1>3, <1>11, <3>3 DEF AllDiffer
       <2> QED BY <1>7, <2>1, <2>2, <2>3, ConcatDiffers
<1>12. Joins(c, ss, m)
       BY <1>9, <1>10, <1>11 DEF Joins
<1> QED BY <1>1, <1>6, <1>7, <1>8, <1>12

(* The flattened sequence holds what the sequences hold, each thing as      *)
(* often as they do.                                                        *)
LEMMA FlattenIs ==
    ASSUME NEW B, NEW ss \in Seq(Seq(B))
    PROVE  /\ FlattenSeq(ss) \in Seq(B)
           /\ \A p \in DOMAIN FlattenSeq(ss) : \E i \in DOMAIN ss : \E j \in DOMAIN ss[i] :
                  FlattenSeq(ss)[p] = ss[i][j]
           /\ \A i \in DOMAIN ss : \A j \in DOMAIN ss[i] : \E p \in DOMAIN FlattenSeq(ss) :
                  FlattenSeq(ss)[p] = ss[i][j]
           /\ AllDiffer(ss) => Differ(FlattenSeq(ss))
<1>1. PICK n \in Nat : n = Len(ss) /\ DOMAIN ss = 1 .. n
      BY SeqIs
<1>2. CASE n = 0
      <2>1. FlattenSeq(ss) = ss /\ ss = <<>>
            BY <1>1, <1>2 DEF FlattenSeq
      <2>2. DOMAIN ss = {}
            BY <1>1, <1>2
      <2> QED BY <2>1, <2>2 DEF Differ
<1>3. CASE n # 0
      <2>1. FlattenSeq(ss) = (CHOOSE h : Flattens(h, n, ss))[n]
            BY <1>1, <1>3 DEF FlattenSeq, Flattens
      <2>2. PICK h : Flattens(h, n, ss) /\ FlattenSeq(ss) = h[n]
            <3> DEFINE c == CHOOSE h : Flattens(h, n, ss)
            <3>1. Flattens(c, n, ss)
                  BY FlattenExists
            <3> QED BY <2>1, <3>1
      <2>3. \A k \in 1 .. n : h[k] = IF k = 1 THEN ss[k] ELSE h[k - 1] \o ss[k]
            BY <2>2 DEF Flattens
      <2> DEFINE T == {k \in Nat : k + 1 <= n => h[k + 1] \in Seq(B) /\ Joins(h[k + 1], ss, k + 1)}
      <2>4. 0 \in T
            <3>1. 1 \in 1 .. n /\ 1 \in DOMAIN ss /\ 0 + 1 = 1 /\ 1 .. 1 = {1}
                  BY <1>1, <1>3
            <3>2. h[1] = ss[1] /\ ss[1] \in Seq(B)
                  BY <2>3, <3>1, SeqIs
            <3>3. AllDiffer(ss) => Differ(ss[1])
                  BY <3>1 DEF AllDiffer, Differ
            <3>4. Joins(h[1], ss, 1)
                  BY <3>1, <3>2, <3>3 DEF Joins
            <3> QED BY <3>1, <3>2, <3>4
      <2>5. ASSUME NEW m \in T PROVE m + 1 \in T
            <3>1. PICK k \in Nat : m \in Nat /\ k = m + 1 /\ k # 0
                  OBVIOUS
            <3>2. ASSUME k + 1 <= n PROVE h[k + 1] \in Seq(B) /\ Joins(h[k + 1], ss, k + 1)
                  <4>1. k + 1 \in 1 .. n /\ k + 1 # 1 /\ (k + 1) - 1 = k /\ k <= n
                        BY <3>1, <3>2
                  <4>2. h[k] \in Seq(B) /\ Joins(h[k], ss, k)
                        BY <3>1, <4>1
                  <4>3. h[k + 1] = h[k] \o ss[k + 1]
                        BY <2>3, <4>1
                  <4> HIDE DEF T
                  <4>4. PICK s \in Seq(B) : s = h[k]
                        BY <4>2
                  <4>5. s \o ss[k + 1] \in Seq(B) /\ Joins(s \o ss[k + 1], ss, k + 1)
                        BY <1>1, <3>2, <4>2, <4>4, JoinsOneMore
                  <4> QED BY <4>3, <4>4, <4>5
            <3> QED BY <3>1, <3>2
      <2>6. \A k \in Nat : k \in T
            <3> HIDE DEF T
            <3>1. T \in SUBSET Nat
                  BY DEF T
            <3> QED BY <2>4, <2>5, <3>1, EveryNumber
      <2>7. h[n] \in Seq(B) /\ Joins(h[n], ss, n)
            <3>1. n - 1 \in Nat /\ (n - 1) + 1 = n
                  BY <1>1, <1>3
            <3>2. n - 1 \in T
                  BY <2>6, <3>1
            <3> QED BY <1>1, <3>1, <3>2
      <2> HIDE DEF T
      <2>8. PICK c : c = FlattenSeq(ss)
            OBVIOUS
      <2>9. c \in Seq(B) /\ Joins(c, ss, n)
            BY <2>2, <2>7, <2>8
      <2>10. PICK D : D = DOMAIN ss /\ D = 1 .. n
            BY <1>1
      <2>11. \A p \in DOMAIN c : \E i \in D : \E j \in DOMAIN ss[i] : c[p] = ss[i][j]
            BY <2>9, <2>10 DEF Joins
      <2>12. \A i \in D : \A j \in DOMAIN ss[i] : \E p \in DOMAIN c : c[p] = ss[i][j]
            BY <2>9, <2>10 DEF Joins
      <2>13. AllDiffer(ss) => Differ(c)
            BY <2>9 DEF Joins
      <2> QED BY <2>8, <2>9, <2>10, <2>11, <2>12, <2>13
<1> QED BY <1>2, <1>3

-----------------------------------------------------------------------------
(* Letters.                                                                 *)

Ink == Nat \ {0}

LettersIn(parts) == UNION {Letters(parts[i]) : i \in DOMAIN parts}

LEMMA LetterIs ==
    ASSUME NEW t
    PROVE  \A x : x \in Letters(t) <=> x \in Ink /\ \E i \in DOMAIN t : t[i] = x
BY DEF Letters, Ink

LEMMA ConcatLetters ==
    ASSUME NEW s \in Strings, NEW t \in Strings
    PROVE  s \o t \in Strings /\ Letters(s) \cup Letters(t) \subseteq Letters(s \o t)
<1>1. PICK c : c = s \o t
      OBVIOUS
<1>2. /\ c \in Strings
      /\ \A p \in DOMAIN s : p \in DOMAIN c /\ c[p] = s[p]
      /\ \A q \in DOMAIN t : Len(s) + q \in DOMAIN c /\ c[Len(s) + q] = t[q]
      BY <1>1, ConcatIs DEF Strings
<1>3. \A x \in Letters(s) : x \in Letters(c)
      BY <1>2, LetterIs
<1>4. \A x \in Letters(t) : x \in Letters(c)
      BY <1>2, LetterIs
<1> QED BY <1>1, <1>2, <1>3, <1>4

LEMMA PartIs ==
    ASSUME NEW t \in Strings, NEW m \in Nat \ {0}, NEW n \in Nat, n <= Len(t),
           NEW u, u = SubSeq(t, m, n)
    PROVE  /\ u \in Strings /\ Len(u) = IF m <= n THEN n - m + 1 ELSE 0
           /\ \A i \in m .. n : t[i] \in Ink => t[i] \in Letters(u)
<1>1. Len(t) \in Nat /\ DOMAIN t = 1 .. Len(t) /\ \A i \in DOMAIN t : t[i] \in Int
      BY SeqIs DEF Strings
<1>2. \A i \in m .. n : t[i] \in Int
      <2> TAKE i \in m .. n
      <2>1. i \in DOMAIN t
            BY <1>1
      <2> QED BY <1>1, <2>1
<1>3. /\ u \in Strings /\ Len(u) = IF m <= n THEN n - m + 1 ELSE 0
      /\ \A i \in 1 .. n - m + 1 : u[i] = t[m + i - 1]
      BY <1>2, SubSeqProperties DEF Strings
<1>4. ASSUME NEW i \in m .. n, t[i] \in Ink PROVE t[i] \in Letters(u)
      <2>1. PICK j \in Int : j = i - m + 1
            OBVIOUS
      <2>2. j \in 1 .. n - m + 1 /\ m + j - 1 = i /\ m <= n
            BY <2>1
      <2>3. DOMAIN u = 1 .. Len(u)
            BY <1>3, SeqIs DEF Strings
      <2>4. j \in DOMAIN u /\ u[j] = t[i]
            BY <1>3, <2>2, <2>3
      <2> QED BY <1>4, <2>4, LetterIs
<1> QED BY <1>3, <1>4

LEMMA StripIs ==
    ASSUME NEW t \in Strings
    PROVE  Strip(t) \in Strings /\ Len(Strip(t)) <= Len(t) /\ Letters(t) \subseteq Letters(Strip(t))
<1>1. PICK n \in Nat : n = Len(t) /\ DOMAIN t = 1 .. n
      BY SeqIs DEF Strings
<1>2. PICK ink : ink = {i \in DOMAIN t : t[i] \notin Blank}
      OBVIOUS
<1>3. \A i \in DOMAIN t : t[i] \in Ink => i \in ink
      BY <1>2 DEF Ink, Blank, NewLine, Space
<1>4. CASE ink = {}
      <2>1. Strip(t) = <<>>
            BY <1>2, <1>4 DEF Strip
      <2>2. Letters(t) = {}
            BY <1>3, <1>4, LetterIs
      <2>3. <<>> \in Strings /\ Len(<<>>) = 0
            BY EmptySeq DEF Strings
      <2> QED BY <1>1, <2>1, <2>2, <2>3
<1>5. CASE ink # {}
      <2>1. ink \in SUBSET (1 .. n) /\ ink \in SUBSET Nat
            BY <1>1, <1>2
      <2>2. PICK a : a = Min(ink) /\ a \in ink /\ \A k \in ink : a <= k
            BY <1>5, <2>1, MinIs
      <2>3. PICK b : b = Max(ink) /\ b \in ink /\ \A k \in ink : k <= b
            BY <1>5, <2>1, MaxIs
      <2>4. Strip(t) = SubSeq(t, a, b)
            BY <1>2, <1>5, <2>2, <2>3 DEF Strip
      <2>5. a \in Nat \ {0} /\ b \in Nat /\ b <= n /\ a <= b
            BY <1>1, <2>1, <2>2, <2>3
      <2>6. /\ Strip(t) \in Strings /\ Len(Strip(t)) = b - a + 1
            /\ \A i \in a .. b : t[i] \in Ink => t[i] \in Letters(Strip(t))
            BY <1>1, <2>4, <2>5, PartIs
      <2>7. \A i \in ink : i \in a .. b
            BY <2>1, <2>2, <2>3
      <2>8. \A x \in Letters(t) : x \in Letters(Strip(t))
            BY <1>3, <2>6, <2>7, LetterIs
      <2> QED BY <1>1, <2>5, <2>6, <2>8
<1> QED BY <1>4, <1>5

LEMMA SuffixIs ==
    ASSUME NEW s \in Strings, NEW t \in Strings, IsSuffix(s, t)
    PROVE  /\ Len(s) <= Len(t)
           /\ \A i \in Len(t) - Len(s) + 1 .. Len(t) : \E j \in DOMAIN s : t[i] = s[j]
<1>1. PICK m \in Nat : m = Len(s) /\ DOMAIN s = 1 .. m
      BY SeqIs DEF Strings
<1>2. PICK n \in Nat : n = Len(t) /\ DOMAIN t = 1 .. n
      BY SeqIs DEF Strings
<1>3. PICK r : r = Reverse(s)
      OBVIOUS
<1>4. PICK q : q = Reverse(t)
      OBVIOUS
<1>5. /\ r = [i \in 1 .. m |-> s[(m - i) + 1]]
      /\ q = [i \in 1 .. n |-> t[(n - i) + 1]]
      BY <1>1, <1>2, <1>3, <1>4 DEF Reverse
<1>6. Len(r) = m /\ Len(q) = n
      BY <1>5
<1>7. m <= n /\ SubSeq(r, 1, m) = SubSeq(q, 1, m)
      BY <1>3, <1>4, <1>6 DEF IsSuffix, IsPrefix
<1>8. ASSUME NEW i \in 1 .. m PROVE r[i] = q[i]
      <2>1. \A k \in 1 .. m : r[k] \in Int /\ q[k] \in Int
            <3> TAKE k \in 1 .. m
            <3>1. (m - k) + 1 \in 1 .. m /\ (n - k) + 1 \in 1 .. n /\ k \in 1 .. n
                  BY <1>7
            <3>2. s[(m - k) + 1] \in Int /\ t[(n - k) + 1] \in Int
                  BY <1>1, <1>2, <3>1, SeqIs DEF Strings
            <3> QED BY <1>5, <3>1, <3>2
      <2>2. \A k \in 1 .. m - 1 + 1 : SubSeq(r, 1, m)[k] = r[1 + k - 1]
            BY <2>1, SubSeqProperties
      <2>3. \A k \in 1 .. m - 1 + 1 : SubSeq(q, 1, m)[k] = q[1 + k - 1]
            BY <2>1, SubSeqProperties
      <2>4. i \in 1 .. m - 1 + 1 /\ 1 + i - 1 = i
            OBVIOUS
      <2> QED BY <1>7, <2>2, <2>3, <2>4
<1>9. ASSUME NEW i \in n - m + 1 .. n PROVE \E j \in 1 .. m : t[i] = s[j]
      <2>1. PICK k \in Int : k = n - i + 1
            OBVIOUS
      <2>2. k \in 1 .. m /\ k \in 1 .. n /\ (n - k) + 1 = i /\ (m - k) + 1 \in 1 .. m
            BY <1>7, <2>1
      <2>3. r[k] = s[(m - k) + 1] /\ q[k] = t[i]
            BY <1>5, <2>2
      <2> QED BY <1>8, <2>2, <2>3
<1> QED BY <1>1, <1>2, <1>7, <1>9

-----------------------------------------------------------------------------
(* Sequences of texts.                                                      *)

LEMMA InIs ==
    ASSUME NEW parts
    PROVE  \A x : x \in LettersIn(parts) <=> \E i \in DOMAIN parts : x \in Letters(parts[i])
BY DEF LettersIn

LEMMA JoinedLetters ==
    ASSUME NEW B \in SUBSET Strings, NEW s \in Seq(B), NEW t \in Seq(B)
    PROVE  s \o t \in Seq(B) /\ LettersIn(s) \cup LettersIn(t) \subseteq LettersIn(s \o t)
<1>1. PICK c : c = s \o t
      OBVIOUS
<1>2. /\ c \in Seq(B)
      /\ \A p \in DOMAIN s : p \in DOMAIN c /\ c[p] = s[p]
      /\ \A q \in DOMAIN t : Len(s) + q \in DOMAIN c /\ c[Len(s) + q] = t[q]
      BY <1>1, ConcatIs
<1>3. \A x \in LettersIn(s) : x \in LettersIn(c)
      BY <1>2, InIs
<1>4. \A x \in LettersIn(t) : x \in LettersIn(c)
      BY <1>2, InIs
<1> QED BY <1>1, <1>2, <1>3, <1>4

LEMMA OneIs ==
    ASSUME NEW B \in SUBSET Strings, NEW p \in B
    PROVE  <<p>> \in Seq(B) /\ LettersIn(<<p>>) = Letters(p) /\ <<p>> # <<>>
<1>1. PICK s : s = <<p>>
      OBVIOUS
<1>2. s \in Seq(B) /\ DOMAIN s = {1} /\ s[1] = p /\ s # <<>>
      BY <1>1
<1>3. \A x : x \in LettersIn(s) <=> x \in Letters(p)
      BY <1>2, InIs
<1> QED BY <1>1, <1>2, <1>3

LEMMA AppendedLetters ==
    ASSUME NEW B \in SUBSET Strings, NEW s \in Seq(B), NEW p \in B
    PROVE  /\ Append(s, p) \in Seq(B) /\ Append(s, p) # <<>>
           /\ LettersIn(s) \cup Letters(p) \subseteq LettersIn(Append(s, p))
<1>1. PICK c : c = Append(s, p)
      OBVIOUS
<1>2. PICK n \in Nat : n = Len(s) /\ DOMAIN s = 1 .. n
      BY SeqIs
<1>3. c \in Seq(B) /\ Len(c) = n + 1 /\ c[n + 1] = p /\ \A i \in 1 .. n : c[i] = s[i]
      BY <1>1, <1>2
<1>4. DOMAIN c = 1 .. n + 1
      BY <1>3, SeqIs
<1>5. n + 1 \in DOMAIN c /\ \A i \in DOMAIN s : i \in DOMAIN c /\ c[i] = s[i]
      BY <1>2, <1>3, <1>4
<1>6. \A x \in LettersIn(s) : x \in LettersIn(c)
      BY <1>5, InIs
<1>7. \A x \in Letters(p) : x \in LettersIn(c)
      BY <1>3, <1>5, InIs
<1>8. c # <<>>
      BY <1>5
<1> QED BY <1>1, <1>3, <1>6, <1>7, <1>8

LEMMA FrontLastIs ==
    ASSUME NEW B \in SUBSET Strings, NEW s \in Seq(B), s # <<>>
    PROVE  /\ Front(s) \in Seq(B) /\ Last(s) \in B /\ Len(Front(s)) = Len(s) - 1
           /\ \A i \in 1 .. Len(s) - 1 : Front(s)[i] = s[i]
           /\ LettersIn(s) \subseteq LettersIn(Front(s)) \cup Letters(Last(s))
<1>1. PICK n \in Nat : n = Len(s) /\ DOMAIN s = 1 .. n /\ n # 0
      BY SeqIs, EmptySeq
<1>2. n \in DOMAIN s /\ Last(s) = s[n] /\ s[n] \in B
      BY <1>1, SeqIs DEF Last
<1>3. PICK f : f = Front(s) /\ f = SubSeq(s, 1, n - 1)
      BY <1>1 DEF Front
<1>4. \A i \in 1 .. n - 1 : i \in DOMAIN s /\ s[i] \in B
      BY <1>1, SeqIs
<1>5. /\ f \in Seq(B) /\ Len(f) = IF 1 <= n - 1 THEN n - 1 - 1 + 1 ELSE 0
      /\ \A i \in 1 .. n - 1 - 1 + 1 : f[i] = s[1 + i - 1]
      BY <1>1, <1>3, <1>4, SubSeqProperties
<1>6. Len(f) = n - 1 /\ \A i \in 1 .. n - 1 : f[i] = s[i]
      BY <1>1, <1>5
<1>7. DOMAIN f = 1 .. n - 1
      BY <1>5, <1>6, SeqIs
<1>8. \A i \in DOMAIN s : i \in DOMAIN f \/ i = n
      BY <1>1, <1>7
<1>9. \A x \in LettersIn(s) : x \in LettersIn(f) \cup Letters(s[n])
      BY <1>6, <1>7, <1>8, InIs
<1> QED BY <1>1, <1>2, <1>3, <1>5, <1>6, <1>9

Parts == Seq(Strings) \ {<<>>}

(* str.split loses no letter: a cut takes out the separator alone. *)
LEMMA SplitIs ==
    ASSUME NEW t \in Strings, NEW sep \in Strings, Letters(sep) = {}
    PROVE  /\ Split(t, sep) \in Parts
           /\ Letters(t) \subseteq LettersIn(Split(t, sep))
<1> DEFINE step == [done \in Seq(Strings) |-> [c \in Int |->
                       LET cur == Append(Last(done), c)
                       IN  IF IsSuffix(sep, cur)
                           THEN Front(done) \o <<SubSeq(cur, 1, Len(cur) - Len(sep)), <<>>>>
                           ELSE Append(Front(done), cur)]]
           holds == [done \in Parts |-> LettersIn(done)]
           adds == [c \in Int |-> {c} \cap Ink]
           Grows(done, c) == /\ step[done][c] \in Parts
                             /\ holds[done] \cup adds[c] \subseteq holds[step[done][c]]
<1>1. Split(t, sep) = Fold(step, <<<<>>>>, t)
      BY DEF Split
<1>2. ASSUME NEW done \in Parts, NEW c \in Int PROVE Grows(done, c)
      <2>1. PICK last : last = Last(done) /\ last \in Strings
            BY FrontLastIs DEF Parts
      <2>2. PICK front : front = Front(done) /\ front \in Seq(Strings) /\ LettersIn(done) \subseteq LettersIn(front) \cup Letters(last)
            BY <2>1, FrontLastIs DEF Parts
      <2>3. PICK cur : cur = Append(last, c)
            OBVIOUS
      <2>4. PICK n \in Nat : n = Len(last) /\ DOMAIN last = 1 .. n
            BY <2>1, SeqIs DEF Strings
      <2>5. cur \in Strings /\ Len(cur) = n + 1 /\ cur[n + 1] = c /\ \A i \in 1 .. n : cur[i] = last[i]
            BY <2>1, <2>3, <2>4 DEF Strings
      <2>6. DOMAIN cur = 1 .. n + 1
            BY <2>5, SeqIs DEF Strings
      <2>7. Letters(last) \cup ({c} \cap Ink) \subseteq Letters(cur)
            BY <2>4, <2>5, <2>6, LetterIs
      <2>8. done \in Seq(Strings)
            BY DEF Parts
      <2>9. CASE IsSuffix(sep, cur)
            <3>1. PICK m \in Nat : m = Len(sep) /\ DOMAIN sep = 1 .. m
                  BY SeqIs DEF Strings
            <3>0. PICK l \in Nat : l = n + 1 /\ l = Len(cur)
                  BY <2>4, <2>5
            <3>2. m <= l /\ \A i \in l - m + 1 .. l : \E j \in DOMAIN sep : cur[i] = sep[j]
                  <4>1. Len(sep) <= Len(cur)
                        BY <2>5, <2>9, SuffixIs
                  <4>2. \A i \in Len(cur) - Len(sep) + 1 .. Len(cur) : \E j \in DOMAIN sep : cur[i] = sep[j]
                        BY <2>5, <2>9, SuffixIs
                  <4> QED BY <3>0, <3>1, <4>1, <4>2
            <3>3. \A i \in l - m + 1 .. l : cur[i] \notin Ink
                  BY <3>2, LetterIs
            <3>4. PICK k \in Nat : k = l - m /\ k <= Len(cur)
                  BY <3>0, <3>1, <3>2
            <3>5. PICK u : u = SubSeq(cur, 1, k)
                  OBVIOUS
            <3>6. u \in Strings /\ \A i \in 1 .. k : cur[i] \in Ink => cur[i] \in Letters(u)
                  <4>1. 1 \in Nat \ {0}
                        OBVIOUS
                  <4> QED BY <2>5, <3>4, <3>5, <4>1, PartIs
            <3>7. \A i \in 1 .. l : i \in 1 .. k \/ i \in l - m + 1 .. l
                  BY <3>0, <3>1, <3>4
            <3>8. Letters(cur) \subseteq Letters(u)
                  BY <2>6, <3>0, <3>3, <3>6, <3>7, LetterIs
            <3>9. PICK two : two = <<u, <<>>>> /\ two \in Seq(Strings) /\ Len(two) = 2 /\ DOMAIN two = {1, 2} /\ two[1] = u
                  <4>1. PICK v \in Strings : v = <<>>
                        BY EmptySeq DEF Strings
                  <4>2. /\ <<u, v>> \in Seq(Strings) /\ Len(<<u, v>>) = 2 /\ DOMAIN <<u, v>> = {1, 2}
                        /\ <<u, v>>[1] = u
                        BY <3>6
                  <4> QED BY <4>1, <4>2
            <3>10. Letters(u) \subseteq LettersIn(two)
                   BY <3>9, InIs
            <3>11. PICK r : r = front \o two
                   OBVIOUS
            <3>12. r \in Seq(Strings) /\ LettersIn(front) \cup LettersIn(two) \subseteq LettersIn(r)
                   BY <2>2, <3>9, <3>11, JoinedLetters
            <3>13. Len(r) = Len(front) + 2 /\ Len(front) \in Nat
                   BY <2>2, <3>9, <3>11
            <3>14. r \in Parts
                   <4>1. Len(r) # 0
                         BY <3>13
                   <4> QED BY <3>12, <4>1, EmptySeq DEF Parts
            <3>15. step[done][c] = r
                   <4>1. step[done][c] = Front(done) \o <<SubSeq(cur, 1, Len(cur) - Len(sep)), <<>>>>
                         BY <2>1, <2>3, <2>8, <2>9
                   <4> HIDE DEF step
                   <4>2. k = Len(cur) - Len(sep)
                         BY <3>0, <3>1, <3>4
                   <4> QED BY <2>2, <3>5, <3>9, <3>11, <4>1, <4>2
            <3>16. LettersIn(done) \cup ({c} \cap Ink) \subseteq LettersIn(r)
                   BY <2>2, <2>7, <3>8, <3>10, <3>12
            <3> HIDE DEF step
            <3> QED BY <3>14, <3>15, <3>16
      <2>10. CASE ~ IsSuffix(sep, cur)
            <3>1. PICK r : r = Append(front, cur)
                  OBVIOUS
            <3>2. r \in Parts /\ LettersIn(front) \cup Letters(cur) \subseteq LettersIn(r)
                  BY <2>2, <2>5, <3>1, AppendedLetters DEF Parts
            <3>3. step[done][c] = r
                  BY <2>1, <2>2, <2>3, <2>8, <2>10, <3>1
            <3> HIDE DEF step
            <3> QED BY <2>2, <2>7, <3>2, <3>3
      <2> QED BY <2>9, <2>10
<1> HIDE DEF step
<1>3. Closed(step, Parts, Int)
      BY <1>2 DEF Closed
<1>4. \A a \in Parts, b \in Int : holds[a] \cup adds[b] \subseteq holds[step[a][b]]
      BY <1>2
<1>5. <<<<>>>> \in Parts
      BY EmptySeq DEF Parts, Strings
<1>6. t \in Seq(Int)
      BY DEF Strings
<1>7. PICK r : r = Fold(step, <<<<>>>>, t)
      OBVIOUS
<1>8. PICK g : g = adds
      OBVIOUS
<1>9. PICK h : h = holds
      OBVIOUS
<1> HIDE DEF holds, adds
<1>10. r \in Parts /\ \A i \in 1 .. Len(t) : g[t[i]] \subseteq h[r]
      BY <1>3, <1>4, <1>5, <1>6, <1>7, <1>8, <1>9, FoldHolds
<1>11. Letters(t) \subseteq LettersIn(r)
       <2>1. \A i \in DOMAIN t : i \in 1 .. Len(t) /\ t[i] \in Int
             BY <1>6, SeqIs
       <2>2. \A c \in Int : g[c] = {c} \cap Ink
             BY <1>8 DEF adds
       <2>3. h[r] = LettersIn(r)
             BY <1>9, <1>10 DEF holds
       <2>4. \A i \in DOMAIN t : t[i] \in Ink => t[i] \in LettersIn(r)
             BY <1>10, <2>1, <2>2, <2>3
       <2> QED BY <2>4, LetterIs
<1> QED BY <1>1, <1>7, <1>10, <1>11


LEMMA SegmentsIs ==
    ASSUME NEW t \in Strings, NEW sep \in Strings, Letters(sep) = {}
    PROVE  Segments(t, sep) \in Seq(Strings) /\ Letters(t) \subseteq LettersIn(Segments(t, sep))
<1>1. PICK raw : raw = Split(t, sep)
      OBVIOUS
<1>2. raw \in Parts /\ raw \in Seq(Strings) /\ raw # <<>> /\ Letters(t) \subseteq LettersIn(raw)
      BY <1>1, SplitIs DEF Parts
<1>3. PICK n \in Nat : n = Len(raw) /\ DOMAIN raw = 1 .. n /\ n # 0
      BY <1>2, SeqIs, EmptySeq
<1>4. PICK last : last = Strip(Last(raw))
      OBVIOUS
<1>5. Last(raw) = raw[n] /\ n \in DOMAIN raw /\ raw[n] \in Strings
      BY <1>2, <1>3, SeqIs DEF Last
<1>6. last \in Strings /\ Letters(raw[n]) \subseteq Letters(last)
      BY <1>4, <1>5, StripIs
<1> DEFINE piece(i) == IF raw[i] = <<>> THEN <<>> ELSE <<raw[i] \o sep>>
           pieces == [i \in 1 .. n - 1 |-> piece(i)]
           final == IF last = <<>> THEN <<>> ELSE <<last>>
<1>7. Segments(t, sep) = FlattenSeq(pieces) \o final
      BY <1>1, <1>3, <1>4 DEF Segments
<1>8. ASSUME NEW i \in 1 .. n - 1
      PROVE  piece(i) \in Seq(Strings) /\ Letters(raw[i]) \subseteq LettersIn(piece(i))
      <2>1. i \in DOMAIN raw /\ raw[i] \in Strings
            BY <1>2, <1>3, SeqIs
      <2>2. CASE raw[i] = <<>>
            <3>1. DOMAIN raw[i] = {} /\ piece(i) = <<>>
                  BY <2>2, EmptySeq
            <3>2. Letters(raw[i]) = {}
                  BY <3>1, LetterIs
            <3> HIDE DEF piece
            <3> QED BY <3>1, <3>2, EmptySeq
      <2>3. CASE raw[i] # <<>>
            <3>1. PICK u : u = raw[i] \o sep
                  OBVIOUS
            <3>2. u \in Strings /\ Letters(raw[i]) \subseteq Letters(u)
                  BY <2>1, <3>1, ConcatLetters
            <3>3. piece(i) = <<u>>
                  BY <2>3, <3>1
            <3> HIDE DEF piece
            <3>4. piece(i) \in Seq(Strings) /\ LettersIn(piece(i)) = Letters(u)
                  BY <3>2, <3>3, OneIs
            <3> QED BY <3>2, <3>4
      <2> QED BY <2>2, <2>3
<1>9. final \in Seq(Strings) /\ Letters(raw[n]) \subseteq LettersIn(final)
      <2>1. CASE last = <<>>
            <3>1. DOMAIN last = {} /\ final = <<>>
                  BY <2>1, EmptySeq
            <3>2. Letters(last) = {}
                  BY <3>1, LetterIs
            <3> HIDE DEF final
            <3> QED BY <1>6, <3>1, <3>2, EmptySeq
      <2>2. CASE last # <<>>
            <3>1. final = <<last>>
                  BY <2>2
            <3> HIDE DEF final
            <3>2. final \in Seq(Strings) /\ LettersIn(final) = Letters(last)
                  BY <1>6, <3>1, OneIs
            <3> QED BY <1>6, <3>2
      <2> QED BY <2>1, <2>2
<1> HIDE DEF piece, final
<1>10. \A i \in 1 .. n - 1 : pieces[i] = piece(i)
       OBVIOUS
<1>11. pieces \in Seq(Seq(Strings)) /\ DOMAIN pieces = 1 .. n - 1
       <2>1. n - 1 \in Nat
             BY <1>3
       <2>2. \A i \in 1 .. n - 1 : piece(i) \in Seq(Strings)
             BY <1>8
       <2> QED BY <2>1, <2>2
<1> HIDE DEF pieces
<1>12. PICK flat : flat = FlattenSeq(pieces)
       OBVIOUS
<1>13. flat \in Seq(Strings)
       BY <1>11, <1>12, FlattenIs
<1>14. \A i \in DOMAIN pieces : \A j \in DOMAIN pieces[i] : \E p \in DOMAIN flat : flat[p] = pieces[i][j]
       <2>1. PICK ss \in Seq(Seq(Strings)) : ss = pieces
             BY <1>11
       <2>2. \A i \in DOMAIN ss : \A j \in DOMAIN ss[i] : \E p \in DOMAIN FlattenSeq(ss) : FlattenSeq(ss)[p] = ss[i][j]
             BY FlattenIs
       <2> QED BY <1>12, <2>1, <2>2
<1>15. ASSUME NEW i \in 1 .. n - 1 PROVE Letters(raw[i]) \subseteq LettersIn(flat)
       <2>1. Letters(raw[i]) \subseteq LettersIn(pieces[i])
             BY <1>8, <1>10
       <2>2. LettersIn(pieces[i]) \subseteq LettersIn(flat)
             BY <1>11, <1>14, InIs
       <2> QED BY <2>1, <2>2
<1>16. PICK r : r = flat \o final
       OBVIOUS
<1>17. r \in Seq(Strings) /\ LettersIn(flat) \cup LettersIn(final) \subseteq LettersIn(r)
       BY <1>9, <1>13, <1>16, JoinedLetters
<1>18. \A i \in DOMAIN raw : i \in 1 .. n - 1 \/ i = n
       BY <1>3
<1>19. \A x \in LettersIn(raw) : x \in LettersIn(r)
       BY <1>9, <1>15, <1>17, <1>18, InIs
<1> QED BY <1>2, <1>7, <1>12, <1>16, <1>17, <1>19


-----------------------------------------------------------------------------
(* Blocks of a given size.                                                  *)

(* The blocks of n things: where a thing lies, and where a block ends. *)
LEMMA BlocksAre ==
    ASSUME NEW n \in Nat, NEW size \in Nat \ {0}, NEW q, q = (n + size - 1) \div size
    PROVE  /\ q \in Nat
           /\ \A i \in 1 .. q : (i - 1) * size + 1 \in Nat \ {0} /\ (i - 1) * size + 1 <= n
           /\ \A p \in 1 .. n : \E i \in 1 .. q : (i - 1) * size + 1 <= p /\ p <= i * size
<1>1. PICK m \in Nat : m = n + size - 1
      OBVIOUS
<1>2. q \in Nat /\ size * q <= m /\ m < size * q + size
      BY <1>1
<1>3. ASSUME NEW i \in 1 .. q
      PROVE  (i - 1) * size + 1 \in Nat \ {0} /\ (i - 1) * size + 1 <= n
      <2>1. PICK k \in Nat : k = i - 1 /\ k < q
            BY <1>2
      <2>2. PICK a \in Nat : a = k * size
            OBVIOUS
      <2>3. PICK b \in Nat : b = q * size
            BY <1>2
      <2>4. a + size <= b
            BY <1>2, <2>1, <2>2, <2>3
      <2>5. b = size * q
            BY <1>2, <2>3
      <2>6. a + 1 <= n
            BY <1>1, <1>2, <2>4, <2>5
      <2> QED BY <2>1, <2>2, <2>6
<1>4. ASSUME NEW p \in 1 .. n
      PROVE  \E i \in 1 .. q : (i - 1) * size + 1 <= p /\ p <= i * size
      <2>1. PICK d \in Nat : d = p - 1
            OBVIOUS
      <2>2. PICK k : k = d \div size
            OBVIOUS
      <2>3. k \in Nat /\ size * k <= d /\ d < size * k + size
            BY <2>1, <2>2
      <2>4. PICK i \in Nat : i = k + 1 /\ i - 1 = k /\ i >= 1
            BY <2>3
      <2>5. PICK a \in Nat : a = k * size
            BY <2>3
      <2>6. a = size * k /\ i * size = a + size
            BY <2>3, <2>4, <2>5
      <2>7. a + 1 <= p /\ p <= a + size
            BY <2>1, <2>3, <2>6
      <2>8. k < q
            <3> SUFFICES ASSUME q <= k PROVE FALSE
                BY <1>2, <2>3
            <3>1. size * q <= size * k
                  BY <1>2, <2>3
            <3>2. PICK b \in Nat : b = size * q
                  BY <1>2
            <3>3. b <= d
                  BY <2>3, <3>1, <3>2
            <3> QED BY <1>1, <1>2, <2>1, <3>2, <3>3
      <2>9. i \in 1 .. q
            BY <1>2, <2>3, <2>4, <2>8
      <2> QED BY <2>4, <2>5, <2>6, <2>7, <2>9
<1> QED BY <1>2, <1>3, <1>4

(* The i-th block is the numbers from a to b. *)
Block(i, a, b, n, size) == a = (i - 1) * size + 1 /\ b = Min({i * size, n}) /\ a <= n

LEMMA BlockEnds ==
    ASSUME NEW n \in Nat, NEW size \in Nat \ {0}, NEW i \in Nat, i >= 1,
           NEW a, NEW b, Block(i, a, b, n, size)
    PROVE  /\ a \in Nat \ {0} /\ b \in Nat /\ b <= n /\ a <= b /\ b - a + 1 <= size
           /\ \A p \in a .. n : p <= i * size => p \in a .. b
<1>1. PICK k \in Nat : k = i - 1
      OBVIOUS
<1>2. PICK c \in Nat : c = k * size
      OBVIOUS
<1>3. PICK e \in Nat : e = i * size /\ e = c + size
      <2>1. i = k + 1
            BY <1>1
      <2> QED BY <1>2, <2>1
<1>4. b = IF e <= n THEN e ELSE n
      BY <1>3, PairMin DEF Block
<1>5. a = c + 1 /\ a <= n
      BY <1>1, <1>2 DEF Block
<1> QED BY <1>3, <1>4, <1>5

-----------------------------------------------------------------------------
(* Parts of a text.                                                         *)

Fits(max) == {p \in Strings : Len(p) <= max}

LEMMA FixedWidthIs ==
    ASSUME NEW t \in Strings, NEW max \in Nat \ {0}
    PROVE  FixedWidth(t, max) \in Seq(Fits(max)) /\ Letters(t) \subseteq LettersIn(FixedWidth(t, max))
<1>1. PICK n \in Nat : n = Len(t) /\ DOMAIN t = 1 .. n
      BY SeqIs DEF Strings
<1>2. PICK q : q = (n + max - 1) \div max
      OBVIOUS
<1>3. q \in Nat
      BY <1>2, BlocksAre
<1> DEFINE start(i) == (i - 1) * max + 1
           end(i) == Min({i * max, n})
           part(i) == Strip(SubSeq(t, start(i), end(i)))
           w == [i \in 1 .. q |-> part(i)]
<1>4. FixedWidth(t, max) = w
      BY <1>1, <1>2 DEF FixedWidth
<1>5. ASSUME NEW i \in 1 .. q
      PROVE  /\ part(i) \in Fits(max)
             /\ \A p \in start(i) .. n : p <= i * max /\ t[p] \in Ink => t[p] \in Letters(part(i))
      <2>1. PICK a : a = start(i)
            OBVIOUS
      <2>2. PICK b : b = end(i)
            OBVIOUS
      <2>3. i \in Nat /\ i >= 1
            BY <1>3
      <2>4. a <= n
            BY <1>2, <2>1, BlocksAre
      <2>5. /\ a \in Nat \ {0} /\ b \in Nat /\ b <= n /\ a <= b /\ b - a + 1 <= max
            /\ \A p \in a .. n : p <= i * max => p \in a .. b
            <3>1. Block(i, a, b, n, max)
                  BY <2>1, <2>2, <2>4 DEF Block
            <3> HIDE DEF start, end, part, w
            <3>2. a \in Nat \ {0} /\ b \in Nat /\ b <= n /\ a <= b /\ b - a + 1 <= max
                  BY <2>3, <3>1, BlockEnds
            <3>3. \A p \in a .. n : p <= i * max => p \in a .. b
                  BY <2>3, <3>1, BlockEnds
            <3> QED BY <3>2, <3>3
      <2>6. PICK u : u = SubSeq(t, a, b)
            OBVIOUS
      <2>7. u \in Strings /\ Len(u) = b - a + 1 /\ \A p \in a .. b : t[p] \in Ink => t[p] \in Letters(u)
            BY <1>1, <2>5, <2>6, PartIs
      <2>8. part(i) = Strip(u)
            BY <2>1, <2>2, <2>6
      <2> HIDE DEF part
      <2>9. PICK v : v = Strip(u)
            OBVIOUS
      <2>10. v \in Strings /\ Len(v) <= Len(u) /\ Letters(u) \subseteq Letters(v) /\ Len(v) \in Nat
             BY <2>7, <2>9, StripIs, SeqIs DEF Strings
      <2>11. v \in Fits(max)
             BY <2>5, <2>7, <2>10 DEF Fits
      <2> QED BY <2>1, <2>5, <2>7, <2>8, <2>9, <2>10, <2>11
<1> HIDE DEF part, start
<1>6. \A i \in 1 .. q : w[i] = part(i)
      OBVIOUS
<1>7. w \in Seq(Fits(max)) /\ DOMAIN w = 1 .. q
      BY <1>3, <1>5
<1> HIDE DEF w
<1>8. \A p \in DOMAIN t : t[p] \in Ink => t[p] \in LettersIn(w)
      <2> SUFFICES ASSUME NEW p \in 1 .. n, t[p] \in Ink PROVE t[p] \in LettersIn(w)
          BY <1>1
      <2>1. PICK i \in 1 .. q : start(i) <= p /\ p <= i * max
            BY <1>2, BlocksAre DEF start
      <2>2. start(i) \in Int
            BY <1>3 DEF start
      <2>3. p \in start(i) .. n
            BY <2>1, <2>2
      <2>4. t[p] \in Letters(w[i])
            BY <1>5, <1>6, <2>1, <2>3
      <2> QED BY <1>7, <2>4, InIs
<1> QED BY <1>4, <1>7, <1>8, LetterIs


-----------------------------------------------------------------------------
(* Cutting at a separator.                                                  *)

LEMMA FitsAre ==
    ASSUME NEW max \in Nat
    PROVE  /\ Fits(max) \in SUBSET Strings
           /\ \A s \in Seq(Fits(max)) : s \in Seq(Strings)
           /\ <<>> \in Fits(max) /\ <<>> \in Seq(Fits(max))
           /\ LettersIn(<<>>) = {} /\ Letters(<<>>) = {}
<1>1. Fits(max) \in SUBSET Strings
      BY DEF Fits
<1>2. \A s \in Seq(Fits(max)) : s \in Seq(Strings)
      BY <1>1
<1>3. <<>> \in Fits(max) /\ <<>> \in Seq(Fits(max))
      BY EmptySeq DEF Fits, Strings
<1>4. DOMAIN <<>> = {}
      OBVIOUS
<1>5. LettersIn(<<>>) = {} /\ Letters(<<>>) = {}
      BY <1>4, InIs, LetterIs
<1> QED BY <1>1, <1>2, <1>3, <1>5

LEMMA StripFits ==
    ASSUME NEW max \in Nat, NEW p \in Fits(max)
    PROVE  Strip(p) \in Fits(max) /\ Letters(p) \subseteq Letters(Strip(p))
<1>1. PICK q : q = Strip(p)
      OBVIOUS
<1>2. p \in Strings /\ Len(p) <= max /\ Len(p) \in Nat
      BY SeqIs DEF Fits, Strings
<1>3. q \in Strings /\ Len(q) <= Len(p) /\ Letters(p) \subseteq Letters(q) /\ Len(q) \in Nat
      BY <1>1, <1>2, StripIs, SeqIs DEF Strings
<1> QED BY <1>1, <1>2, <1>3 DEF Fits

(* f cuts a text into parts that fit and loses no letter of it. *)
Cuts(f, max) ==
    \A t \in Strings : f[t] \in Seq(Fits(max)) /\ Letters(t) \subseteq LettersIn(f[t])

LEMMA CutAtIs ==
    ASSUME NEW sep \in Strings, Letters(sep) = {}, NEW max \in Nat \ {0}, NEW deeper, Cuts(deeper, max)
    PROVE  Cuts(CutAt(sep, deeper, max), max)
<1> DEFINE States == [parts : Seq(Fits(max)), cur : Fits(max)]
           closed == [state \in [parts : Seq(Strings), cur : Strings] |->
                         IF state.cur = <<>> THEN state.parts ELSE Append(state.parts, Strip(state.cur))]
           step == [state \in [parts : Seq(Strings), cur : Strings] |-> [segment \in Strings |->
                       LET joined == state.cur \o segment
                       IN  IF Len(joined) <= max THEN [state EXCEPT !.cur = joined]
                           ELSE IF Len(segment) <= max THEN [parts |-> closed[state], cur |-> segment]
                           ELSE [parts |-> closed[state] \o deeper[segment], cur |-> <<>>]]]
           base == [parts |-> <<>>, cur |-> <<>>]
           holds == [state \in States |-> LettersIn(state.parts) \cup Letters(state.cur)]
           adds == [segment \in Strings |-> Letters(segment)]
           Grows(state, segment) ==
               /\ step[state][segment] \in States
               /\ holds[state] \cup adds[segment] \subseteq holds[step[state][segment]]
           end(text) == Fold(step, base, Segments(text, sep))
           cut == [text \in Strings |->
                      IF Len(text) <= max THEN <<text>>
                      ELSE IF Len(Split(text, sep)) = 1 THEN deeper[text]
                      ELSE closed[end(text)]]
<1>1. CutAt(sep, deeper, max) = [t \in Strings |-> cut[Strip(t)]]
      BY DEF CutAt
<1>2. /\ Fits(max) \in SUBSET Strings /\ max \in Nat
      /\ <<>> \in Fits(max) /\ <<>> \in Seq(Fits(max))
      /\ LettersIn(<<>>) = {} /\ Letters(<<>>) = {}
      BY FitsAre
<1>3. States \in SUBSET [parts : Seq(Strings), cur : Strings]
      BY FitsAre
<1>4. ASSUME NEW state \in States
       PROVE  /\ closed[state] \in Seq(Fits(max))
              /\ LettersIn(state.parts) \cup Letters(state.cur) \subseteq LettersIn(closed[state])
       <2>1. PICK done \in Seq(Fits(max)) : done = state.parts
             OBVIOUS
       <2>2. PICK cur \in Fits(max) : cur = state.cur
             OBVIOUS
       <2>3. closed[state] = IF cur = <<>> THEN done ELSE Append(done, Strip(cur))
             BY <1>3, <2>1, <2>2
       <2> HIDE DEF closed, States
       <2>4. CASE cur = <<>>
             BY <1>2, <2>1, <2>2, <2>3, <2>4
       <2>5. CASE cur # <<>>
             <3>1. PICK p \in Fits(max) : p = Strip(cur) /\ Letters(cur) \subseteq Letters(p)
                   BY <1>2, StripFits
             <3>2. PICK r : r = Append(done, p)
                   OBVIOUS
             <3>3. r \in Seq(Fits(max)) /\ LettersIn(done) \cup Letters(p) \subseteq LettersIn(r)
                   BY <1>2, <3>2, AppendedLetters
             <3>4. closed[state] = r
                   BY <2>3, <2>5, <3>1, <3>2
             <3> QED BY <2>1, <2>2, <3>1, <3>3, <3>4
       <2> QED BY <2>4, <2>5
<1>5. ASSUME NEW state \in States, NEW segment \in Strings PROVE Grows(state, segment)
      <2>1. state \in [parts : Seq(Strings), cur : Strings]
            BY <1>3
      <2>2. PICK done \in Seq(Fits(max)) : done = state.parts
            OBVIOUS
      <2>3. PICK cur \in Fits(max) : cur = state.cur
            OBVIOUS
      <2>4. state = [parts |-> done, cur |-> cur]
            BY <2>2, <2>3
      <2>5. PICK joined : joined = cur \o segment
            OBVIOUS
      <2>6. joined \in Strings /\ Letters(cur) \cup Letters(segment) \subseteq Letters(joined)
            BY <1>2, <2>5, ConcatLetters
      <2>7. PICK parts : parts = closed[state]
            OBVIOUS
      <2>8. parts \in Seq(Fits(max)) /\ LettersIn(done) \cup Letters(cur) \subseteq LettersIn(parts)
            <3> HIDE DEF closed, States
            <3> QED BY <1>4, <2>2, <2>3, <2>7
      <2>9. PICK c \in Strings : c = segment
            OBVIOUS
      <2>10. step[state][segment] =
                 IF Len(joined) <= max THEN [parts |-> done, cur |-> joined]
                 ELSE IF Len(segment) <= max THEN [parts |-> parts, cur |-> segment]
                 ELSE [parts |-> parts \o deeper[segment], cur |-> <<>>]
             <3>1. step[state][segment] =
                       IF Len(cur \o segment) <= max THEN [state EXCEPT !.cur = cur \o segment]
                       ELSE IF Len(segment) <= max
                       THEN [parts |-> closed[state], cur |-> segment]
                       ELSE [parts |-> closed[state] \o deeper[segment], cur |-> <<>>]
                   <4> HIDE DEF closed
                   <4> QED BY <2>1, <2>2, <2>3
             <3>2. [state EXCEPT !.cur = joined] = [parts |-> done, cur |-> joined]
                   BY <2>4
             <3> HIDE DEF step, States, closed
             <3> QED BY <2>5, <2>7, <3>1, <3>2
      <2>11. holds[state] = LettersIn(done) \cup Letters(cur)
             BY <2>2, <2>3
      <2>12. adds[segment] = Letters(segment)
             OBVIOUS
      <2>13. \A r \in Seq(Fits(max)), u \in Fits(max) :
                 /\ [parts |-> r, cur |-> u] \in States
                 /\ holds[[parts |-> r, cur |-> u]] = LettersIn(r) \cup Letters(u)
             OBVIOUS
      <2> HIDE DEF step, States, holds, adds
      <2>14. CASE Len(joined) <= max
             <3>1. joined \in Fits(max)
                   BY <2>6, <2>14 DEF Fits
             <3>2. step[state][segment] = [parts |-> done, cur |-> joined]
                   BY <2>10, <2>14
             <3> QED BY <2>6, <2>11, <2>12, <2>13, <3>1, <3>2
      <2>15. CASE ~ (Len(joined) <= max) /\ Len(segment) <= max
             <3>1. segment \in Fits(max)
                   BY <2>15 DEF Fits
             <3>2. step[state][segment] = [parts |-> parts, cur |-> segment]
                   BY <2>10, <2>15
             <3> QED BY <2>8, <2>11, <2>12, <2>13, <3>1, <3>2
      <2>16. CASE ~ (Len(joined) <= max) /\ ~ (Len(segment) <= max)
             <3>1. PICK d \in Seq(Fits(max)) : d = deeper[segment] /\ Letters(segment) \subseteq LettersIn(d)
                   BY DEF Cuts
             <3>2. PICK r : r = parts \o d
                   OBVIOUS
             <3>3. r \in Seq(Fits(max)) /\ LettersIn(parts) \cup LettersIn(d) \subseteq LettersIn(r)
                   BY <1>2, <2>8, <3>2, JoinedLetters
             <3>4. step[state][segment] = [parts |-> r, cur |-> <<>>]
                   BY <2>10, <2>16, <3>1, <3>2
             <3> QED BY <1>2, <2>8, <2>11, <2>12, <2>13, <3>1, <3>3, <3>4
      <2> QED BY <2>14, <2>15, <2>16
<1>6. base \in States /\ \A state \in States : holds[state] = LettersIn(state.parts) \cup Letters(state.cur)
      BY <1>2
<1>7. \A segment \in Strings : adds[segment] = Letters(segment)
      OBVIOUS
<1>8. \A state \in States : state.parts \in Seq(Fits(max)) /\ state.cur \in Fits(max)
      OBVIOUS
<1> HIDE DEF closed, step, base, holds, adds
<1>9. Closed(step, States, Strings)
      BY <1>5 DEF Closed
<1>10. \A a \in States, b \in Strings : holds[a] \cup adds[b] \subseteq holds[step[a][b]]
      BY <1>5
<1> HIDE DEF States
<1>11. ASSUME NEW text \in Strings
       PROVE  end(text) \in States /\ Letters(text) \subseteq LettersIn(end(text).parts) \cup Letters(end(text).cur)
       <2>1. PICK s \in Seq(Strings) : s = Segments(text, sep) /\ Letters(text) \subseteq LettersIn(s)
             BY SegmentsIs
       <2>2. PICK e : e = Fold(step, base, s)
             OBVIOUS
       <2>3. PICK g : g = adds
             OBVIOUS
       <2>4. PICK h : h = holds
             OBVIOUS
       <2>5. e \in States
             BY <1>6, <1>9, <1>10, <2>2, FoldHolds
       <2>6. \A i \in 1 .. Len(s) : g[s[i]] \subseteq h[e]
             BY <1>6, <1>9, <1>10, <2>2, <2>3, <2>4, FoldHolds
       <2>7. \A i \in DOMAIN s : i \in 1 .. Len(s) /\ s[i] \in Strings
             BY SeqIs
       <2>8. h[e] = LettersIn(e.parts) \cup Letters(e.cur)
             BY <1>6, <2>4, <2>5
       <2>9. \A i \in DOMAIN s : Letters(s[i]) \subseteq LettersIn(e.parts) \cup Letters(e.cur)
             BY <1>7, <2>3, <2>6, <2>7, <2>8
       <2>10. LettersIn(s) \subseteq LettersIn(e.parts) \cup Letters(e.cur)
              BY <2>9, InIs
       <2> QED BY <2>1, <2>2, <2>5, <2>10
<1> HIDE DEF end
<1>12. ASSUME NEW text \in Strings
       PROVE  cut[text] \in Seq(Fits(max)) /\ Letters(text) \subseteq LettersIn(cut[text])
       <2>1. CASE Len(text) <= max
             <3>1. text \in Fits(max) /\ cut[text] = <<text>>
                   BY <2>1 DEF Fits
             <3> HIDE DEF cut
             <3> QED BY <1>2, <3>1, OneIs
       <2>2. CASE ~ (Len(text) <= max) /\ Len(Split(text, sep)) = 1
             <3>1. cut[text] = deeper[text]
                   BY <2>2
             <3> HIDE DEF cut
             <3> QED BY <3>1 DEF Cuts
       <2>3. CASE ~ (Len(text) <= max) /\ Len(Split(text, sep)) # 1
             <3>1. cut[text] = closed[end(text)]
                   BY <2>3
             <3> HIDE DEF cut
             <3> QED BY <1>11, <1>4, <3>1
       <2> QED BY <2>1, <2>2, <2>3
<1> HIDE DEF cut
<1>13. ASSUME NEW t \in Strings
       PROVE  cut[Strip(t)] \in Seq(Fits(max)) /\ Letters(t) \subseteq LettersIn(cut[Strip(t)])
       <2>1. PICK u \in Strings : u = Strip(t) /\ Letters(t) \subseteq Letters(u)
             BY StripIs
       <2> QED BY <1>12, <2>1
<1> QED BY <1>1, <1>13 DEF Cuts

(* The equation that the cutters of all levels solve. *)
CuttersAre(c, w, max) ==
    c = [level \in 1 .. Len(Separators) + 1 |->
            IF level > Len(Separators) THEN w ELSE CutAt(Separators[level], c[level + 1], max)]

LEMMA SeparatorsAre ==
    /\ Len(Separators) = 4
    /\ \A level \in 1 .. 4 : Separators[level] \in Strings /\ Letters(Separators[level]) = {}
<1>1. Len(Separators) = 4
      BY DEF Separators
<1>2. ASSUME NEW c \in {-1, -2, -3}, NEW s, s = <<c>> PROVE s \in Strings /\ Letters(s) = {}
      <2>1. s \in Strings /\ DOMAIN s = {1} /\ s[1] = c
            BY <1>2 DEF Strings
      <2>2. c \notin Ink
            BY DEF Ink
      <2> QED BY <2>1, <2>2, LetterIs
<1>3. ASSUME NEW c \in {-1, -2, -3}, NEW d \in {-1, -2, -3}, NEW s, s = <<c, d>> PROVE s \in Strings /\ Letters(s) = {}
      <2>1. s \in Strings /\ DOMAIN s = {1, 2} /\ s[1] = c /\ s[2] = d
            BY <1>3 DEF Strings
      <2>2. c \notin Ink /\ d \notin Ink
            BY DEF Ink
      <2> QED BY <2>1, <2>2, LetterIs
<1>4. Separators[1] = <<-1, -1>> /\ Separators[2] = <<-1>> /\ Separators[3] = <<-3, -2>> /\ Separators[4] = <<-2>>
      BY DEF Separators, NewLine, Space, Dot
<1>5. Separators[1] \in Strings /\ Letters(Separators[1]) = {}
      BY <1>3, <1>4
<1>6. Separators[2] \in Strings /\ Letters(Separators[2]) = {}
      BY <1>2, <1>4
<1>7. Separators[3] \in Strings /\ Letters(Separators[3]) = {}
      BY <1>3, <1>4
<1>8. Separators[4] \in Strings /\ Letters(Separators[4]) = {}
      BY <1>2, <1>4
<1>9. \A level \in 1 .. 4 : level = 1 \/ level = 2 \/ level = 3 \/ level = 4
      OBVIOUS
<1> QED BY <1>1, <1>5, <1>6, <1>7, <1>8, <1>9

LEMMA CutIs ==
    ASSUME NEW t \in Strings, NEW max \in Nat \ {0}
    PROVE  Cut(t, max) \in Seq(Fits(max)) /\ Letters(t) \subseteq LettersIn(Cut(t, max))
<1> DEFINE wide(text) == IF Len(text) <= max THEN <<text>> ELSE FixedWidth(text, max)
           w == [u \in Strings |-> wide(Strip(u))]
<1>1. Cuts(w, max)
      <2>1. ASSUME NEW text \in Strings
            PROVE  wide(text) \in Seq(Fits(max)) /\ Letters(text) \subseteq LettersIn(wide(text))
            <3>1. CASE Len(text) <= max
                  <4>1. text \in Fits(max) /\ wide(text) = <<text>>
                        BY <3>1 DEF Fits
                  <4> HIDE DEF wide
                  <4> QED BY <4>1, FitsAre, OneIs
            <3>2. CASE ~ (Len(text) <= max)
                  <4>1. wide(text) = FixedWidth(text, max)
                        BY <3>2
                  <4> HIDE DEF wide
                  <4> QED BY <4>1, FixedWidthIs
            <3> QED BY <3>1, <3>2
      <2> HIDE DEF wide
      <2>2. ASSUME NEW u \in Strings
            PROVE  w[u] \in Seq(Fits(max)) /\ Letters(u) \subseteq LettersIn(w[u])
            <3>1. PICK text \in Strings : text = Strip(u) /\ Letters(u) \subseteq Letters(text)
                  BY StripIs
            <3>2. w[u] = wide(text)
                  BY <3>1
            <3> HIDE DEF w
            <3> QED BY <2>1, <3>1, <3>2
      <2> HIDE DEF w
      <2> QED BY <2>2 DEF Cuts
<1>2. Cutters(max) = CHOOSE c : CuttersAre(c, w, max)
      BY DEF Cutters, CuttersAre
<1> HIDE DEF w, wide
<1>3. \E c : CuttersAre(c, w, max)
      <2>1. PICK c4 : c4 = CutAt(Separators[4], w, max)
            OBVIOUS
      <2>2. PICK c3 : c3 = CutAt(Separators[3], c4, max)
            OBVIOUS
      <2>3. PICK c2 : c2 = CutAt(Separators[2], c3, max)
            OBVIOUS
      <2>4. PICK c1 : c1 = CutAt(Separators[1], c2, max)
            OBVIOUS
      <2> DEFINE c == [level \in 1 .. 5 |-> IF level = 1 THEN c1 ELSE IF level = 2 THEN c2
                                            ELSE IF level = 3 THEN c3 ELSE IF level = 4 THEN c4 ELSE w]
                 e(level) == IF level > 4 THEN w ELSE CutAt(Separators[level], c[level + 1], max)
      <2>5. c[1] = c1 /\ c[2] = c2 /\ c[3] = c3 /\ c[4] = c4 /\ c[5] = w
            OBVIOUS
      <2>6. c = [level \in 1 .. 5 |-> c[level]]
            OBVIOUS
      <2> HIDE DEF c
      <2>7. ASSUME NEW level \in 1 .. 5 PROVE c[level] = e(level)
            <3>1. CASE level = 1
                  <4>1. level + 1 = 2 /\ ~ (level > 4)
                        BY <3>1
                  <4> QED BY <2>4, <2>5, <3>1, <4>1
            <3>2. CASE level = 2
                  <4>1. level + 1 = 3 /\ ~ (level > 4)
                        BY <3>2
                  <4> QED BY <2>3, <2>5, <3>2, <4>1
            <3>3. CASE level = 3
                  <4>1. level + 1 = 4 /\ ~ (level > 4)
                        BY <3>3
                  <4> QED BY <2>2, <2>5, <3>3, <4>1
            <3>4. CASE level = 4
                  <4>1. level + 1 = 5 /\ ~ (level > 4)
                        BY <3>4
                  <4> QED BY <2>1, <2>5, <3>4, <4>1
            <3>5. CASE level = 5
                  BY <2>5, <3>5
            <3> QED BY <3>1, <3>2, <3>3, <3>4, <3>5
      <2>8. [level \in 1 .. 5 |-> c[level]] = [level \in 1 .. 5 |-> e(level)]
            <3> HIDE DEF e
            <3> QED BY <2>7
      <2>9. Len(Separators) = 4 /\ Len(Separators) + 1 = 5
            BY SeparatorsAre
      <2>10. CuttersAre(c, w, max)
             BY <2>6, <2>8, <2>9 DEF CuttersAre
      <2> QED BY <2>10
<1>4. PICK c : c = Cutters(max) /\ CuttersAre(c, w, max)
      BY <1>2, <1>3
<1>5. /\ c[5] = w
      /\ c[4] = CutAt(Separators[4], c[5], max) /\ c[3] = CutAt(Separators[3], c[4], max)
      /\ c[2] = CutAt(Separators[2], c[3], max) /\ c[1] = CutAt(Separators[1], c[2], max)
      <2>1. \A level \in 1 .. 5 : c[level] = IF level > 4 THEN w ELSE CutAt(Separators[level], c[level + 1], max)
            BY <1>4, SeparatorsAre DEF CuttersAre
      <2>2. 4 + 1 = 5 /\ 3 + 1 = 4 /\ 2 + 1 = 3 /\ 1 + 1 = 2
            OBVIOUS
      <2> QED BY <2>1, <2>2
<1>6. ASSUME NEW level \in 1 .. 4, NEW deeper, Cuts(deeper, max)
      PROVE  Cuts(CutAt(Separators[level], deeper, max), max)
      <2>1. PICK sep \in Strings : sep = Separators[level] /\ Letters(sep) = {}
            BY SeparatorsAre
      <2>2. Cuts(CutAt(sep, deeper, max), max)
            BY <1>6, <2>1, CutAtIs
      <2> QED BY <2>1, <2>2
<1>7. 1 \in 1 .. 4 /\ 2 \in 1 .. 4 /\ 3 \in 1 .. 4 /\ 4 \in 1 .. 4
      OBVIOUS
<1>8. Cuts(c[4], max)
      BY <1>1, <1>5, <1>6, <1>7
<1>9. Cuts(c[3], max)
      BY <1>5, <1>6, <1>7, <1>8
<1>10. Cuts(c[2], max)
       BY <1>5, <1>6, <1>7, <1>9
<1>11. Cuts(c[1], max)
       BY <1>5, <1>6, <1>7, <1>10
<1> QED BY <1>4, <1>11 DEF Cut, Cuts


-----------------------------------------------------------------------------
(* Overlaps.                                                                *)

LEMMA WithPrefixIs ==
    ASSUME NEW p \in Strings, NEW t \in Strings
    PROVE  /\ WithPrefix(p, t) \in Strings /\ Len(WithPrefix(p, t)) = Len(p) + 2 + Len(t)
           /\ Letters(t) \subseteq Letters(WithPrefix(p, t))
<1>1. PICK gap : gap = <<NewLine, NewLine>>
      OBVIOUS
<1>2. gap \in Strings /\ Len(gap) = 2
      BY <1>1 DEF Strings, NewLine
<1>3. PICK u : u = p \o gap
      OBVIOUS
<1>4. u \in Strings /\ Len(u) = Len(p) + 2
      <2>1. p \in Seq(Int) /\ gap \in Seq(Int)
            BY <1>2 DEF Strings
      <2>2. u \in Seq(Int)
            BY <1>3, <2>1, ConcatIs
      <2>3. Len(u) = Len(p) + Len(gap)
            BY <1>3, <2>1, ConcatIs
      <2> QED BY <1>2, <2>2, <2>3 DEF Strings
<1>5. PICK v : v = u \o t
      OBVIOUS
<1>6. v \in Strings /\ Len(v) = Len(u) + Len(t)
      BY <1>4, <1>5, ConcatProperties DEF Strings
<1>7. Letters(t) \subseteq Letters(v)
      BY <1>4, <1>5, ConcatLetters
<1>8. WithPrefix(p, t) = v
      BY <1>1, <1>3, <1>5 DEF WithPrefix
<1> QED BY <1>4, <1>6, <1>7, <1>8

(* The end of a text that is repeated is no longer than the room there is. *)
LEMMA LapIs ==
    ASSUME NEW tail \in Strings, NEW size \in Nat,
           NEW lap, lap = Strip(SubSeq(tail, Max({Len(tail) - size, 0}) + 1, Len(tail)))
    PROVE  lap \in Strings /\ Len(lap) <= size
<1>1. PICK n \in Nat : n = Len(tail)
      BY SeqIs DEF Strings
<1>2. PICK d \in Int : d = n - size
      OBVIOUS
<1>3. PICK m : m = Max({d, 0})
      OBVIOUS
<1>4. m = IF d >= 0 THEN d ELSE 0
      BY <1>3, PairMax
<1>5. PICK a \in Nat \ {0} : a = m + 1
      BY <1>4
<1>6. PICK u : u = SubSeq(tail, a, n)
      OBVIOUS
<1>7. u \in Strings /\ Len(u) = IF a <= n THEN n - a + 1 ELSE 0
      <2>1. n <= Len(tail)
            BY <1>1
      <2>2. u \in Strings
            BY <1>1, <1>5, <1>6, <2>1, PartIs
      <2>3. Len(u) = IF a <= n THEN n - a + 1 ELSE 0
            BY <1>1, <1>5, <1>6, <2>1, PartIs
      <2> QED BY <2>2, <2>3
<1>8. lap = Strip(u)
      BY <1>1, <1>2, <1>3, <1>5, <1>6
<1>9. lap \in Strings /\ Len(lap) <= Len(u) /\ Len(lap) \in Nat
      BY <1>7, <1>8, StripIs, SeqIs DEF Strings
<1>10. Len(u) <= size
       BY <1>1, <1>2, <1>4, <1>5, <1>7
<1>11. Len(u) \in Nat
       BY <1>7, SeqIs DEF Strings
<1> QED BY <1>9, <1>10, <1>11

LEMMA OverlappedIs ==
    ASSUME NEW max \in Nat \ {0}, NEW parts \in Seq(Fits(max))
    PROVE  /\ Overlapped(max)[parts] \in Seq(Fits(max))
           /\ LettersIn(parts) \subseteq LettersIn(Overlapped(max)[parts])
<1>1. /\ Fits(max) \in SUBSET Strings /\ max \in Nat
      /\ \A s \in Seq(Fits(max)) : s \in Seq(Strings)
      BY FitsAre
<1>2. CASE Len(parts) < 2 \/ Overlap = 0
      BY <1>1, <1>2 DEF Overlapped
<1>3. CASE ~ (Len(parts) < 2 \/ Overlap = 0)
      <2> DEFINE A == Seq(Fits(max)) \ {<<>>}
                 step == [done \in Seq(Strings) |-> [part \in Strings |->
                             LET size == Min({Overlap, Max({max - Len(Strip(part)) - 2, 0})})
                                 tail == Last(done)
                                 lap == Strip(SubSeq(tail, Max({Len(tail) - size, 0}) + 1, Len(tail)))
                             IN  Append(done, IF lap = <<>> THEN Strip(part)
                                              ELSE Strip(WithPrefix(lap, Strip(part))))]]
                 holds == [done \in A |-> LettersIn(done)]
                 adds == [part \in Fits(max) |-> Letters(part)]
      <2>1. PICK n \in Nat : n = Len(parts) /\ n >= 2 /\ DOMAIN parts = 1 .. n
            BY <1>3, SeqIs
      <2>2. parts # <<>>
            BY <2>1, EmptySeq
      <2>3. PICK head \in Fits(max) : head = Head(parts) /\ head = parts[1]
            BY <2>1, <2>2
      <2>4. PICK rest \in Seq(Fits(max)) : rest = Tail(parts)
            BY <2>2, HeadTailProperties
      <2>5. Len(rest) = n - 1 /\ \A i \in 1 .. n - 1 : rest[i] = parts[i + 1]
            BY <2>1, <2>2, <2>4
      <2>6. PICK first \in Fits(max) : first = Strip(head) /\ Letters(head) \subseteq Letters(first)
            BY StripFits
      <2>7. PICK base : base = <<first>>
            OBVIOUS
      <2>8. base \in A /\ LettersIn(base) = Letters(first)
            BY <1>1, <2>7, OneIs
      <2>9. Overlapped(max)[parts] = Fold(step, base, rest)
            BY <1>1, <1>3, <2>3, <2>4, <2>6, <2>7 DEF Overlapped
      <2>10. ASSUME NEW done \in A, NEW part \in Fits(max)
             PROVE  step[done][part] \in A /\ holds[done] \cup adds[part] \subseteq holds[step[done][part]]
             <3>1. done \in Seq(Fits(max)) /\ done # <<>> /\ done \in Seq(Strings) /\ part \in Strings
                   BY <1>1
             <3>2. PICK tail \in Strings : tail = Last(done)
                   BY <1>1, <3>1, FrontLastIs
             <3>3. PICK p \in Fits(max) : p = Strip(part) /\ Letters(part) \subseteq Letters(p)
                   BY <1>1, StripFits
             <3>4. p \in Strings /\ Len(p) \in Nat /\ Len(p) <= max
                   BY SeqIs DEF Fits, Strings
             <3>5. PICK room : room = Max({max - Len(p) - 2, 0})
                   OBVIOUS
             <3>6. room = IF max - Len(p) - 2 >= 0 THEN max - Len(p) - 2 ELSE 0
                   <4>0. PICK l \in Nat : l = Len(p)
                         BY <3>4
                   <4>3. max - l - 2 \in Int
                         OBVIOUS
                   <4>1. PICK d \in Int : d = max - Len(p) - 2
                         BY <4>0, <4>3
                   <4>2. room = IF d >= 0 THEN d ELSE 0
                         BY <3>5, <4>1, PairMax
                   <4> QED BY <4>1, <4>2
             <3>7. room \in Nat
                   BY <3>4, <3>6
             <3>8. PICK size : size = Min({Overlap, room})
                   OBVIOUS
             <3>9. size = IF Overlap <= room THEN Overlap ELSE room
                   <4>1. Overlap \in Int
                         BY SizesAssumption
                   <4> QED BY <3>7, <3>8, <4>1, PairMin
             <3>10. size \in Nat /\ size <= room
                    BY <3>7, <3>9, SizesAssumption
             <3>11. PICK lap : lap = Strip(SubSeq(tail, Max({Len(tail) - size, 0}) + 1, Len(tail)))
                    OBVIOUS
             <3>12. lap \in Strings /\ Len(lap) <= size
                    BY <3>10, <3>11, LapIs
             <3>13. PICK r : r = IF lap = <<>> THEN p ELSE Strip(WithPrefix(lap, p))
                    OBVIOUS
             <3>14. r \in Fits(max) /\ Letters(p) \subseteq Letters(r)
                    <4>1. CASE lap = <<>>
                          BY <3>13, <4>1
                    <4>2. CASE lap # <<>>
                          <5>1. Len(lap) \in Nat /\ Len(lap) # 0
                                BY <3>12, <4>2, EmptySeq DEF Strings
                          <5>2. PICK u : u = WithPrefix(lap, p)
                                OBVIOUS
                          <5>3. u \in Strings /\ Len(u) = Len(lap) + 2 + Len(p) /\ Letters(p) \subseteq Letters(u)
                                BY <3>4, <3>12, <5>2, WithPrefixIs
                          <5>4. Len(u) <= max
                                BY <3>4, <3>6, <3>10, <3>12, <5>1, <5>3
                          <5>5. u \in Fits(max)
                                BY <5>3, <5>4 DEF Fits
                          <5>6. r = Strip(u)
                                BY <3>13, <4>2, <5>2
                          <5> QED BY <1>1, <5>3, <5>5, <5>6, StripFits
                    <4> QED BY <4>1, <4>2
             <3>15. PICK s : s = Append(done, r)
                    OBVIOUS
             <3>16. s \in Seq(Fits(max)) /\ s # <<>> /\ LettersIn(done) \cup Letters(r) \subseteq LettersIn(s)
                    BY <1>1, <3>1, <3>14, <3>15, AppendedLetters
             <3>17. step[done][part] = s
                    <4>1. step[done][part] =
                              LET z == Min({Overlap, Max({max - Len(Strip(part)) - 2, 0})})
                                  x == Last(done)
                                  y == Strip(SubSeq(x, Max({Len(x) - z, 0}) + 1, Len(x)))
                              IN  Append(done, IF y = <<>> THEN Strip(part)
                                               ELSE Strip(WithPrefix(y, Strip(part))))
                          BY <3>1
                    <4> HIDE DEF step, A, holds, adds
                    <4> QED BY <3>2, <3>3, <3>5, <3>8, <3>11, <3>13, <3>15, <4>1
             <3> HIDE DEF step
             <3>18. s \in A
                    BY <3>16
             <3>19. holds[s] = LettersIn(s) /\ holds[done] = LettersIn(done) /\ adds[part] = Letters(part)
                    BY <3>18
             <3> HIDE DEF holds, adds, A
             <3> QED BY <3>3, <3>14, <3>16, <3>17, <3>18, <3>19
      <2>11. \A done \in A : holds[done] = LettersIn(done)
             OBVIOUS
      <2>12. \A part \in Fits(max) : adds[part] = Letters(part)
             OBVIOUS
      <2>13. A \in SUBSET Seq(Fits(max))
             OBVIOUS
      <2> HIDE DEF step, holds, adds, A
      <2>14. Closed(step, A, Fits(max))
             BY <2>10 DEF Closed
      <2>15. \A a \in A, b \in Fits(max) : holds[a] \cup adds[b] \subseteq holds[step[a][b]]
             BY <2>10
      <2>16. PICK e : e = Fold(step, base, rest)
             OBVIOUS
      <2>17. PICK g : g = adds
             OBVIOUS
      <2>18. PICK h : h = holds
             OBVIOUS
      <2>19. e \in A
             BY <2>8, <2>14, <2>15, <2>16, FoldHolds
      <2>20. h[base] \subseteq h[e]
             BY <2>8, <2>14, <2>15, <2>16, <2>18, FoldHolds
      <2>21. \A i \in 1 .. Len(rest) : g[rest[i]] \subseteq h[e]
             BY <2>8, <2>14, <2>15, <2>16, <2>17, <2>18, FoldHolds
      <2>22. h[e] = LettersIn(e) /\ h[base] = Letters(first)
             BY <2>8, <2>11, <2>18, <2>19
      <2>23. \A i \in 1 .. n - 1 : rest[i] \in Fits(max)
             BY <2>5, SeqIs
      <2>24. \A i \in 1 .. n - 1 : Letters(rest[i]) \subseteq LettersIn(e)
             BY <2>5, <2>12, <2>17, <2>21, <2>22, <2>23
      <2>25. ASSUME NEW i \in 1 .. n PROVE Letters(parts[i]) \subseteq LettersIn(e)
             <3>1. CASE i = 1
                   BY <2>3, <2>6, <2>20, <2>22, <3>1
             <3>2. CASE i # 1
                   <4>1. PICK j \in 1 .. n - 1 : j + 1 = i
                         <5>1. i - 1 \in 1 .. n - 1 /\ (i - 1) + 1 = i
                               BY <2>1, <3>2
                         <5> QED BY <5>1
                   <4>2. rest[j] = parts[i]
                         BY <2>5, <4>1
                   <4> QED BY <2>24, <4>2
             <3> QED BY <3>1, <3>2
      <2>26. LettersIn(parts) \subseteq LettersIn(e)
             BY <2>1, <2>25, InIs
      <2> QED BY <2>9, <2>13, <2>16, <2>19, <2>26
<1> QED BY <1>2, <1>3


-----------------------------------------------------------------------------
(* The chunks of a record.                                                  *)

LEMMA SplitTextIs ==
    ASSUME NEW t \in Strings, NEW max \in Nat \ {0}
    PROVE  SplitText(t, max) \in Seq(Fits(max)) /\ Letters(t) \subseteq LettersIn(SplitText(t, max))
<1>1. CASE Len(t) <= max
      <2>1. t \in Fits(max) /\ SplitText(t, max) = <<t>>
            BY <1>1 DEF SplitText, Fits
      <2> QED BY <2>1, FitsAre, OneIs
<1>2. CASE ~ (Len(t) <= max)
      <2>1. PICK cuts \in Seq(Fits(max)) : cuts = Cut(t, max) /\ Letters(t) \subseteq LettersIn(cuts)
            BY CutIs
      <2>2. PICK wide \in Seq(Fits(max)) : wide = FixedWidth(t, max) /\ Letters(t) \subseteq LettersIn(wide)
            BY FixedWidthIs
      <2>3. PICK parts \in Seq(Fits(max)) :
                parts = (IF cuts = <<>> THEN wide ELSE cuts) /\ Letters(t) \subseteq LettersIn(parts)
            BY <2>1, <2>2
      <2>4. SplitText(t, max) = Overlapped(max)[parts]
            BY <1>2, <2>1, <2>2, <2>3 DEF SplitText
      <2>5. Overlapped(max)[parts] \in Seq(Fits(max)) /\ LettersIn(parts) \subseteq LettersIn(Overlapped(max)[parts])
            BY OverlappedIs
      <2> QED BY <2>3, <2>4, <2>5
<1> QED BY <1>1, <1>2

LEMMA PrefixedIs ==
    ASSUME NEW prefix \in Strings, NEW t \in Strings
    PROVE  /\ Prefixed(prefix, t) \in Seq(Fits(MaxChars))
           /\ Letters(t) \subseteq LettersIn(Prefixed(prefix, t))
<1>1. PICK whole : whole = Whole(prefix, t)
      OBVIOUS
<1>2. whole \in Strings /\ Letters(t) \subseteq Letters(whole)
      <2>1. CASE t = <<>>
            BY <1>1, <2>1, FitsAre DEF Whole
      <2>2. CASE t # <<>>
            BY <1>1, <2>2, WithPrefixIs DEF Whole
      <2> QED BY <2>1, <2>2
<1>3. PICK available : available = MaxChars - Len(prefix) - 2
      OBVIOUS
<1>4. MaxChars \in Nat \ {0} /\ MaxChars \in Nat
      BY SizesAssumption
<1>5. CASE Len(whole) <= MaxChars
      <2>1. whole \in Fits(MaxChars) /\ Prefixed(prefix, t) = <<whole>>
            BY <1>1, <1>2, <1>5 DEF Fits, Prefixed
      <2> QED BY <1>2, <1>4, <2>1, FitsAre, OneIs
<1>6. CASE ~ (Len(whole) <= MaxChars) /\ (t = <<>> \/ available <= 0)
      <2>1. Prefixed(prefix, t) = SplitText(whole, MaxChars)
            BY <1>1, <1>3, <1>6 DEF Prefixed
      <2>2. PICK r : r = SplitText(whole, MaxChars)
            OBVIOUS
      <2>3. r \in Seq(Fits(MaxChars)) /\ Letters(whole) \subseteq LettersIn(r)
            BY <1>2, <1>4, <2>2, SplitTextIs
      <2> QED BY <1>2, <2>1, <2>2, <2>3
<1>7. CASE ~ (Len(whole) <= MaxChars) /\ ~ (t = <<>> \/ available <= 0)
      <2>0. Len(prefix) \in Nat
            BY SeqIs DEF Strings
      <2>1. available \in Nat \ {0} /\ available \in Nat
            BY <1>3, <1>4, <1>7, <2>0
      <2>2. PICK parts : parts = SplitText(t, available)
            OBVIOUS
      <2>3. parts \in Seq(Fits(available)) /\ Letters(t) \subseteq LettersIn(parts)
            BY <2>1, <2>2, SplitTextIs
      <2>4. PICK n \in Nat : DOMAIN parts = 1 .. n
            BY <2>3, SeqIs
      <2>5. ASSUME NEW i \in 1 .. n
            PROVE  /\ WithPrefix(prefix, parts[i]) \in Fits(MaxChars)
                   /\ Letters(parts[i]) \subseteq Letters(WithPrefix(prefix, parts[i]))
            <3>1. PICK p \in Fits(available) : p = parts[i]
                  BY <2>3, <2>4, SeqIs
            <3>2. p \in Strings /\ Len(p) \in Nat /\ Len(p) <= available
                  BY SeqIs DEF Fits, Strings
            <3>3. PICK u : u = WithPrefix(prefix, p)
                  OBVIOUS
            <3>4. u \in Strings /\ Len(u) = Len(prefix) + 2 + Len(p) /\ Letters(p) \subseteq Letters(u)
                  BY <3>2, <3>3, WithPrefixIs
            <3>5. Len(u) <= MaxChars
                  BY <1>3, <1>4, <2>0, <3>2, <3>4
            <3> QED BY <3>1, <3>3, <3>4, <3>5 DEF Fits
      <2>6. PICK r : r = [i \in 1 .. n |-> WithPrefix(prefix, parts[i])]
            OBVIOUS
      <2>7. Prefixed(prefix, t) = r
            BY <1>1, <1>3, <1>7, <2>2, <2>4, <2>6 DEF Prefixed
      <2>8. r \in Seq(Fits(MaxChars)) /\ DOMAIN r = 1 .. n /\ \A i \in 1 .. n : r[i] = WithPrefix(prefix, parts[i])
            BY <2>5, <2>6
      <2>9. \A i \in 1 .. n : Letters(parts[i]) \subseteq Letters(r[i])
            BY <2>5, <2>8
      <2>10. LettersIn(parts) \subseteq LettersIn(r)
             BY <2>4, <2>8, <2>9, InIs
      <2> QED BY <2>3, <2>7, <2>8, <2>10
<1> QED BY <1>5, <1>6, <1>7

LEMMA ChunkTextsIs ==
    ASSUME NEW doc \in Document
    PROVE  /\ ChunkTexts(doc) \in Seq(Fits(MaxChars))
           /\ LettersOf(doc) \subseteq LettersIn(ChunkTexts(doc))
<1>1. /\ doc.prefix \in Seq({0}) /\ doc.content \in Strings
      /\ doc.sections \in Seq([label : Seq({0}), text : Strings])
      BY DEF Document
<1>2. \A s \in Seq({0}) : s \in Strings
      BY DEF Strings
<1>3. CASE doc.sections = <<>>
      <2>1. ChunkTexts(doc) = Prefixed(doc.prefix, doc.content) /\ LettersOf(doc) = Letters(doc.content)
            BY <1>3 DEF ChunkTexts, LettersOf
      <2>2. PICK prefix \in Strings : prefix = doc.prefix
            BY <1>1, <1>2
      <2>3. PICK t \in Strings : t = doc.content
            BY <1>1
      <2>4. Prefixed(prefix, t) \in Seq(Fits(MaxChars)) /\ Letters(t) \subseteq LettersIn(Prefixed(prefix, t))
            BY PrefixedIs
      <2> QED BY <2>1, <2>2, <2>3, <2>4
<1>4. CASE doc.sections # <<>>
      <2>1. PICK sections : sections = doc.sections
            OBVIOUS
      <2>2. PICK n \in Nat : DOMAIN sections = 1 .. n
            BY <1>1, <2>1, SeqIs
      <2>3. \A i \in 1 .. n : sections[i] \in [label : Seq({0}), text : Strings]
            BY <1>1, <2>1, <2>2, SeqIs
      <2> DEFINE texts(i) == Prefixed(doc.prefix \o sections[i].label, sections[i].text)
                 all == [i \in 1 .. n |-> texts(i)]
      <2>4. ASSUME NEW i \in 1 .. n
            PROVE  texts(i) \in Seq(Fits(MaxChars)) /\ Letters(sections[i].text) \subseteq LettersIn(texts(i))
            <3>1. PICK label \in Strings : label = sections[i].label
                  BY <1>2, <2>3
            <3>2. PICK t \in Strings : t = sections[i].text
                  BY <2>3
            <3>3. PICK prefix \in Strings : prefix = doc.prefix
                  BY <1>1, <1>2
            <3>4. PICK p \in Strings : p = prefix \o label
                  BY ConcatLetters
            <3>5. texts(i) = Prefixed(p, t)
                  BY <3>1, <3>2, <3>3, <3>4
            <3> HIDE DEF texts
            <3>6. Prefixed(p, t) \in Seq(Fits(MaxChars)) /\ Letters(t) \subseteq LettersIn(Prefixed(p, t))
                  BY PrefixedIs
            <3> QED BY <3>2, <3>5, <3>6
      <2>5. ChunkTexts(doc) = FlattenSeq(all)
            BY <1>4, <2>1, <2>2 DEF ChunkTexts
      <2>6. \A x : x \in LettersOf(doc) => \E i \in 1 .. n : x \in Letters(sections[i].text)
            BY <1>4, <2>1, <2>2 DEF LettersOf
      <2> HIDE DEF texts
      <2>13. all \in Seq(Seq(Fits(MaxChars)))
             BY <2>4
      <2>14. DOMAIN all = 1 .. n /\ \A i \in 1 .. n : all[i] = texts(i)
             OBVIOUS
      <2> HIDE DEF all
      <2>7. PICK ss \in Seq(Seq(Fits(MaxChars))) : ss = all /\ DOMAIN ss = 1 .. n /\ \A i \in 1 .. n : ss[i] = texts(i)
            BY <2>13, <2>14
      <2>8. FlattenSeq(ss) \in Seq(Fits(MaxChars))
            BY FlattenIs
      <2>9. \A i \in DOMAIN ss : \A j \in DOMAIN ss[i] : \E p \in DOMAIN FlattenSeq(ss) : FlattenSeq(ss)[p] = ss[i][j]
            BY FlattenIs
      <2>10. PICK flat : flat = FlattenSeq(ss)
             OBVIOUS
      <2>11. \A i \in 1 .. n : LettersIn(ss[i]) \subseteq LettersIn(flat)
             BY <2>7, <2>9, <2>10, InIs
      <2>12. \A x \in LettersOf(doc) : x \in LettersIn(flat)
             BY <2>4, <2>6, <2>7, <2>11
      <2> QED BY <2>5, <2>7, <2>8, <2>10, <2>12
<1> QED BY <1>3, <1>4


-----------------------------------------------------------------------------
(* Batches.                                                                 *)

LEMMA CutOutIs ==
    ASSUME NEW B, NEW t \in Seq(B), NEW m \in Nat \ {0}, NEW n \in Nat, n <= Len(t),
           NEW u, u = SubSeq(t, m, n)
    PROVE  /\ u \in Seq(B) /\ Len(u) = IF m <= n THEN n - m + 1 ELSE 0
           /\ \A j \in DOMAIN u : m + j - 1 \in DOMAIN t /\ u[j] = t[m + j - 1]
<1>1. Len(t) \in Nat /\ DOMAIN t = 1 .. Len(t) /\ \A i \in DOMAIN t : t[i] \in B
      BY SeqIs
<1>2. \A i \in m .. n : t[i] \in B
      <2> TAKE i \in m .. n
      <2>1. i \in DOMAIN t
            BY <1>1
      <2> QED BY <1>1, <2>1
<1>3. /\ u \in Seq(B) /\ Len(u) = IF m <= n THEN n - m + 1 ELSE 0
      /\ \A i \in 1 .. n - m + 1 : u[i] = t[m + i - 1]
      BY <1>2, SubSeqProperties
<1>4. ASSUME NEW j \in DOMAIN u PROVE m + j - 1 \in DOMAIN t /\ u[j] = t[m + j - 1]
      <2>1. DOMAIN u = 1 .. Len(u)
            BY <1>3, SeqIs
      <2>2. j \in 1 .. n - m + 1 /\ m <= n
            BY <1>3, <2>1
      <2>3. m + j - 1 \in 1 .. Len(t)
            BY <1>1, <2>2
      <2> QED BY <1>1, <1>3, <2>2, <2>3
<1> QED BY <1>3, <1>4

LEMMA BatchesOfAre ==
    ASSUME NEW B, NEW items \in Seq(B), Differ(items), NEW size \in Nat \ {0}
    PROVE  /\ BatchesOf(items, size) \in Seq(Seq(B)) /\ AllDiffer(BatchesOf(items, size))
           /\ \A i \in DOMAIN BatchesOf(items, size) : \A j \in DOMAIN BatchesOf(items, size)[i] :
                  \E p \in DOMAIN items : BatchesOf(items, size)[i][j] = items[p]
<1>1. PICK n \in Nat : n = Len(items) /\ DOMAIN items = 1 .. n
      BY SeqIs
<1>2. PICK q : q = (n + size - 1) \div size
      OBVIOUS
<1>3. q \in Nat
      BY <1>2, BlocksAre
<1> DEFINE part(i) == SubSeq(items, (i - 1) * size + 1, Min({i * size, n}))
           bs == [i \in 1 .. q |-> part(i)]
<1>4. BatchesOf(items, size) = bs
      BY <1>1, <1>2 DEF BatchesOf
<1>5. ASSUME NEW i \in 1 .. q
      PROVE  /\ part(i) \in Seq(B)
             /\ \A j \in DOMAIN part(i) : /\ j \in 1 .. size /\ (i - 1) * size + j \in DOMAIN items
                                          /\ part(i)[j] = items[(i - 1) * size + j]
      <2>1. PICK a : a = (i - 1) * size + 1
            OBVIOUS
      <2>2. PICK b : b = Min({i * size, n})
            OBVIOUS
      <2>3. i \in Nat /\ i >= 1 /\ a <= n
            <3>1. i \in Nat /\ i >= 1
                  BY <1>3
            <3>2. \A k \in 1 .. q : (k - 1) * size + 1 <= n
                  BY <1>2, BlocksAre
            <3> QED BY <2>1, <3>1, <3>2
      <2>4. Block(i, a, b, n, size)
            BY <2>1, <2>2, <2>3 DEF Block
      <2> HIDE DEF part, bs
      <2>5. a \in Nat \ {0} /\ b \in Nat /\ b <= n /\ a <= b /\ b - a + 1 <= size
            BY <2>3, <2>4, BlockEnds
      <2>6. part(i) = SubSeq(items, a, b)
            BY <2>1, <2>2 DEF part
      <2>7. PICK u : u = SubSeq(items, a, b)
            OBVIOUS
      <2>8. b <= Len(items)
            BY <1>1, <2>5
      <2>9. u \in Seq(B) /\ Len(u) = IF a <= b THEN b - a + 1 ELSE 0
            BY <2>5, <2>7, <2>8, CutOutIs
      <2>10. \A j \in DOMAIN u : a + j - 1 \in DOMAIN items /\ u[j] = items[a + j - 1]
             BY <2>5, <2>7, <2>8, CutOutIs
      <2>11. DOMAIN u = 1 .. Len(u)
             BY <2>9, SeqIs
      <2>12. PICK c \in Int : c = (i - 1) * size
             BY <2>3
      <2>13. \A j \in DOMAIN u : j \in 1 .. size /\ a + j - 1 = c + j
             BY <2>1, <2>5, <2>9, <2>11, <2>12
      <2> QED BY <2>6, <2>7, <2>9, <2>10, <2>12, <2>13
<1> HIDE DEF part
<1>6. bs \in Seq(Seq(B)) /\ DOMAIN bs = 1 .. q
      BY <1>3, <1>5
<1>7. \A i \in 1 .. q : bs[i] = part(i)
      OBVIOUS
<1> HIDE DEF bs
<1>8. ASSUME NEW i \in 1 .. q, NEW k \in 1 .. q, NEW j \in DOMAIN bs[i], NEW l \in DOMAIN bs[k],
             bs[i][j] = bs[k][l]
      PROVE  i = k /\ j = l
      <2>1. PICK x \in Int : x = (i - 1) * size
            BY <1>3
      <2>2. PICK y \in Int : y = (k - 1) * size
            BY <1>3
      <2>3. x + j \in DOMAIN items /\ y + l \in DOMAIN items /\ items[x + j] = items[y + l]
            BY <1>5, <1>7, <1>8, <2>1, <2>2
      <2>4. x + j = y + l
            BY <2>3 DEF Differ
      <2>5. j \in 1 .. size /\ l \in 1 .. size
            BY <1>5, <1>7
      <2>6. i \in Nat /\ k \in Nat
            BY <1>3
      <2>7. i < k => x + size <= y
            BY <2>1, <2>2, <2>6
      <2>8. k < i => y + size <= x
            BY <2>1, <2>2, <2>6
      <2>9. i = k
            BY <2>4, <2>5, <2>6, <2>7, <2>8
      <2> QED BY <2>1, <2>2, <2>4, <2>5, <2>9
<1>9. AllDiffer(bs)
      BY <1>6, <1>8 DEF AllDiffer
<1>10. \A i \in DOMAIN bs : \A j \in DOMAIN bs[i] : \E p \in DOMAIN items : bs[i][j] = items[p]
       BY <1>5, <1>6, <1>7
<1> QED BY <1>4, <1>6, <1>9, <1>10

LEMMA BatchesAre ==
    ASSUME NEW B, NEW items \in Seq(B), Differ(items)
    PROVE  Batches(items) \in Seq(Seq(B)) /\ AllDiffer(Batches(items))
<1>1. PICK n \in Nat : n = Len(items) /\ DOMAIN items = 1 .. n
      BY SeqIs
<1>2. PICK w : w = Max({1, MaxConcurrency \div 5})
      OBVIOUS
<1>3. w \in Nat \ {0}
      <2>1. PICK d \in Nat : d = MaxConcurrency \div 5
            BY BatchesAssumption
      <2>2. w = IF 1 >= d THEN 1 ELSE d
            BY <1>2, <2>1, PairMax
      <2> QED BY <2>1, <2>2
<1>4. CASE n <= w
      <2>1. PICK ss : ss = <<items>>
            OBVIOUS
      <2>2. ss \in Seq(Seq(B)) /\ DOMAIN ss = {1} /\ ss[1] = items
            BY <2>1
      <2>3. AllDiffer(ss)
            BY <2>2 DEF AllDiffer, Differ
      <2> QED BY <1>1, <1>2, <1>4, <2>1, <2>2, <2>3 DEF Batches
<1>5. CASE ~ (n <= w)
      <2>1. PICK first : first = SubSeq(items, 1, w)
            OBVIOUS
      <2>2. w \in Nat /\ w <= Len(items) /\ 1 \in Nat \ {0}
            BY <1>1, <1>3, <1>5
      <2>3. first \in Seq(B) /\ Len(first) = IF 1 <= w THEN w - 1 + 1 ELSE 0
            BY <2>1, <2>2, CutOutIs
      <2>4. \A j \in DOMAIN first : 1 + j - 1 \in DOMAIN items /\ first[j] = items[1 + j - 1]
            BY <2>1, <2>2, CutOutIs
      <2>5. DOMAIN first = 1 .. w
            BY <1>3, <2>3, SeqIs
      <2>6. \A j \in 1 .. w : j \in DOMAIN items /\ first[j] = items[j]
            <3> TAKE j \in 1 .. w
            <3>1. 1 + j - 1 = j
                  BY <1>3
            <3> QED BY <2>4, <2>5, <3>1
      <2>7. PICK v \in Nat \ {0} : v = w + 1
            BY <1>3
      <2>8. PICK rest : rest = SubSeq(items, v, n)
            OBVIOUS
      <2>9. n <= Len(items)
            BY <1>1
      <2>10. rest \in Seq(B)
             BY <2>8, <2>9, CutOutIs
      <2>11. \A j \in DOMAIN rest : v + j - 1 \in DOMAIN items /\ rest[j] = items[v + j - 1]
             BY <2>8, <2>9, CutOutIs
      <2>12. \A j \in DOMAIN rest : j \in Nat /\ j >= 1
             BY <2>10, SeqIs
      <2>13. \A j \in DOMAIN rest : w + j \in DOMAIN items /\ rest[j] = items[w + j]
             <3> TAKE j \in DOMAIN rest
             <3>1. v + j - 1 = w + j
                   BY <1>3, <2>7, <2>12
             <3> QED BY <2>11, <3>1
      <2>14. Differ(rest)
             <3> SUFFICES ASSUME NEW i \in DOMAIN rest, NEW j \in DOMAIN rest, rest[i] = rest[j] PROVE i = j
                 BY DEF Differ
             <3>1. w + i = w + j
                   BY <2>13 DEF Differ
             <3> QED BY <1>3, <2>12, <3>1
      <2>15. PICK bs : bs = BatchesOf(rest, ContextBatch)
             OBVIOUS
      <2>16. bs \in Seq(Seq(B)) /\ AllDiffer(bs)
             BY <2>10, <2>14, <2>15, BatchesAssumption, BatchesOfAre
      <2>17. \A i \in DOMAIN bs : \A j \in DOMAIN bs[i] : \E p \in DOMAIN rest : bs[i][j] = rest[p]
             <3>1. ContextBatch \in Nat \ {0}
                   BY BatchesAssumption
             <3> HIDE DEF Differ
             <3>2. \A i \in DOMAIN BatchesOf(rest, ContextBatch) : \A j \in DOMAIN BatchesOf(rest, ContextBatch)[i] :
                       \E p \in DOMAIN rest : BatchesOf(rest, ContextBatch)[i][j] = rest[p]
                   BY <2>10, <2>14, <3>1, BatchesOfAre
             <3> QED BY <2>15, <3>2
      <2>18. PICK one : one = <<first>>
             OBVIOUS
      <2>19. one \in Seq(Seq(B)) /\ Len(one) = 1 /\ DOMAIN one = {1} /\ one[1] = first
             BY <2>3, <2>18
      <2>20. PICK ss : ss = one \o bs
             OBVIOUS
      <2>21. ss \in Seq(Seq(B))
             BY <2>16, <2>19, <2>20, ConcatIs
      <2>22. \A p \in DOMAIN ss : \/ p \in DOMAIN one /\ ss[p] = one[p]
                                  \/ \E q \in DOMAIN bs : p = Len(one) + q /\ ss[p] = bs[q]
             <3>1. PICK C : C = Seq(B)
                   OBVIOUS
             <3>2. one \in Seq(C) /\ bs \in Seq(C)
                   BY <2>16, <2>19, <3>1
             <3> QED BY <2>20, <3>2, ConcatIs
      <2>23. \A p \in DOMAIN ss : \/ p = 1 /\ ss[p] = first
                                  \/ \E q \in DOMAIN bs : p = 1 + q /\ ss[p] = bs[q]
             BY <2>19, <2>22
      <2>24. \A q \in DOMAIN bs : q \in Nat /\ q >= 1
             BY <2>16, SeqIs
      <2>25. ASSUME NEW i \in DOMAIN bs, NEW j \in DOMAIN bs[i], NEW l \in DOMAIN first, bs[i][j] = first[l]
             PROVE  FALSE
             <3>1. PICK p \in DOMAIN rest : bs[i][j] = rest[p]
                   BY <2>17
             <3>2. w + p = l
                   BY <2>5, <2>6, <2>13, <2>25, <3>1 DEF Differ
             <3> QED BY <1>3, <2>5, <2>12, <3>2
      <2>26. ASSUME NEW i \in DOMAIN first, NEW j \in DOMAIN first, first[i] = first[j] PROVE i = j
             BY <2>5, <2>6, <2>26 DEF Differ
      <2>27. ASSUME NEW i \in DOMAIN ss, NEW k \in DOMAIN ss, NEW j \in DOMAIN ss[i], NEW l \in DOMAIN ss[k],
                    ss[i][j] = ss[k][l]
             PROVE  i = k /\ j = l
             <3>1. CASE i = 1 /\ ss[i] = first
                   <4>1. CASE k = 1 /\ ss[k] = first
                         BY <2>26, <2>27, <3>1, <4>1
                   <4>2. CASE \E q \in DOMAIN bs : k = 1 + q /\ ss[k] = bs[q]
                         BY <2>25, <2>27, <3>1, <4>2
                   <4> QED BY <2>23, <4>1, <4>2
             <3>2. CASE \E q \in DOMAIN bs : i = 1 + q /\ ss[i] = bs[q]
                   <4>0. PICK q \in DOMAIN bs : i = 1 + q /\ ss[i] = bs[q]
                         BY <3>2
                   <4>1. CASE k = 1 /\ ss[k] = first
                         BY <2>25, <2>27, <4>0, <4>1
                   <4>2. CASE \E o \in DOMAIN bs : k = 1 + o /\ ss[k] = bs[o]
                         <5>1. PICK o \in DOMAIN bs : k = 1 + o /\ ss[k] = bs[o]
                               BY <4>2
                         <5>2. q = o /\ j = l
                               BY <2>16, <2>27, <4>0, <5>1 DEF AllDiffer
                         <5> QED BY <4>0, <5>1, <5>2
                   <4> QED BY <2>23, <4>1, <4>2
             <3> QED BY <2>23, <3>1, <3>2
      <2>28. AllDiffer(ss)
             BY <2>27 DEF AllDiffer
      <2>29. Batches(items) = ss
             BY <1>1, <1>2, <1>5, <2>1, <2>7, <2>8, <2>15, <2>18, <2>20 DEF Batches
      <2> QED BY <2>21, <2>28, <2>29
<1> QED BY <1>4, <1>5


-----------------------------------------------------------------------------
(* The inductive invariant.                                                 *)

Chunk == [record : Nat, index : Nat, text : Fits(MaxChars)]

Context(c) == [plain |-> FALSE, of |-> c]

(* An edition of every record. *)
IsEdition(e) ==
    /\ DOMAIN e = DOMAIN setup.versions
    /\ \A r \in DOMAIN setup.versions : e[r] \in DOMAIN setup.versions[r]

(* What is loaded has been cut into chunks without losing a letter. *)
Chunked ==
    pc # "idle" =>
        /\ IsEdition(loaded)
        /\ \A r \in DOMAIN setup.versions : \A x \in LettersOf(setup.versions[r][loaded[r]]) :
               \E i \in DOMAIN chunks : chunks[i].record = r /\ x \in Letters(chunks[i].text)

(* No context has been asked for. *)
Unasked == todo = <<>> /\ batch = <<>> /\ DOMAIN calls = {} /\ results = <<>> /\ cacheable = {}

(* What has been embedded or has failed so far. *)
Progress ==
    /\ next \in 1 .. Len(chunks) + 1
    /\ pc = "single" => next <= Len(chunks)
    /\ \A i \in 1 .. next - 1 : chunks[i].record \in failed \/ \E p \in points : p.chunk = chunks[i]

(* A chunk whose context is still to come is asked for once. *)
AskedOnce ==
    /\ todo \in Seq(Seq(DOMAIN chunks)) /\ AllDiffer(todo)
    /\ batch \in Seq(DOMAIN chunks) /\ Differ(batch)
    /\ DOMAIN calls \subseteq DOMAIN chunks
    /\ \A b \in DOMAIN todo : \A j \in DOMAIN todo[b] :
           /\ todo[b][j] \notin DOMAIN calls \cup cacheable
           /\ \A l \in DOMAIN batch : batch[l] # todo[b][j]
    /\ \A l \in DOMAIN batch : batch[l] \notin DOMAIN calls \cup cacheable
    /\ DOMAIN calls \cap cacheable = {}

(* Contexts belong, those of the cache to the chunk that the key names. *)
ContextsKept ==
    /\ \A i \in DOMAIN results : i \in DOMAIN chunks /\ results[i] \in {Plain, Context(chunks[i])}
    /\ \A i \in cacheable : i \in DOMAIN results /\ results[i] = Context(chunks[i])
    /\ \A k \in DOMAIN cache :
           cache[k].of \in Chunk /\ Key(cache[k].of) = k /\ cache[k] = Context(cache[k].of)
    /\ \A p \in points \cup active.points : p.context \in {Plain, Context(p.chunk)}

IndexingInv ==
    /\ setup \in Setups
    /\ IsEdition(edition)
    /\ chunks \in Seq(Chunk)
    /\ pc = "idle" => loaded = <<>> /\ chunks = <<>>
    /\ pc \in {"idle", "lookup"} => Unasked
    /\ Chunked
    /\ Progress
    /\ NothingLost
    /\ AskedOnce
    /\ ContextsKept

(* The key of a chunk names it. *)
LEMMA KeyIs ==
    ASSUME NEW c \in Chunk, NEW d \in Chunk, Key(c) = Key(d)
    PROVE  c = d
<1>1. c.record = d.record /\ c.index = d.index /\ c.text = d.text
      BY DEF Key
<1>2. c = [record |-> c.record, index |-> c.index, text |-> c.text]
      BY DEF Chunk
<1>3. d = [record |-> d.record, index |-> d.index, text |-> d.text]
      BY DEF Chunk
<1> QED BY <1>1, <1>2, <1>3

LEMMA ChunksOfAre ==
    ASSUME NEW document \in Document, NEW r \in Nat
    PROVE  /\ ChunksOf(document, r) \in Seq(Chunk)
           /\ \A x \in LettersOf(document) : \E i \in DOMAIN ChunksOf(document, r) :
                  ChunksOf(document, r)[i].record = r /\ x \in Letters(ChunksOf(document, r)[i].text)
<1>1. PICK texts : texts = ChunkTexts(document)
      OBVIOUS
<1>2. texts \in Seq(Fits(MaxChars)) /\ LettersOf(document) \subseteq LettersIn(texts)
      BY <1>1, ChunkTextsIs
<1>3. PICK n \in Nat : DOMAIN texts = 1 .. n
      BY <1>2, SeqIs
<1>4. \A i \in 1 .. n : texts[i] \in Fits(MaxChars)
      BY <1>2, <1>3, SeqIs
<1>5. PICK cs : cs = [i \in 1 .. n |-> [record |-> r, index |-> i, text |-> texts[i]]]
      OBVIOUS
<1>6. ChunksOf(document, r) = cs
      BY <1>1, <1>3, <1>5 DEF ChunksOf
<1>7. \A i \in 1 .. n : [record |-> r, index |-> i, text |-> texts[i]] \in Chunk
      BY <1>4 DEF Chunk
<1>8. cs \in Seq(Chunk)
      BY <1>5, <1>7
<1>9. DOMAIN cs = 1 .. n /\ \A i \in 1 .. n : cs[i].record = r /\ cs[i].text = texts[i]
      BY <1>5
<1>10. \A x \in LettersOf(document) : \E i \in 1 .. n : cs[i].record = r /\ x \in Letters(cs[i].text)
       BY <1>2, <1>3, <1>9, InIs
<1> QED BY <1>6, <1>8, <1>9, <1>10

LEMMA NothingIs ==
    ASSUME NEW D
    PROVE  /\ <<>> \in Seq(Seq(D)) /\ <<>> \in Seq(D) /\ AllDiffer(<<>>) /\ Differ(<<>>)
           /\ DOMAIN <<>> = {} /\ Len(<<>>) = 0
<1>1. DOMAIN <<>> = {}
      OBVIOUS
<1>2. AllDiffer(<<>>)
      BY <1>1 DEF AllDiffer
<1>3. Differ(<<>>)
      BY <1>1 DEF Differ
<1> QED BY <1>1, <1>2, <1>3, EmptySeq

LEMMA VersionsAre ==
    ASSUME IndexingInv
    PROVE  /\ setup.versions \in Seq(Seq(Document) \ {<<>>})
           /\ \A r \in DOMAIN setup.versions : r \in Nat /\ setup.versions[r] \in Seq(Document)
           /\ \A e : IsEdition(e) => \A r \in DOMAIN setup.versions : setup.versions[r][e[r]] \in Document
<1>1. setup.versions \in Seq(Seq(Document) \ {<<>>})
      BY SetupsAssumption DEF IndexingInv
<1>2. PICK n \in Nat : DOMAIN setup.versions = 1 .. n
      BY <1>1, SeqIs
<1>3. \A r \in DOMAIN setup.versions : r \in Nat /\ setup.versions[r] \in Seq(Document)
      <2> TAKE r \in DOMAIN setup.versions
      <2>1. setup.versions[r] \in Seq(Document) \ {<<>>}
            BY <1>1, SeqIs
      <2> QED BY <1>2, <2>1
<1>4. ASSUME NEW e, IsEdition(e), NEW r \in DOMAIN setup.versions PROVE setup.versions[r][e[r]] \in Document
      <2>1. setup.versions[r] \in Seq(Document) /\ e[r] \in DOMAIN setup.versions[r]
            BY <1>3, <1>4 DEF IsEdition
      <2> QED BY <2>1, SeqIs
<1> QED BY <1>1, <1>3, <1>4

LEMMA IndexingInitInv == IndexingInit => IndexingInv
<1> SUFFICES ASSUME IndexingInit PROVE IndexingInv
    OBVIOUS
<1> USE DEF IndexingInit
<1>1. chunks = <<>> /\ DOMAIN chunks = {} /\ Len(chunks) = 0
      BY NothingIs
<1>2. chunks \in Seq(Chunk)
      BY EmptySeq
<1>3. IsEdition(edition)
      <2>1. setup.versions \in Seq(Seq(Document) \ {<<>>})
            BY SetupsAssumption
      <2>2. ASSUME NEW r \in DOMAIN setup.versions PROVE 1 \in DOMAIN setup.versions[r]
            <3>1. setup.versions[r] \in Seq(Document) /\ setup.versions[r] # <<>>
                  BY <2>1, SeqIs
            <3>2. PICK v \in Seq(Document) : v = setup.versions[r] /\ v # <<>>
                  BY <3>1
            <3>3. Len(v) \in Nat /\ Len(v) # 0 /\ DOMAIN v = 1 .. Len(v)
                  BY <3>2, SeqIs, EmptySeq
            <3> QED BY <3>2, <3>3
      <2> QED BY <2>2 DEF IsEdition
<1>4. Unasked
      BY NothingIs DEF Unasked
<1>5. Chunked
      BY DEF Chunked
<1>6. Progress
      BY <1>1 DEF Progress
<1>7. NothingLost
      BY NothingIs DEF NothingLost
<1>8. AskedOnce
      BY NothingIs DEF AskedOnce
<1>9. ContextsKept
      BY NothingIs DEF ContextsKept
<1> QED BY <1>2, <1>3, <1>4, <1>5, <1>6, <1>7, <1>8, <1>9 DEF IndexingInv

-----------------------------------------------------------------------------
(* One lemma per action, after one for what several actions leave alone.    *)

LEMMA ReturnKeeps ==
    ASSUME IndexingInv, Return, setup' = setup, edition' = edition, cache' = cache, NothingLost',
           \A p \in active'.points : p.context \in {Plain, Context(p.chunk)}
    PROVE  IndexingInv'
<1>1. setup' \in Setups /\ IsEdition(edition)'
      BY DEF IndexingInv, IsEdition
<1>2. pc' = "idle" /\ loaded' = <<>> /\ chunks' = <<>> /\ chunks' \in Seq(Chunk) /\ Len(chunks') = 0
      BY EmptySeq DEF Return
<1>3. Unasked'
      BY NothingIs DEF Unasked, Return
<1>4. Chunked'
      BY <1>2 DEF Chunked
<1>5. Progress'
      BY <1>2 DEF Progress, Return
<1>6. AskedOnce'
      BY NothingIs DEF AskedOnce, Return
<1>7. ContextsKept'
      <2>1. points' = {} /\ DOMAIN results' = {} /\ cacheable' = {}
            BY NothingIs DEF Return
      <2>2. \A k \in DOMAIN cache' :
                cache'[k].of \in Chunk /\ Key(cache'[k].of) = k /\ cache'[k] = Context(cache'[k].of)
            BY DEF IndexingInv, ContextsKept
      <2> QED BY <2>1, <2>2 DEF ContextsKept
<1> QED BY <1>1, <1>2, <1>3, <1>4, <1>5, <1>6, <1>7 DEF IndexingInv

LEMMA EndsKeep ==
    ASSUME IndexingInv, Return, UNCHANGED <<setup, edition, cache, builds, active>>
    PROVE  IndexingInv'
<1>1. NothingLost'
      BY DEF IndexingInv, NothingLost
<1>2. \A p \in active'.points : p.context \in {Plain, Context(p.chunk)}
      BY DEF IndexingInv, ContextsKept
<1> QED BY <1>1, <1>2, ReturnKeeps

LEMMA EnrichKeeps ==
    ASSUME IndexingInv, NEW filled \in SUBSET DOMAIN setup.versions, Enrich(filled)
    PROVE  IndexingInv'
<1>1. /\ setup' = setup /\ cache' = cache /\ pc' = pc /\ loaded' = loaded /\ chunks' = chunks
      /\ todo' = todo /\ batch' = batch /\ calls' = calls /\ results' = results /\ cacheable' = cacheable
      /\ next' = next /\ points' = points /\ failed' = failed /\ active' = active
      BY DEF Enrich, buildVars, contextVars, embedVars
<1>2. IsEdition(edition)'
      <2>1. IsEdition(edition)
            BY DEF IndexingInv
      <2>2. edition' = [r \in DOMAIN edition |-> IF r \in filled THEN edition[r] + 1 ELSE edition[r]]
            BY DEF Enrich
      <2>3. DOMAIN edition = DOMAIN setup.versions /\ DOMAIN edition' = DOMAIN setup.versions
            BY <2>1, <2>2 DEF IsEdition
      <2>4. ASSUME NEW r \in DOMAIN setup.versions PROVE edition'[r] \in DOMAIN setup.versions[r]
            <3>1. PICK v \in Seq(Document) : v = setup.versions[r]
                  BY VersionsAre
            <3>2. PICK n \in Nat : n = Len(v) /\ DOMAIN v = 1 .. n
                  BY SeqIs
            <3>3. edition[r] \in 1 .. n
                  BY <2>1, <3>1, <3>2 DEF IsEdition
            <3>4. r \in filled => edition[r] < n
                  BY <3>1, <3>2 DEF Enrich
            <3>5. edition'[r] = IF r \in filled THEN edition[r] + 1 ELSE edition[r]
                  BY <2>2, <2>3
            <3> QED BY <3>1, <3>2, <3>3, <3>4, <3>5
      <2> QED BY <1>1, <2>3, <2>4 DEF IsEdition
<1>3. Unasked => Unasked'
      BY <1>1 DEF Unasked
<1>4. Chunked'
      BY <1>1 DEF IndexingInv, Chunked, IsEdition
<1>5. Progress'
      BY <1>1 DEF IndexingInv, Progress
<1>6. NothingLost'
      BY <1>1 DEF IndexingInv, NothingLost
<1>7. AskedOnce'
      BY <1>1 DEF IndexingInv, AskedOnce
<1>8. ContextsKept'
      BY <1>1 DEF IndexingInv, ContextsKept
<1> QED BY <1>1, <1>2, <1>3, <1>4, <1>5, <1>6, <1>7, <1>8 DEF IndexingInv

LEMMA BeginBuildKeeps ==
    ASSUME IndexingInv, BeginBuild
    PROVE  IndexingInv'
<1>1. /\ setup' = setup /\ cache' = cache /\ edition' = edition /\ loaded' = edition
      /\ todo' = todo /\ batch' = batch /\ calls' = calls /\ results' = results /\ cacheable' = cacheable
      /\ next' = next /\ points' = points /\ failed' = failed /\ active' = active
      /\ pc = "idle" /\ pc' \in {"lookup", "embed"}
      BY DEF BeginBuild, contextVars, embedVars
<1>2. setup' \in Setups /\ IsEdition(edition) /\ IsEdition(edition)' /\ IsEdition(loaded)'
      BY <1>1 DEF IndexingInv, IsEdition
<1>3. PICK n \in Nat : DOMAIN setup.versions = 1 .. n
      BY VersionsAre, SeqIs
<1> DEFINE contents == [r \in 1 .. n |-> setup.versions[r][edition[r]]]
           all == [r \in 1 .. n |-> ChunksOf(contents[r], r)]
<1>4. chunks' = FlattenSeq(all)
      BY <1>3 DEF BeginBuild, Contents
<1>5. ASSUME NEW r \in 1 .. n
      PROVE  /\ all[r] \in Seq(Chunk)
             /\ \A x \in LettersOf(setup.versions[r][edition[r]]) : \E i \in DOMAIN all[r] :
                    all[r][i].record = r /\ x \in Letters(all[r][i].text)
      <2>1. PICK d \in Document : d = setup.versions[r][edition[r]]
            BY <1>2, <1>3, VersionsAre
      <2>2. all[r] = ChunksOf(d, r)
            BY <2>1
      <2>3. PICK cs : cs = ChunksOf(d, r)
            OBVIOUS
      <2>4. cs \in Seq(Chunk) /\ \A x \in LettersOf(d) : \E i \in DOMAIN cs : cs[i].record = r /\ x \in Letters(cs[i].text)
            <3> HIDE DEF all, contents
            <3>1. r \in Nat
                  OBVIOUS
            <3>2. cs \in Seq(Chunk)
                  BY <2>3, <3>1, ChunksOfAre
            <3>3. \A x \in LettersOf(d) : \E i \in DOMAIN ChunksOf(d, r) :
                      ChunksOf(d, r)[i].record = r /\ x \in Letters(ChunksOf(d, r)[i].text)
                  BY <3>1, ChunksOfAre
            <3> QED BY <2>3, <3>2, <3>3
      <2> QED BY <2>1, <2>2, <2>3, <2>4
<1>6. DOMAIN all = 1 .. n
      OBVIOUS
<1>7. all \in Seq(Seq(Chunk))
      <2>1. all = [r \in 1 .. n |-> all[r]]
            OBVIOUS
      <2> HIDE DEF all
      <2> QED BY <1>5, <2>1
<1> HIDE DEF all
<1>8. PICK ss \in Seq(Seq(Chunk)) : ss = all
      BY <1>7
<1>9. chunks' \in Seq(Chunk)
      BY <1>4, <1>8, FlattenIs
<1>10. \A i \in DOMAIN ss : \A j \in DOMAIN ss[i] : \E p \in DOMAIN chunks' : chunks'[p] = ss[i][j]
       BY <1>4, <1>8, FlattenIs
<1>11. \A r \in 1 .. n : \A x \in LettersOf(setup.versions[r][edition[r]]) : \E p \in DOMAIN chunks' :
           chunks'[p].record = r /\ x \in Letters(chunks'[p].text)
       <2> TAKE r \in 1 .. n
       <2> TAKE x \in LettersOf(setup.versions[r][edition[r]])
       <2>1. PICK i \in DOMAIN all[r] : all[r][i].record = r /\ x \in Letters(all[r][i].text)
             BY <1>5
       <2>2. PICK p \in DOMAIN chunks' : chunks'[p] = all[r][i]
             BY <1>6, <1>8, <1>10
       <2> QED BY <2>1, <2>2
<1>12. Chunked'
       <2>1. \A r \in DOMAIN setup'.versions : \A x \in LettersOf(setup'.versions[r][loaded'[r]]) :
                 \E p \in DOMAIN chunks' : chunks'[p].record = r /\ x \in Letters(chunks'[p].text)
             <3> TAKE r \in DOMAIN setup'.versions
             <3>1. r \in 1 .. n /\ setup'.versions[r][loaded'[r]] = setup.versions[r][edition[r]]
                   BY <1>1, <1>3
             <3>2. PICK d : d = setup.versions[r][edition[r]]
                   OBVIOUS
             <3>3. \A x \in LettersOf(d) : \E p \in DOMAIN chunks' : chunks'[p].record = r /\ x \in Letters(chunks'[p].text)
                   BY <1>11, <3>1, <3>2
             <3> QED BY <3>1, <3>2, <3>3
       <2> QED BY <1>2, <2>1 DEF Chunked
<1>13. Unasked /\ Unasked'
       BY <1>1 DEF IndexingInv, Unasked
<1>14. Progress'
       <2>1. chunks = <<>> /\ Len(chunks) = 0
             BY <1>1, NothingIs DEF IndexingInv
       <2>2. next = 1
             BY <2>1 DEF IndexingInv, Progress
       <2>3. Len(chunks') \in Nat
             BY <1>9, SeqIs
       <2> QED BY <1>1, <2>2, <2>3 DEF Progress
<1>15. NothingLost'
       BY <1>1 DEF IndexingInv, NothingLost
<1>16. AskedOnce'
       BY <1>13, NothingIs DEF Unasked, AskedOnce
<1>17. ContextsKept'
       <2>1. DOMAIN results' = {} /\ cacheable' = {}
             BY <1>13, NothingIs DEF Unasked
       <2>2. \A k \in DOMAIN cache' :
                 cache'[k].of \in Chunk /\ Key(cache'[k].of) = k /\ cache'[k] = Context(cache'[k].of)
             BY <1>1 DEF IndexingInv, ContextsKept
       <2>3. \A p \in points' \cup active'.points : p.context \in {Plain, Context(p.chunk)}
             BY <1>1 DEF IndexingInv, ContextsKept
       <2> QED BY <2>1, <2>2, <2>3 DEF ContextsKept
<1> QED BY <1>1, <1>2, <1>9, <1>12, <1>13, <1>14, <1>15, <1>16, <1>17 DEF IndexingInv


LEMMA LookUpKeeps ==
    ASSUME IndexingInv, LookUp
    PROVE  IndexingInv'
<1>1. /\ setup' = setup /\ edition' = edition /\ cache' = cache /\ loaded' = loaded /\ chunks' = chunks
      /\ batch' = batch /\ calls' = calls /\ cacheable' = cacheable
      /\ next' = next /\ points' = points /\ failed' = failed /\ active' = active
      /\ pc = "lookup" /\ pc' \in {"embed", "calls"}
      BY DEF LookUp, embedVars
<1>2. PICK D : D = DOMAIN chunks
      OBVIOUS
<1>3. chunks \in Seq(Chunk)
      BY DEF IndexingInv
<1>4. PICK n \in Nat : D = 1 .. n
      BY <1>2, <1>3, SeqIs
<1>5. PICK hits : hits = {i \in D : Key(chunks[i]) \in DOMAIN cache}
      OBVIOUS
<1> DEFINE piece(i) == IF i \in hits THEN <<>> ELSE <<i>>
           pieces == [i \in D |-> piece(i)]
<1>6. PICK misses : misses = FlattenSeq(pieces)
      OBVIOUS
<1>7. results' = [i \in hits |-> cache[Key(chunks[i])]] /\ todo' = IF misses = <<>> THEN <<>> ELSE Batches(misses)
      BY <1>2, <1>5, <1>6 DEF LookUp
<1>8. ASSUME NEW i \in D PROVE piece(i) \in Seq(D) /\ \A j \in DOMAIN piece(i) : j = 1 /\ piece(i)[j] = i
      <2>1. CASE i \in hits
            <3>1. piece(i) = <<>>
                  BY <2>1
            <3> HIDE DEF piece
            <3> QED BY <3>1, NothingIs
      <2>2. CASE i \notin hits
            <3>1. piece(i) = <<i>>
                  BY <2>2
            <3> HIDE DEF piece
            <3>2. PICK one : one = <<i>>
                  OBVIOUS
            <3>3. one \in Seq(D) /\ DOMAIN one = {1} /\ one[1] = i
                  BY <3>2
            <3> QED BY <3>1, <3>2, <3>3
      <2> QED BY <2>1, <2>2
<1> HIDE DEF piece
<1>9. pieces \in Seq(Seq(D))
      <2>1. pieces = [i \in 1 .. n |-> piece(i)] /\ \A i \in 1 .. n : piece(i) \in Seq(D)
            BY <1>4, <1>8
      <2> HIDE DEF pieces
      <2> QED BY <2>1
<1>10. DOMAIN pieces = D /\ \A i \in D : pieces[i] = piece(i)
       OBVIOUS
<1> HIDE DEF pieces
<1>11. \A i \in D : \A j \in DOMAIN pieces[i] : j = 1 /\ pieces[i][j] = i
       BY <1>8, <1>10
<1>12. AllDiffer(pieces)
       BY <1>10, <1>11 DEF AllDiffer
<1>13. misses \in Seq(D) /\ Differ(misses)
       BY <1>6, <1>9, <1>12, FlattenIs
<1>14. todo' \in Seq(Seq(D)) /\ AllDiffer(todo')
       <2>1. PICK bs : bs = Batches(misses)
             OBVIOUS
       <2>2. bs \in Seq(Seq(D)) /\ AllDiffer(bs)
             BY <1>13, <2>1, BatchesAre
       <2> QED BY <1>7, <2>1, <2>2, NothingIs
<1>15. Unasked
       BY <1>1 DEF IndexingInv
<1>16. AskedOnce'
       <2>1. batch' = <<>> /\ DOMAIN calls' = {} /\ cacheable' = {}
             BY <1>1, <1>15 DEF Unasked
       <2> QED BY <1>1, <1>2, <1>14, <2>1, NothingIs DEF AskedOnce
<1>17. ContextsKept'
       <2>1. ASSUME NEW i \in DOMAIN results'
             PROVE  i \in DOMAIN chunks' /\ results'[i] \in {Plain, Context(chunks'[i])}
             <3>1. i \in D /\ Key(chunks[i]) \in DOMAIN cache /\ results'[i] = cache[Key(chunks[i])]
                   BY <1>5, <1>7
             <3>2. PICK k : k = Key(chunks[i])
                   OBVIOUS
             <3>3. PICK c \in Chunk : c = cache[k].of /\ Key(c) = k /\ cache[k] = Context(c)
                   BY <3>1, <3>2 DEF IndexingInv, ContextsKept
             <3>4. PICK d \in Chunk : d = chunks[i]
                   BY <1>2, <1>3, <3>1, SeqIs
             <3>5. c = d
                   BY <3>2, <3>3, <3>4, KeyIs
             <3> QED BY <1>1, <1>2, <3>1, <3>2, <3>3, <3>4, <3>5
       <2>2. cacheable' = {}
             BY <1>1, <1>15 DEF Unasked
       <2>3. \A k \in DOMAIN cache' :
                 cache'[k].of \in Chunk /\ Key(cache'[k].of) = k /\ cache'[k] = Context(cache'[k].of)
             BY <1>1 DEF IndexingInv, ContextsKept
       <2>4. \A p \in points' \cup active'.points : p.context \in {Plain, Context(p.chunk)}
             BY <1>1 DEF IndexingInv, ContextsKept
       <2> QED BY <2>1, <2>2, <2>3, <2>4 DEF ContextsKept
<1>18. Chunked'
       BY <1>1 DEF IndexingInv, Chunked, IsEdition
<1>19. Progress'
       BY <1>1 DEF IndexingInv, Progress
<1>20. NothingLost'
       BY <1>1 DEF IndexingInv, NothingLost
<1>21. setup' \in Setups /\ IsEdition(edition)' /\ chunks' \in Seq(Chunk)
       BY <1>1 DEF IndexingInv, IsEdition
<1> QED BY <1>1, <1>16, <1>17, <1>18, <1>19, <1>20, <1>21 DEF IndexingInv

LEMMA CallingKeeps ==
    ASSUME IndexingInv, Calling, ~ Unasked, AskedOnce',
           \A i \in DOMAIN results' : i \in DOMAIN chunks /\ results'[i] \in {Plain, Context(chunks[i])},
           \A i \in cacheable' : i \in DOMAIN results' /\ results'[i] = Context(chunks[i])
    PROVE  IndexingInv'
<1>1. /\ setup' = setup /\ edition' = edition /\ cache' = cache /\ loaded' = loaded /\ chunks' = chunks
      /\ next' = next /\ points' = points /\ failed' = failed /\ active' = active /\ pc' = pc
      BY DEF Calling, embedVars
<1>2. pc \notin {"idle", "lookup"}
      BY DEF IndexingInv
<1>3. setup' \in Setups /\ IsEdition(edition)' /\ chunks' \in Seq(Chunk)
      BY <1>1 DEF IndexingInv, IsEdition
<1>4. Chunked'
      BY <1>1 DEF IndexingInv, Chunked, IsEdition
<1>5. Progress'
      BY <1>1 DEF IndexingInv, Progress
<1>6. NothingLost'
      BY <1>1 DEF IndexingInv, NothingLost
<1>7. ContextsKept'
      <2>1. \A k \in DOMAIN cache' :
                cache'[k].of \in Chunk /\ Key(cache'[k].of) = k /\ cache'[k] = Context(cache'[k].of)
            BY <1>1 DEF IndexingInv, ContextsKept
      <2>2. \A p \in points' \cup active'.points : p.context \in {Plain, Context(p.chunk)}
            BY <1>1 DEF IndexingInv, ContextsKept
      <2> QED BY <1>1, <2>1, <2>2 DEF ContextsKept
<1> QED BY <1>1, <1>2, <1>3, <1>4, <1>5, <1>6, <1>7 DEF IndexingInv

LEMMA ResultsKept ==
    ASSUME IndexingInv, Calling, ~ Unasked, AskedOnce', results' = results, cacheable' = cacheable
    PROVE  IndexingInv'
<1>1. /\ \A i \in DOMAIN results : i \in DOMAIN chunks /\ results[i] \in {Plain, Context(chunks[i])}
      /\ \A i \in cacheable : i \in DOMAIN results /\ results[i] = Context(chunks[i])
      BY DEF IndexingInv, ContextsKept
<1> QED BY <1>1, CallingKeeps

LEMMA NextBatchKeeps ==
    ASSUME IndexingInv, NextBatch
    PROVE  IndexingInv'
<1>1. PICK D : D = DOMAIN chunks
      OBVIOUS
<1>2. PICK C : C = Seq(D)
      OBVIOUS
<1>3. /\ todo # <<>> /\ batch' = Head(todo) /\ todo' = Tail(todo) /\ DOMAIN calls' = DOMAIN calls
      /\ Calling /\ results' = results /\ cacheable' = cacheable /\ DOMAIN chunks' = D
      BY <1>1 DEF NextBatch, Calling
<1>4. ~ Unasked
      BY <1>3 DEF Unasked
<1>5. /\ todo \in Seq(C) /\ AllDiffer(todo) /\ DOMAIN calls \subseteq D /\ DOMAIN calls \cap cacheable = {}
      /\ \A b \in DOMAIN todo : \A j \in DOMAIN todo[b] : todo[b][j] \notin DOMAIN calls \cup cacheable
      BY <1>1, <1>2 DEF IndexingInv, AskedOnce
<1>6. PICK n \in Nat : n = Len(todo) /\ DOMAIN todo = 1 .. n /\ n # 0
      BY <1>3, <1>5, SeqIs, EmptySeq
<1>7. Head(todo) = todo[1] /\ 1 \in DOMAIN todo
      BY <1>3, <1>5, <1>6
<1>8. todo' \in Seq(C) /\ Len(todo') = n - 1 /\ \A b \in 1 .. n - 1 : todo'[b] = todo[b + 1]
      BY <1>3, <1>5, <1>6, HeadTailProperties
<1>9. DOMAIN todo' = 1 .. n - 1
      BY <1>8, SeqIs
<1>10. \A b \in DOMAIN todo' : b \in Nat /\ b + 1 \in DOMAIN todo /\ b + 1 # 1 /\ todo'[b] = todo[b + 1]
       BY <1>6, <1>8, <1>9
<1>11. batch' \in Seq(D) /\ batch' = todo[1]
       <2>1. todo[1] \in C
             BY <1>5, <1>7, SeqIs
       <2> QED BY <1>2, <1>3, <1>7, <2>1
<1>12. Differ(batch')
       BY <1>5, <1>7, <1>11 DEF AllDiffer, Differ
<1>13. AllDiffer(todo')
       <2> SUFFICES ASSUME NEW i \in DOMAIN todo', NEW k \in DOMAIN todo', NEW j \in DOMAIN todo'[i],
                           NEW l \in DOMAIN todo'[k], todo'[i][j] = todo'[k][l]
                    PROVE  i = k /\ j = l
           BY DEF AllDiffer
       <2>1. PICK x \in DOMAIN todo : x = i + 1 /\ todo'[i] = todo[x]
             BY <1>10
       <2>2. PICK y \in DOMAIN todo : y = k + 1 /\ todo'[k] = todo[y]
             BY <1>10
       <2>3. x = y /\ j = l
             BY <1>5, <2>1, <2>2 DEF AllDiffer
       <2> QED BY <1>10, <2>1, <2>2, <2>3
<1>14. ASSUME NEW b \in DOMAIN todo', NEW j \in DOMAIN todo'[b]
       PROVE  /\ todo'[b][j] \notin DOMAIN calls \cup cacheable
              /\ \A l \in DOMAIN batch' : batch'[l] # todo'[b][j]
       <2>1. PICK x \in DOMAIN todo : x # 1 /\ todo'[b] = todo[x]
             BY <1>10
       <2>2. todo'[b][j] \notin DOMAIN calls \cup cacheable
             BY <1>5, <2>1
       <2>3. \A l \in DOMAIN batch' : batch'[l] # todo'[b][j]
             BY <1>5, <1>7, <1>11, <2>1 DEF AllDiffer
       <2> QED BY <2>2, <2>3
<1>15. \A l \in DOMAIN batch' : batch'[l] \notin DOMAIN calls \cup cacheable
       BY <1>5, <1>7, <1>11
<1>16. AskedOnce'
       BY <1>2, <1>3, <1>5, <1>8, <1>11, <1>12, <1>13, <1>14, <1>15 DEF AskedOnce
<1> QED BY <1>3, <1>4, <1>16, ResultsKept

LEMMA AcquireKeeps ==
    ASSUME IndexingInv, Acquire
    PROVE  IndexingInv'
<1>1. PICK D : D = DOMAIN chunks
      OBVIOUS
<1>2. PICK head : head = Head(batch)
      OBVIOUS
<1>3. /\ batch # <<>> /\ batch' = Tail(batch) /\ todo' = todo /\ Calling /\ results' = results
      /\ cacheable' = cacheable /\ DOMAIN chunks' = D
      BY <1>1 DEF Acquire, Calling
<1>4. DOMAIN calls' = {head} \cup DOMAIN calls
      BY <1>2 DEF Acquire, Put, Updated
<1>5. ~ Unasked
      BY <1>3 DEF Unasked
<1>6. AskedOnce
      BY DEF IndexingInv
<1>7. batch \in Seq(D) /\ Differ(batch)
      BY <1>1, <1>6 DEF AskedOnce
<1>8. PICK n \in Nat : n = Len(batch) /\ DOMAIN batch = 1 .. n /\ n # 0
      BY <1>3, <1>7, SeqIs, EmptySeq
<1>9. head = batch[1] /\ 1 \in DOMAIN batch /\ head \in D
      BY <1>2, <1>3, <1>7, <1>8, SeqIs
<1>10. batch' \in Seq(D) /\ Len(batch') = n - 1 /\ \A l \in 1 .. n - 1 : batch'[l] = batch[l + 1]
       BY <1>3, <1>7, <1>8, HeadTailProperties
<1>11. DOMAIN batch' = 1 .. n - 1
       BY <1>10, SeqIs
<1>12. \A l \in DOMAIN batch' : l \in Nat /\ l + 1 \in DOMAIN batch /\ l + 1 # 1 /\ batch'[l] = batch[l + 1]
       BY <1>8, <1>10, <1>11
<1>13. Differ(batch')
       <2> SUFFICES ASSUME NEW i \in DOMAIN batch', NEW j \in DOMAIN batch', batch'[i] = batch'[j] PROVE i = j
           BY DEF Differ
       <2>1. i + 1 = j + 1
             BY <1>7, <1>12 DEF Differ
       <2> QED BY <1>12, <2>1
<1>14. \A l \in DOMAIN batch' : batch'[l] # head
       BY <1>7, <1>9, <1>12 DEF Differ
<1>15. \A l \in DOMAIN batch' : batch'[l] \notin DOMAIN calls' \cup cacheable
       BY <1>4, <1>6, <1>12, <1>14 DEF AskedOnce
<1>16. head \notin cacheable /\ DOMAIN calls' \cap cacheable = {} /\ DOMAIN calls' \subseteq D
       BY <1>1, <1>4, <1>6, <1>9 DEF AskedOnce
<1>17. ASSUME NEW b \in DOMAIN todo, NEW j \in DOMAIN todo[b]
       PROVE  todo[b][j] \notin DOMAIN calls' \cup cacheable /\ \A l \in DOMAIN batch' : batch'[l] # todo[b][j]
       <2>1. todo[b][j] \notin DOMAIN calls \cup cacheable /\ \A l \in DOMAIN batch : batch[l] # todo[b][j]
             BY <1>6 DEF AskedOnce
       <2> QED BY <1>4, <1>9, <1>12, <2>1
<1>18. todo \in Seq(Seq(D)) /\ AllDiffer(todo)
       BY <1>1, <1>6 DEF AskedOnce
<1>19. AskedOnce'
       BY <1>3, <1>10, <1>13, <1>15, <1>16, <1>17, <1>18 DEF AskedOnce
<1> QED BY <1>3, <1>5, <1>19, ResultsKept


LEMMA AnsweredOnce ==
    ASSUME IndexingInv, NEW i \in DOMAIN calls, Calling, DOMAIN calls' = DOMAIN calls \ {i},
           todo' = todo, batch' = batch, cacheable' \subseteq cacheable \cup {i}
    PROVE  AskedOnce' /\ ~ Unasked /\ i \in DOMAIN chunks /\ i \notin cacheable
<1>1. AskedOnce /\ chunks' = chunks
      BY DEF IndexingInv, Calling
<1>2. ~ Unasked
      BY DEF Unasked
<1>3. i \in DOMAIN chunks /\ i \notin cacheable
      BY <1>1 DEF AskedOnce
<1>4. DOMAIN calls' \subseteq DOMAIN chunks /\ DOMAIN calls' \cap cacheable' = {}
      BY <1>1 DEF AskedOnce
<1>5. \A x : x \notin DOMAIN calls \cup cacheable => x \notin DOMAIN calls' \cup cacheable'
      OBVIOUS
<1>6. \A b \in DOMAIN todo : \A j \in DOMAIN todo[b] : todo[b][j] \notin DOMAIN calls' \cup cacheable'
      BY <1>1, <1>5 DEF AskedOnce
<1>7. \A l \in DOMAIN batch : batch[l] \notin DOMAIN calls' \cup cacheable'
      BY <1>1, <1>5 DEF AskedOnce
<1>8. AskedOnce'
      BY <1>1, <1>4, <1>6, <1>7 DEF AskedOnce
<1> QED BY <1>2, <1>3, <1>8

LEMMA CallReturnsKeeps ==
    ASSUME IndexingInv, NEW i \in DOMAIN calls, CallReturns(i)
    PROVE  IndexingInv'
<1>1. /\ Calling /\ DOMAIN calls' = DOMAIN calls \ {i} /\ todo' = todo /\ batch' = batch
      /\ cacheable' = cacheable \cup {i} /\ chunks' = chunks
      BY DEF CallReturns, Release, Restrict, Calling
<1>2. AskedOnce' /\ ~ Unasked /\ i \in DOMAIN chunks
      BY <1>1, AnsweredOnce
<1>3. /\ DOMAIN results' = DOMAIN results \cup {i} /\ results'[i] = Context(chunks[i])
      /\ \A k \in DOMAIN results : k # i => results'[k] = results[k]
      BY DEF CallReturns, Put, Updated, Context
<1>4. /\ \A k \in DOMAIN results : k \in DOMAIN chunks /\ results[k] \in {Plain, Context(chunks[k])}
      /\ \A k \in cacheable : k \in DOMAIN results /\ results[k] = Context(chunks[k])
      BY DEF IndexingInv, ContextsKept
<1>5. \A k \in DOMAIN results' : k \in DOMAIN chunks /\ results'[k] \in {Plain, Context(chunks[k])}
      BY <1>2, <1>3, <1>4
<1>6. \A k \in cacheable' : k \in DOMAIN results' /\ results'[k] = Context(chunks[k])
      BY <1>1, <1>3, <1>4
<1> QED BY <1>1, <1>2, <1>5, <1>6, CallingKeeps

LEMMA CallFailsKeeps ==
    ASSUME IndexingInv, NEW i \in DOMAIN calls, CallFails(i)
    PROVE  IndexingInv'
<1>1. /\ Calling /\ DOMAIN calls' = DOMAIN calls \ {i} /\ todo' = todo /\ batch' = batch
      /\ cacheable' = cacheable /\ chunks' = chunks
      BY DEF CallFails, Release, Restrict, Calling
<1>2. AskedOnce' /\ ~ Unasked /\ i \in DOMAIN chunks /\ i \notin cacheable
      BY <1>1, AnsweredOnce
<1>3. /\ DOMAIN results' = DOMAIN results \cup {i} /\ results'[i] = Plain
      /\ \A k \in DOMAIN results : k # i => results'[k] = results[k]
      BY DEF CallFails, Put, Updated
<1>4. /\ \A k \in DOMAIN results : k \in DOMAIN chunks /\ results[k] \in {Plain, Context(chunks[k])}
      /\ \A k \in cacheable : k \in DOMAIN results /\ results[k] = Context(chunks[k])
      BY DEF IndexingInv, ContextsKept
<1>5. \A k \in DOMAIN results' : k \in DOMAIN chunks /\ results'[k] \in {Plain, Context(chunks[k])}
      BY <1>2, <1>3, <1>4
<1>6. \A k \in cacheable' : k \in DOMAIN results' /\ results'[k] = Context(chunks[k])
      BY <1>1, <1>2, <1>3, <1>4
<1> QED BY <1>1, <1>2, <1>5, <1>6, CallingKeeps

(* A call that pauses or goes on keeps its place. *)
LEMMA PausesKeep ==
    ASSUME IndexingInv, NEW i \in DOMAIN calls, RetryLater(i) \/ Wake(i)
    PROVE  IndexingInv'
<1>1. /\ Calling /\ DOMAIN calls' = DOMAIN calls /\ todo' = todo /\ batch' = batch
      /\ results' = results /\ cacheable' = cacheable /\ chunks' = chunks
      BY DEF RetryLater, Wake, Calling
<1>2. ~ Unasked
      BY DEF Unasked
<1>3. AskedOnce'
      BY <1>1 DEF IndexingInv, AskedOnce
<1> QED BY <1>1, <1>2, <1>3, ResultsKept

LEMMA SaveContextsKeeps ==
    ASSUME IndexingInv, NEW saved \in BOOLEAN, SaveContexts(saved)
    PROVE  IndexingInv'
<1>1. /\ setup' = setup /\ edition' = edition /\ loaded' = loaded /\ chunks' = chunks
      /\ todo' = todo /\ batch' = batch /\ calls' = calls /\ results' = results /\ cacheable' = cacheable
      /\ next' = next /\ points' = points /\ failed' = failed /\ active' = active
      /\ pc = "calls" /\ pc' = "embed"
      BY DEF SaveContexts, contextVars, embedVars
<1> DEFINE keys == {Key(chunks[i]) : i \in cacheable}
           written == [k \in keys |-> results[CHOOSE i \in cacheable : Key(chunks[i]) = k]]
           Right(k, v) == v.of \in Chunk /\ Key(v.of) = k /\ v = Context(v.of)
<1>2. cache' = IF saved THEN Updated(cache, written) ELSE cache
      BY DEF SaveContexts
<1>3. \A k \in DOMAIN cache : Right(k, cache[k])
      BY DEF IndexingInv, ContextsKept
<1>4. ASSUME NEW k \in keys PROVE Right(k, written[k])
      <2>1. PICK i \in cacheable : Key(chunks[i]) = k /\ written[k] = results[i]
            <3> DEFINE c == CHOOSE i \in cacheable : Key(chunks[i]) = k
            <3>1. \E i \in cacheable : Key(chunks[i]) = k
                  OBVIOUS
            <3>2. c \in cacheable /\ Key(chunks[c]) = k
                  BY <3>1
            <3>3. written[k] = results[c]
                  OBVIOUS
            <3> HIDE DEF c, written
            <3> QED BY <3>2, <3>3
      <2> HIDE DEF written
      <2>2. i \in DOMAIN chunks /\ results[i] = Context(chunks[i])
            BY DEF IndexingInv, ContextsKept
      <2>3. PICK c \in Chunk : c = chunks[i]
            BY <2>2, SeqIs DEF IndexingInv
      <2>4. Context(c).of = c
            BY DEF Context
      <2> QED BY <2>1, <2>2, <2>3, <2>4
<1>5. DOMAIN written = keys
      OBVIOUS
<1> HIDE DEF written, keys, Right
<1>6. ASSUME NEW k \in DOMAIN cache' PROVE Right(k, cache'[k])
      <2>1. CASE saved
            <3>1. cache' = Updated(cache, written)
                  BY <1>2, <2>1
            <3>2. /\ k \in DOMAIN cache \cup keys
                  /\ cache'[k] = IF k \in keys THEN written[k] ELSE cache[k]
                  BY <1>5, <1>6, <3>1 DEF Updated
            <3> QED BY <1>3, <1>4, <3>2
      <2>2. CASE ~ saved
            BY <1>2, <1>3, <1>6, <2>2
      <2> QED BY <2>1, <2>2
<1>7. ContextsKept'
      <2>1. \A k \in DOMAIN cache' :
                cache'[k].of \in Chunk /\ Key(cache'[k].of) = k /\ cache'[k] = Context(cache'[k].of)
            BY <1>6 DEF Right
      <2>2. /\ \A i \in DOMAIN results' : i \in DOMAIN chunks' /\ results'[i] \in {Plain, Context(chunks'[i])}
            /\ \A i \in cacheable' : i \in DOMAIN results' /\ results'[i] = Context(chunks'[i])
            BY <1>1 DEF IndexingInv, ContextsKept
      <2>3. \A p \in points' \cup active'.points : p.context \in {Plain, Context(p.chunk)}
            BY <1>1 DEF IndexingInv, ContextsKept
      <2> QED BY <2>1, <2>2, <2>3 DEF ContextsKept
<1>8. setup' \in Setups /\ IsEdition(edition)' /\ chunks' \in Seq(Chunk)
      BY <1>1 DEF IndexingInv, IsEdition
<1>9. Chunked'
      BY <1>1 DEF IndexingInv, Chunked, IsEdition
<1>10. Progress'
       BY <1>1 DEF IndexingInv, Progress
<1>11. NothingLost'
       BY <1>1 DEF IndexingInv, NothingLost
<1>12. AskedOnce'
       BY <1>1 DEF IndexingInv, AskedOnce
<1> QED BY <1>1, <1>7, <1>8, <1>9, <1>10, <1>11, <1>12 DEF IndexingInv

LEMMA EmbeddingKeeps ==
    ASSUME IndexingInv, Embedding, pc \in {"embed", "single"}, pc' \in {"embed", "single"}, Progress',
           \A p \in points' : p.context \in {Plain, Context(p.chunk)}
    PROVE  IndexingInv'
<1>1. /\ setup' = setup /\ edition' = edition /\ cache' = cache /\ loaded' = loaded /\ chunks' = chunks
      /\ todo' = todo /\ batch' = batch /\ calls' = calls /\ results' = results /\ cacheable' = cacheable
      /\ active' = active
      BY DEF Embedding, contextVars
<1>2. setup' \in Setups /\ IsEdition(edition)' /\ chunks' \in Seq(Chunk)
      BY <1>1 DEF IndexingInv, IsEdition
<1>3. Chunked'
      BY <1>1 DEF IndexingInv, Chunked, IsEdition
<1>4. NothingLost'
      BY <1>1 DEF IndexingInv, NothingLost
<1>5. AskedOnce'
      BY <1>1 DEF IndexingInv, AskedOnce
<1>6. ContextsKept'
      <2>1. \A k \in DOMAIN cache' :
                cache'[k].of \in Chunk /\ Key(cache'[k].of) = k /\ cache'[k] = Context(cache'[k].of)
            BY <1>1 DEF IndexingInv, ContextsKept
      <2>2. /\ \A i \in DOMAIN results' : i \in DOMAIN chunks' /\ results'[i] \in {Plain, Context(chunks'[i])}
            /\ \A i \in cacheable' : i \in DOMAIN results' /\ results'[i] = Context(chunks'[i])
            BY <1>1 DEF IndexingInv, ContextsKept
      <2>3. \A p \in active'.points : p.context \in {Plain, Context(p.chunk)}
            BY <1>1 DEF IndexingInv, ContextsKept
      <2> QED BY <2>1, <2>2, <2>3 DEF ContextsKept
<1> QED BY <1>1, <1>2, <1>3, <1>4, <1>5, <1>6 DEF IndexingInv

LEMMA PointIs ==
    ASSUME IndexingInv, NEW i
    PROVE  PointOf(i).chunk = chunks[i] /\ PointOf(i).context \in {Plain, Context(PointOf(i).chunk)}
<1>1. i \in DOMAIN results => results[i] \in {Plain, Context(chunks[i])}
      BY DEF IndexingInv, ContextsKept
<1> QED BY <1>1 DEF PointOf

LEMMA EmbedTogetherKeeps ==
    ASSUME IndexingInv, EmbedTogether
    PROVE  IndexingInv'
<1>1. PICK n \in Nat : n = Len(chunks) /\ DOMAIN chunks = 1 .. n
      BY SeqIs DEF IndexingInv
<1>2. /\ Embedding /\ pc = "embed" /\ pc' = "embed" /\ failed' = failed /\ chunks' = chunks
      BY DEF EmbedTogether, Embedding
<1>3. next \in 1 .. n /\ next \in Nat
      BY <1>1 DEF IndexingInv, Progress, EmbedTogether
<1>4. PICK last : last = Min({next + EmbedBatch - 1, n})
      OBVIOUS
<1>5. last \in next .. n
      <2>1. PICK e \in Nat : e = next + EmbedBatch - 1 /\ e >= next
            BY <1>3, BatchesAssumption
      <2>2. last = IF e <= n THEN e ELSE n
            BY <1>4, <2>1, PairMin
      <2> QED BY <1>3, <2>1, <2>2
<1>6. points' = points \cup {PointOf(i) : i \in next .. last} /\ next' = last + 1
      BY <1>1, <1>4 DEF EmbedTogether
<1>7. ASSUME NEW i \in 1 .. next' - 1
      PROVE  chunks'[i].record \in failed' \/ \E p \in points' : p.chunk = chunks'[i]
      <2>1. i \in 1 .. next - 1 \/ i \in next .. last
            BY <1>3, <1>5, <1>6
      <2>2. CASE i \in 1 .. next - 1
            BY <1>2, <1>6, <2>2 DEF IndexingInv, Progress
      <2>3. CASE i \in next .. last
            <3>1. PointOf(i) \in points' /\ PointOf(i).chunk = chunks[i]
                  BY <1>6, <2>3, PointIs
            <3> QED BY <1>2, <3>1
      <2> QED BY <2>1, <2>2, <2>3
<1>8. next' \in 1 .. Len(chunks') + 1
      BY <1>1, <1>2, <1>3, <1>5, <1>6
<1>9. Progress'
      BY <1>2, <1>7, <1>8 DEF Progress
<1>10. \A p \in points' : p.context \in {Plain, Context(p.chunk)}
       <2>1. \A p \in points : p.context \in {Plain, Context(p.chunk)}
             BY DEF IndexingInv, ContextsKept
       <2> QED BY <1>6, <2>1, PointIs
<1> QED BY <1>2, <1>9, <1>10, EmbeddingKeeps

LEMMA BatchRejectedKeeps ==
    ASSUME IndexingInv, BatchRejected
    PROVE  IndexingInv'
<1>1. /\ Embedding /\ pc = "embed" /\ pc' = "single" /\ chunks' = chunks /\ next <= Len(chunks)
      /\ next' = next /\ points' = points /\ failed' = failed
      BY DEF BatchRejected, Embedding, embedVars
<1>2. Progress'
      BY <1>1 DEF IndexingInv, Progress
<1>3. \A p \in points' : p.context \in {Plain, Context(p.chunk)}
      BY <1>1 DEF IndexingInv, ContextsKept
<1> QED BY <1>1, <1>2, <1>3, EmbeddingKeeps

(* A chunk that is embedded or has failed by itself. *)
LEMMA OneKeeps ==
    ASSUME IndexingInv, EmbedsSingly, Advance, Embedding,
           points \subseteq points', failed \subseteq failed',
           chunks[next].record \in failed' \/ \E p \in points' : p.chunk = chunks[next],
           \A p \in points' : p \in points \/ p = PointOf(next)
    PROVE  IndexingInv'
<1>1. PICK n \in Nat : n = Len(chunks) /\ DOMAIN chunks = 1 .. n
      BY SeqIs DEF IndexingInv
<1>2. next \in 1 .. n /\ next \in Nat
      BY <1>1 DEF IndexingInv, Progress, EmbedsSingly
<1>3. chunks' = chunks /\ next' = next + 1
      BY DEF Embedding, Advance
<1>4. pc \in {"embed", "single"}
      BY DEF EmbedsSingly
<1>5. pc' \in {"embed", "single"} /\ (pc' = "single" => next # n)
      BY <1>1, <1>4 DEF Advance
<1>6. ASSUME NEW i \in 1 .. next' - 1
      PROVE  chunks'[i].record \in failed' \/ \E p \in points' : p.chunk = chunks'[i]
      <2>1. i \in 1 .. next - 1 \/ i = next
            BY <1>2, <1>3
      <2>2. CASE i \in 1 .. next - 1
            <3>1. chunks[i].record \in failed \/ \E p \in points : p.chunk = chunks[i]
                  BY <2>2 DEF IndexingInv, Progress
            <3> QED BY <1>3, <3>1
      <2>3. CASE i = next
            BY <1>3, <2>3
      <2> QED BY <2>1, <2>2, <2>3
<1>7. next' \in 1 .. Len(chunks') + 1 /\ (pc' = "single" => next' <= Len(chunks'))
      BY <1>1, <1>2, <1>3, <1>5
<1>8. Progress'
      BY <1>6, <1>7 DEF Progress
<1>9. \A p \in points' : p.context \in {Plain, Context(p.chunk)}
      <2>1. \A p \in points : p.context \in {Plain, Context(p.chunk)}
            BY DEF IndexingInv, ContextsKept
      <2> QED BY <2>1, PointIs
<1> QED BY <1>4, <1>5, <1>8, <1>9, EmbeddingKeeps

LEMMA EmbedOneKeeps ==
    ASSUME IndexingInv, EmbedOne
    PROVE  IndexingInv'
<1>1. EmbedsSingly /\ Advance /\ Embedding /\ points' = points \cup {PointOf(next)} /\ failed' = failed
      BY DEF EmbedOne
<1>2. PointOf(next) \in points' /\ PointOf(next).chunk = chunks[next]
      BY <1>1, PointIs
<1> QED BY <1>1, <1>2, OneKeeps

LEMMA OneRejectedKeeps ==
    ASSUME IndexingInv, OneRejected
    PROVE  IndexingInv'
<1>1. EmbedsSingly /\ Advance /\ Embedding /\ points' = points /\ failed' = failed \cup {chunks[next].record}
      BY DEF OneRejected
<1> QED BY <1>1, OneKeeps

LEMMA ActivateKeeps ==
    ASSUME IndexingInv, Activate
    PROVE  IndexingInv'
<1>1. /\ Return /\ setup' = setup /\ edition' = edition /\ cache' = cache /\ AllEmbedded
      /\ active' = [loaded |-> loaded, points |-> points, failed |-> failed]
      BY DEF Activate
<1>2. PICK n \in Nat : n = Len(chunks) /\ DOMAIN chunks = 1 .. n
      BY SeqIs DEF IndexingInv
<1>3. next = n + 1 /\ pc = "embed"
      BY <1>1, <1>2 DEF IndexingInv, Progress, AllEmbedded
<1>4. IsEdition(loaded)
      BY <1>3 DEF IndexingInv, Chunked
<1>5. \A i \in 1 .. n : chunks[i].record \in failed \/ \E p \in points : p.chunk = chunks[i]
      BY <1>3 DEF IndexingInv, Progress
<1>6. ASSUME NEW r \in DOMAIN loaded \ failed, NEW x \in LettersOf(setup.versions[r][loaded[r]])
      PROVE  x \in UNION {Letters(p.chunk.text) : p \in {q \in points : q.chunk.record = r}}
      <2>1. r \in DOMAIN setup.versions
            BY <1>4 DEF IsEdition
      <2>2. PICK i \in DOMAIN chunks : chunks[i].record = r /\ x \in Letters(chunks[i].text)
            BY <1>3, <2>1 DEF IndexingInv, Chunked
      <2>3. PICK p \in points : p.chunk = chunks[i]
            BY <1>2, <1>5, <2>2
      <2> QED BY <2>2, <2>3
<1>7. NothingLost'
      BY <1>1, <1>6 DEF NothingLost
<1>8. \A p \in active'.points : p.context \in {Plain, Context(p.chunk)}
      BY <1>1 DEF IndexingInv, ContextsKept
<1> QED BY <1>1, <1>7, <1>8, ReturnKeeps


LEMMA IndexingNextInv == IndexingInv /\ [IndexingNext]_indexingVars => IndexingInv'
<1> SUFFICES ASSUME IndexingInv, [IndexingNext]_indexingVars PROVE IndexingInv'
    OBVIOUS
<1>1. CASE UNCHANGED indexingVars
      <2>1. /\ setup' = setup /\ edition' = edition /\ cache' = cache /\ loaded' = loaded /\ chunks' = chunks
            /\ todo' = todo /\ batch' = batch /\ calls' = calls /\ results' = results /\ cacheable' = cacheable
            /\ next' = next /\ points' = points /\ failed' = failed /\ active' = active /\ pc' = pc
            BY <1>1 DEF indexingVars, buildVars, contextVars, embedVars
      <2>2. setup' \in Setups /\ IsEdition(edition)' /\ chunks' \in Seq(Chunk)
            BY <2>1 DEF IndexingInv, IsEdition
      <2>3. Unasked => Unasked'
            BY <2>1 DEF Unasked
      <2>4. Chunked'
            BY <2>1 DEF IndexingInv, Chunked, IsEdition
      <2>5. Progress'
            BY <2>1 DEF IndexingInv, Progress
      <2>6. NothingLost'
            BY <2>1 DEF IndexingInv, NothingLost
      <2>7. AskedOnce'
            BY <2>1 DEF IndexingInv, AskedOnce
      <2>8. ContextsKept'
            BY <2>1 DEF IndexingInv, ContextsKept
      <2> QED BY <2>1, <2>2, <2>3, <2>4, <2>5, <2>6, <2>7, <2>8 DEF IndexingInv
<1>2. ASSUME NEW filled \in SUBSET DOMAIN setup.versions, Enrich(filled) PROVE IndexingInv'
      BY <1>2, EnrichKeeps
<1>3. CASE BeginBuild
      BY <1>3, BeginBuildKeeps
<1>4. CASE LookUp
      BY <1>4, LookUpKeeps
<1>5. CASE NextBatch
      BY <1>5, NextBatchKeeps
<1>6. CASE Acquire
      BY <1>6, AcquireKeeps
<1>7. ASSUME NEW i \in DOMAIN calls, CallStep(i) PROVE IndexingInv'
      BY <1>7, CallReturnsKeeps, CallFailsKeeps, PausesKeep DEF CallStep
<1>8. ASSUME NEW saved \in BOOLEAN, SaveContexts(saved) PROVE IndexingInv'
      BY <1>8, SaveContextsKeeps
<1>9. CASE TimeLimit \/ NothingEmbedded \/ BuildFails
      BY <1>9, EndsKeep DEF TimeLimit, NothingEmbedded, BuildFails
<1>10. CASE EmbedTogether
       BY <1>10, EmbedTogetherKeeps
<1>11. CASE BatchRejected
       BY <1>11, BatchRejectedKeeps
<1>12. CASE EmbedOne
       BY <1>12, EmbedOneKeeps
<1>13. CASE OneRejected
       BY <1>13, OneRejectedKeeps
<1>14. CASE Activate
       BY <1>14, ActivateKeeps
<1> QED BY <1>1, <1>2, <1>3, <1>4, <1>5, <1>6, <1>7, <1>8, <1>9, <1>10, <1>11, <1>12, <1>13, <1>14
        DEF IndexingNext, BuildStep

LEMMA IndexingAlwaysInv == IndexingSpec => []IndexingInv
<1>1. IndexingInit => IndexingInv
      BY IndexingInitInv
<1>2. IndexingInv /\ [IndexingNext]_indexingVars => IndexingInv'
      BY IndexingNextInv
<1> QED BY <1>1, <1>2, PTL DEF IndexingSpec

-----------------------------------------------------------------------------
(* Cutting a text that is too long, at separators, by width or both, and     *)
(* repeating the ends of parts, loses no letter of it and makes no part      *)
(* longer than the limit, whatever the text, the limit and the overlap are   *)
(* (_split_text and what it calls).                                          *)
THEOREM TextsAreSplit ==
    ASSUME NEW t \in Strings, NEW max \in Nat \ {0}
    PROVE  /\ \A i \in DOMAIN SplitText(t, max) : Len(SplitText(t, max)[i]) <= max
           /\ Letters(t) \subseteq UNION {Letters(SplitText(t, max)[i]) : i \in DOMAIN SplitText(t, max)}
<1>1. PICK r : r = SplitText(t, max)
      OBVIOUS
<1>2. r \in Seq(Fits(max)) /\ Letters(t) \subseteq LettersIn(r)
      BY <1>1, SplitTextIs
<1>3. \A i \in DOMAIN r : r[i] \in Fits(max)
      BY <1>2, SeqIs
<1> QED BY <1>1, <1>2, <1>3 DEF Fits, LettersIn

(* The chunks of any record, of any type, prefix and sections, fit, and what *)
(* the record says can be found in them (build_chunks, _split_with_prefix).  *)
THEOREM RecordsAreCut ==
    ASSUME NEW doc \in Document
    PROVE  /\ \A i \in DOMAIN ChunkTexts(doc) : Len(ChunkTexts(doc)[i]) <= MaxChars
           /\ LettersOf(doc) \subseteq UNION {Letters(ChunkTexts(doc)[i]) : i \in DOMAIN ChunkTexts(doc)}
<1>1. PICK r : r = ChunkTexts(doc)
      OBVIOUS
<1>2. r \in Seq(Fits(MaxChars)) /\ LettersOf(doc) \subseteq LettersIn(r)
      BY <1>1, ChunkTextsIs
<1>3. \A i \in DOMAIN r : r[i] \in Fits(MaxChars)
      BY <1>2, SeqIs
<1> QED BY <1>1, <1>2, <1>3 DEF Fits, LettersIn

(* No chunk that a build makes is longer than MAX_CHUNK_CHARS                *)
(* (build_chunks, _split_text, _apply_chunk_overlap).                        *)
THEOREM ChunksAlwaysFit == IndexingSpec => []ChunksFit
<1>1. ASSUME IndexingInv PROVE ChunksFit
      <2>1. \A i \in DOMAIN chunks : chunks[i] \in Chunk
            BY <1>1, SeqIs DEF IndexingInv
      <2> QED BY <2>1 DEF ChunksFit, Chunk, Fits
<1> QED BY <1>1, IndexingAlwaysInv, PTL

(* An activated generation holds every letter of every record that was       *)
(* loaded, except for the records it lists as failed                         *)
(* (build_and_activate, phases 2 to 5).                                      *)
THEOREM NothingIsLost == IndexingSpec => []NothingLost
<1>1. IndexingInv => NothingLost
      BY DEF IndexingInv
<1> QED BY <1>1, IndexingAlwaysInv, PTL

(* A context stands before the text it was written for, and what stands in   *)
(* for a missing one is not cached (_cache_key, contextualize).              *)
THEOREM ContextsAlwaysBelong == IndexingSpec => []ContextsBelong
<1>1. ASSUME IndexingInv PROVE ContextsBelong
      <2>1. \A p \in points \cup active.points : p.context = Plain \/ p.context.of = p.chunk
            BY <1>1 DEF IndexingInv, ContextsKept, Context
      <2>2. \A k \in DOMAIN cache : cache[k] # Plain
            <3> TAKE k \in DOMAIN cache
            <3>1. cache[k] = Context(cache[k].of)
                  BY <1>1 DEF IndexingInv, ContextsKept
            <3>2. cache[k].plain = FALSE
                  BY <3>1 DEF Context
            <3>3. Plain.plain = TRUE
                  BY DEF Plain
            <3> QED BY <3>2, <3>3
      <2> QED BY <2>1, <2>2 DEF ContextsBelong
<1> QED BY <1>1, IndexingAlwaysInv, PTL

(* A chunk that waits for its context waits in one place, has no call under  *)
(* way and has not been answered: but for its own retries the model is not   *)
(* asked twice, and no late answer replaces a context that will be cached    *)
(* (contextualize, _process_groups_async).                                   *)
THEOREM ContextsAreAskedForOnce ==
    IndexingSpec => [](\A l \in DOMAIN batch : /\ batch[l] \notin DOMAIN calls \cup cacheable
                                               /\ \A m \in DOMAIN batch : batch[l] = batch[m] => l = m)
<1> DEFINE Once == \A l \in DOMAIN batch : /\ batch[l] \notin DOMAIN calls \cup cacheable
                                           /\ \A m \in DOMAIN batch : batch[l] = batch[m] => l = m
<1>1. IndexingInv => Once
      BY DEF IndexingInv, AskedOnce, Differ
<1> HIDE DEF Once
<1>2. IndexingSpec => []Once
      BY <1>1, IndexingAlwaysInv, PTL
<1> QED BY <1>2 DEF Once

=============================================================================
