------------------------------- MODULE Folding -------------------------------
(***************************************************************************)
(* Facts about what is computed from a sequence one element at a time      *)
(* (SequencesExt's FoldLeft), for any step and any start.  They are proved *)
(* from the least element of a set of numbers, as the definition of a fold *)
(* is recursive over the subsets of the sequence's domain.  A module that  *)
(* folds instantiates this one with its own step.                          *)
(***************************************************************************)
EXTENDS Integers, Sequences, WellFoundedInduction, TLAPS

CONSTANT Step(_, _) \* from what was computed and the next element

\* FiniteSetsExt's Max.
Greatest(S) == CHOOSE x \in S : \A y \in S : x >= y

\* SequencesExt's FoldLeft(Step, start, s), with what it is made of written out.
Folded(start, s) ==
  LET iter[t \in SUBSET (DOMAIN s)] ==
        IF t = {} THEN start ELSE Step(iter[t \ {Greatest(t)}], s[Greatest(t)])
  IN  iter[DOMAIN s]

-----------------------------------------------------------------------------
(* Least elements, and greatest ones. *)

LEMMA LessIsWellFounded ==
  \E R : IsWellFoundedOn(R, Nat) /\ \A m, n \in Nat : m < n => <<m, n>> \in R
<1>1. \A m, n \in Nat : m < n => <<m, n>> \in OpToRel(<, Nat)
  BY DEF OpToRel
<1> QED
  BY <1>1, NatLessThanWellFounded, Zenon

LEMMA LeastElement ==
  ASSUME NEW T, T \subseteq Nat, T # {}
  PROVE  \E n \in T : \A m \in T : n <= m
<1>1. PICK R : IsWellFoundedOn(R, Nat) /\ \A m, n \in Nat : m < n => <<m, n>> \in R
  BY LessIsWellFounded
<1>2. IsWellFoundedOn(R, Nat)
  BY <1>1
<1>3. PICK n \in T : \A m \in T : ~ (<<m, n>> \in R)
  BY <1>2, WFMin
<1>4. \A m \in T : ~ (m < n)
  BY <1>1, <1>3
<1>5. \A m \in T : m \in Nat /\ n \in Nat
  OBVIOUS
<1> QED
  BY <1>4, <1>5

LEMMA GreatestIs ==
  ASSUME NEW S, S \subseteq Nat, NEW n \in S, \A m \in S : m <= n
  PROVE  Greatest(S) = n
<1>1. \E x \in S : \A y \in S : x >= y
  OBVIOUS
<1>2. Greatest(S) \in S /\ \A y \in S : Greatest(S) >= y
  BY <1>1, Zenon DEF Greatest
<1>3. Greatest(S) \in Nat /\ n \in Nat /\ Greatest(S) <= n /\ Greatest(S) >= n
  BY <1>2
<1> QED
  BY <1>3

LEMMA GreatestAmong ==
  ASSUME NEW k \in Nat, NEW t, t \subseteq 1 .. k, t # {}
  PROVE  Greatest(t) \in t /\ \A m \in t : m <= Greatest(t)
<1> DEFINE U == {n \in Nat : \A m \in t : m <= n}
<1>1. U \subseteq Nat /\ U # {}
  <2>1. k \in U
    OBVIOUS
  <2> QED
    BY <2>1
<1>2. PICK n \in U : \A m \in U : n <= m
  BY <1>1, LeastElement
<1>3. n \in t
  <2>1. SUFFICES ASSUME n \notin t PROVE FALSE
    OBVIOUS
  <2>2. \A m \in t : m <= n - 1 /\ m >= 1
    BY <2>1
  <2>3. n - 1 \in Nat
    <3>1. PICK m \in t : TRUE
      OBVIOUS
    <3>2. m \in Nat /\ m >= 1 /\ m <= n - 1 /\ n \in Nat
      BY <2>2
    <3> QED
      BY <3>2
  <2>4. n - 1 \in U
    BY <2>2, <2>3
  <2> QED
    BY <1>2, <2>3, <2>4
<1>4. t \subseteq Nat /\ \A m \in t : m <= n
  OBVIOUS
<1>5. Greatest(t) = n
  BY <1>3, <1>4, GreatestIs
<1> QED
  BY <1>3, <1>4, <1>5

-----------------------------------------------------------------------------
(* What a fold is. *)

\* h has the values of the fold of s on the sets of the first k positions.
Fold(start, s, h, k) ==
  h = [t \in SUBSET (1 .. k) |-> IF t = {} THEN start ELSE Step(h[t \ {Greatest(t)}], s[Greatest(t)])]

LEMMA FoldExtends ==
  ASSUME NEW start, NEW s, NEW k \in Nat, NEW h, Fold(start, s, h, k)
  PROVE  \E g : Fold(start, s, g, k + 1) /\ g[1 .. k + 1] = Step(h[1 .. k], s[k + 1])
<1> DEFINE g == [t \in SUBSET (1 .. k + 1) |->
                   IF k + 1 \in t THEN Step(h[t \ {k + 1}], s[k + 1]) ELSE h[t]]
<1>1. ASSUME NEW t \in SUBSET (1 .. k + 1)
      PROVE  g[t] = IF t = {} THEN start ELSE Step(g[t \ {Greatest(t)}], s[Greatest(t)])
  <2>1. CASE k + 1 \in t
    <3>1. Greatest(t) = k + 1
      <4>1. t \subseteq Nat /\ \A m \in t : m <= k + 1
        OBVIOUS
      <4> QED
        BY <2>1, <4>1, GreatestIs
    <3>2. g[t \ {k + 1}] = h[t \ {k + 1}]
      OBVIOUS
    <3> QED
      BY <2>1, <3>1, <3>2
  <2>2. CASE k + 1 \notin t
    <3>1. t \in SUBSET (1 .. k)
      BY <2>2
    <3>2. h[t] = IF t = {} THEN start ELSE Step(h[t \ {Greatest(t)}], s[Greatest(t)])
      BY <3>1 DEF Fold
    <3>3. g[t] = h[t] /\ g[t \ {Greatest(t)}] = h[t \ {Greatest(t)}]
      BY <2>2
    <3> QED
      BY <3>2, <3>3
  <2> QED
    BY <2>1, <2>2
<1>2. g = [t \in SUBSET (1 .. k + 1) |-> g[t]]
  OBVIOUS
<1>3. Fold(start, s, g, k + 1)
  <2> HIDE DEF g
  <2> QED
    BY <1>1, <1>2 DEF Fold
<1>4. g[1 .. k + 1] = Step(h[1 .. k], s[k + 1])
  <2>1. k + 1 \in 1 .. k + 1 /\ (1 .. k + 1) \ {k + 1} = 1 .. k
    OBVIOUS
  <2> QED
    BY <2>1
<1> QED
  BY <1>3, <1>4

LEMMA FoldExists == ASSUME NEW start, NEW s PROVE \A k \in Nat : \E h : Fold(start, s, h, k)
<1> DEFINE T == {k \in Nat : ~ \E h : Fold(start, s, h, k)}
<1> SUFFICES ASSUME T # {} PROVE FALSE
  OBVIOUS
<1>1. PICK k \in T : \A m \in T : k <= m
  BY LeastElement
<1>2. k # 0
  <2>1. Fold(start, s, [t \in {{}} |-> start], 0)
    <3>1. 1 .. 0 = {}
      OBVIOUS
    <3>2. SUBSET (1 .. 0) = {{}}
      BY <3>1
    <3> QED
      BY <3>2, Zenon DEF Fold
  <2> QED
    BY <2>1
<1>3. k - 1 \in Nat /\ k - 1 \notin T /\ (k - 1) + 1 = k
  BY <1>1, <1>2
<1>4. PICK h : Fold(start, s, h, k - 1)
  BY <1>3
<1>5. \E g : Fold(start, s, g, (k - 1) + 1)
  BY <1>3, <1>4, FoldExtends
<1> QED
  BY <1>3, <1>5

LEMMA FoldIsOne ==
  ASSUME NEW start, NEW s, NEW r, NEW k \in Nat, NEW l \in Nat, k <= l, \A i \in 1 .. k : r[i] = s[i],
         NEW h, Fold(start, s, h, k), NEW g, Fold(start, r, g, l)
  PROVE  \A t \in SUBSET (1 .. k) : g[t] = h[t]
<1> DEFINE T == {j \in Nat : j <= k /\ \E t \in SUBSET (1 .. j) : g[t] # h[t]}
<1> SUFFICES ASSUME T # {} PROVE FALSE
  OBVIOUS
<1>1. PICK j \in T : \A m \in T : j <= m
  BY LeastElement
<1>2. PICK t \in SUBSET (1 .. j) : g[t] # h[t]
  OBVIOUS
<1>3. t \in SUBSET (1 .. k) /\ t \in SUBSET (1 .. l)
  OBVIOUS
<1>4. /\ h[t] = IF t = {} THEN start ELSE Step(h[t \ {Greatest(t)}], s[Greatest(t)])
      /\ g[t] = IF t = {} THEN start ELSE Step(g[t \ {Greatest(t)}], r[Greatest(t)])
  BY <1>3 DEF Fold
<1>5. t # {}
  BY <1>2, <1>4
<1>6. Greatest(t) \in t /\ \A m \in t : m <= Greatest(t)
  BY <1>5, GreatestAmong
<1>7. j - 1 \in Nat /\ t \ {Greatest(t)} \in SUBSET (1 .. j - 1)
  <2>0. j \in Nat
    OBVIOUS
  <2>1. Greatest(t) \in Nat /\ 1 <= Greatest(t) /\ Greatest(t) <= j
    <3>1. Greatest(t) \in 1 .. j
      BY <1>2, <1>6
    <3> QED
      BY ONLY <2>0, <3>1
  <2>2. \A m \in t : m \in Nat /\ 1 <= m /\ m <= Greatest(t)
    BY <1>6
  <2>3. ASSUME NEW m \in t \ {Greatest(t)} PROVE m \in 1 .. j - 1
    <3>1. m \in Nat /\ 1 <= m /\ m <= Greatest(t) /\ m # Greatest(t)
      BY <2>2
    <3> QED
      BY ONLY <2>0, <2>1, <3>1
  <2>4. j - 1 \in Nat
    BY ONLY <2>0, <2>1
  <2> QED
    BY <2>3, <2>4
<1>8. g[t \ {Greatest(t)}] = h[t \ {Greatest(t)}]
  <2>1. j \in Nat /\ j - 1 \notin T
    <3>1. j \in Nat /\ \A m \in T : j <= m
      BY <1>1
    <3> HIDE DEF T
    <3> QED
      BY ONLY <3>1
  <2>2. j - 1 <= k
    OBVIOUS
  <2>3. ~ \E u \in SUBSET (1 .. j - 1) : g[u] # h[u]
    BY ONLY <1>7, <2>1, <2>2
  <2> QED
    BY ONLY <1>7, <2>3
<1>9. r[Greatest(t)] = s[Greatest(t)]
  BY <1>3, <1>6
<1> QED
  BY <1>2, <1>4, <1>5, <1>8, <1>9

LEMMA FoldIs ==
  ASSUME NEW start, NEW S, NEW s \in Seq(S), NEW h, Fold(start, s, h, Len(s))
  PROVE  Folded(start, s) = h[1 .. Len(s)]
<1> DEFINE k == Len(s)
<1>1. k \in Nat /\ DOMAIN s = 1 .. k
  OBVIOUS
<1> DEFINE g == CHOOSE f : Fold(start, s, f, k)
<1>2. Fold(start, s, g, k)
  OBVIOUS
<1>3. Folded(start, s) = g[1 .. k]
  <2>1. Folded(start, s) =
          LET iter[t \in SUBSET (DOMAIN s)] ==
                IF t = {} THEN start ELSE Step(iter[t \ {Greatest(t)}], s[Greatest(t)])
          IN  iter[DOMAIN s]
    BY DEF Folded
  <2> QED
    BY <1>1, <2>1 DEF Fold
<1> HIDE DEF g, k
<1>4. \A t \in SUBSET (1 .. k) : g[t] = h[t]
  <2>1. k \in Nat /\ k <= k /\ (\A i \in 1 .. k : s[i] = s[i]) /\ Fold(start, s, h, k)
    BY <1>1 DEF k
  <2> QED
    BY ONLY <1>2, <2>1, FoldIsOne
<1> QED
  BY <1>3, <1>4 DEF k

-----------------------------------------------------------------------------
(* The rules of folding. *)

LEMMA FoldEmpty == ASSUME NEW start PROVE Folded(start, << >>) = start
<1>1. PICK h : Fold(start, << >>, h, 0)
  BY FoldExists
<1>2. << >> \in Seq({}) /\ Len(<< >>) = 0 /\ 1 .. 0 = {}
  OBVIOUS
<1>3. Folded(start, << >>) = h[1 .. 0]
  BY <1>1, <1>2, FoldIs
<1>4. h[{}] = start
  BY <1>1, <1>2 DEF Fold
<1> QED
  BY <1>2, <1>3, <1>4

LEMMA FoldAppend ==
  ASSUME NEW start, NEW S, NEW s \in Seq(S), NEW x \in S
  PROVE  Folded(start, Append(s, x)) = Step(Folded(start, s), x)
<1> DEFINE k == Len(s)
           r == Append(s, x)
<1>1. /\ k \in Nat /\ r \in Seq(S) /\ Len(r) = k + 1 /\ r[k + 1] = x
      /\ \A i \in 1 .. k : r[i] = s[i]
  OBVIOUS
<1> HIDE DEF k, r
<1>2. PICK h : Fold(start, r, h, k)
  BY <1>1, FoldExists
<1>3. PICK g : Fold(start, r, g, k + 1) /\ g[1 .. k + 1] = Step(h[1 .. k], r[k + 1])
  BY <1>1, <1>2, FoldExtends
<1>4. Folded(start, r) = g[1 .. k + 1]
  BY <1>1, <1>3, FoldIs
<1>5. PICK f : Fold(start, s, f, k)
  BY <1>1, FoldExists
<1>6. Folded(start, s) = f[1 .. k]
  BY <1>5, FoldIs DEF k
<1>7. h[1 .. k] = f[1 .. k]
  <2>1. k <= k /\ \A i \in 1 .. k : r[i] = s[i]
    BY <1>1
  <2>2. \A t \in SUBSET (1 .. k) : h[t] = f[t]
    BY ONLY <1>1, <2>1, <1>2, <1>5, FoldIsOne
  <2> QED
    BY <2>2
<1> QED
  BY <1>1, <1>3, <1>4, <1>6, <1>7 DEF r

\* What holds of nothing, and stays with one element more, holds of all sequences.
LEMMA SequencesGrow ==
  ASSUME NEW S, NEW G, << >> \in G, \A s \in Seq(S), x \in S : s \in G => Append(s, x) \in G
  PROVE  Seq(S) \subseteq G
<1> DEFINE B == {n \in Nat : \E s \in Seq(S) : Len(s) = n /\ s \notin G}
<1> SUFFICES ASSUME B # {} PROVE FALSE
  OBVIOUS
<1>1. PICK n \in B : \A m \in B : n <= m
  BY LeastElement
<1>2. PICK s \in Seq(S) : Len(s) = n /\ s \notin G
  OBVIOUS
<1>3. CASE n = 0
  <2>1. s = << >>
    BY <1>2, <1>3
  <2> QED
    BY <1>2, <2>1
<1>4. CASE n # 0
  <2> DEFINE q == SubSeq(s, 1, n - 1)
  <2>1. q \in Seq(S) /\ Len(q) = n - 1 /\ s[n] \in S /\ n - 1 \in Nat /\ s = Append(q, s[n])
    BY <1>2, <1>4
  <2> HIDE DEF q
  <2>2. q \in G
    BY <1>1, <2>1
  <2> QED
    BY <1>2, <2>1, <2>2
<1> QED
  BY <1>3, <1>4

\* What every step keeps holds of the whole.
LEMMA FoldKeeps ==
  ASSUME NEW start, NEW S, NEW T, start \in T, \A v \in T, x \in S : Step(v, x) \in T
  PROVE  \A s \in Seq(S) : Folded(start, s) \in T
<1> DEFINE G == {s \in Seq(S) : Folded(start, s) \in T}
<1>1. << >> \in Seq(S) /\ Folded(start, << >>) \in T
  BY FoldEmpty
<1>2. \A s \in Seq(S), x \in S : Append(s, x) \in Seq(S)
  OBVIOUS
<1>3. ASSUME NEW s \in Seq(S), NEW x \in S, s \in G PROVE Append(s, x) \in G
  BY <1>2, <1>3, FoldAppend
<1> HIDE DEF G
<1>4. << >> \in G
  BY <1>1 DEF G
<1>5. Seq(S) \subseteq G
  BY <1>3, <1>4, SequencesGrow
<1> QED
  BY <1>5 DEF G
=============================================================================
