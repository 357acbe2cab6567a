---------------------------- MODULE PromptsProofs ----------------------------
(***************************************************************************)
(* Theorems, for any constants, about what is put into a prompt: the rival *)
(* contracts as they are read out of a mail and shown, and the templates   *)
(* and what they expand to.                                                *)
(***************************************************************************)
EXTENDS RivalContract, Prompts, FiniteSetTheorems, TLAPS

\* One more token at the end of a text.
LEMMA TokenAdded == ASSUME NEW V, NEW s \in Seq(V), NEW x \in V
  PROVE  /\ Append(s, x) \in Seq(V)
         /\ Len(s) \in Nat /\ Len(Append(s, x)) = Len(s) + 1
         /\ DOMAIN s = 1 .. Len(s) /\ DOMAIN Append(s, x) = 1 .. Len(s) + 1
         /\ Append(s, x)[Len(s) + 1] = x
         /\ \A i \in 1 .. Len(s) : Append(s, x)[i] = s[i]
  OBVIOUS

\* The empty text.
LEMMA EmptyText == ASSUME NEW T PROVE << >> \in Seq(T) /\ Len(<< >>) = 0 /\ DOMAIN << >> = {}
  OBVIOUS

\* A text with a bound grows by one below it.
LEMMA TextGrows ==
  ASSUME NEW T, NEW s \in Seq(T), NEW x \in T, NEW n \in Nat, Len(s) < n
  PROVE  Append(s, x) \in Seq(T) /\ Len(Append(s, x)) <= n
  BY TokenAdded

(***************************************************************************)
(* Rival contracts.                                                        *)
(***************************************************************************)

Unrepeated == INSTANCE Folding WITH Step <- DedupeLine
Splitting == INSTANCE Folding WITH Step <- TakeLine
Itemised == INSTANCE Folding WITH Step <- KeepItem


Solid(lines) == {line \in lines : ~Blank(line)}

\* The places of a sequence that was cut out of another.
LEMMA PartIs ==
  ASSUME NEW V, NEW s \in Seq(V), NEW a \in 1 .. Len(s), NEW z \in a .. Len(s)
  PROVE  /\ SubSeq(s, a, z) \in Seq(V) /\ DOMAIN SubSeq(s, a, z) = 1 .. z - a + 1
         /\ \A i \in 1 .. z - a + 1 : SubSeq(s, a, z)[i] = s[a + i - 1] /\ a + i - 1 \in DOMAIN s
  OBVIOUS

LEMMA EndsOf ==
  ASSUME NEW n \in Nat, NEW T, T \subseteq 1 .. n, T # {}
  PROVE  /\ (CHOOSE i \in T : \A j \in T : i <= j) \in T
         /\ \A j \in T : (CHOOSE i \in T : \A k \in T : i <= k) <= j
         /\ (CHOOSE i \in T : \A j \in T : j <= i) \in T
         /\ \A j \in T : j <= CHOOSE i \in T : \A k \in T : k <= i
<1>1. \E i \in T : \A j \in T : i <= j
  <2>1. T \subseteq Nat
    OBVIOUS
  <2> QED
    BY <2>1, Unrepeated!LeastElement
<1>2. Unrepeated!Greatest(T) \in T /\ \A m \in T : m <= Unrepeated!Greatest(T)
  BY Unrepeated!GreatestAmong
<1> QED
  BY <1>1, <1>2, Zenon

\* Trimming takes blank lines away, from the ends.
LEMMA TrimmedKeeps ==
  ASSUME NEW V, NEW s \in Seq(V)
  PROVE  /\ Trimmed(s) \in Seq(V) /\ Solid(ToSet(Trimmed(s))) = Solid(ToSet(s))
         /\ \E a \in Nat : \A i \in DOMAIN Trimmed(s) : a + i \in DOMAIN s /\ Trimmed(s)[i] = s[a + i]
<1> DEFINE T == {i \in DOMAIN s : ~Blank(s[i])}
           a == CHOOSE i \in T : \A j \in T : i <= j
           z == CHOOSE i \in T : \A j \in T : j <= i
           r == Trimmed(s)
<1>1. DOMAIN s = 1 .. Len(s) /\ Len(s) \in Nat
  OBVIOUS
<1>2. CASE T = {}
  <2>1. r = << >>
    BY <1>2 DEF Trimmed
  <2>2. \A i \in DOMAIN s : Blank(s[i])
    BY <1>2
  <2>3. DOMAIN << >> = {} /\ << >> \in Seq(V)
    BY EmptyText
  <2> QED
    BY <2>1, <2>2, <2>3 DEF Solid, ToSet
<1>3. CASE T # {}
  <2>1. r = SubSeq(s, a, z)
    BY <1>3 DEF Trimmed
  <2>2. a \in T /\ z \in T /\ \A j \in T : a <= j /\ j <= z
    <3>1. T \subseteq 1 .. Len(s)
      BY <1>1
    <3> HIDE DEF T
    <3> QED
      BY <1>1, <1>3, <3>1, EndsOf
  <2> HIDE DEF a, z, r
  <2>3. a \in 1 .. Len(s) /\ z \in a .. Len(s)
    BY <1>1, <2>2
  <2>4. /\ r \in Seq(V) /\ DOMAIN r = 1 .. z - a + 1
        /\ \A i \in 1 .. z - a + 1 : r[i] = s[a + i - 1] /\ a + i - 1 \in DOMAIN s
    BY <2>1, <2>3, PartIs
  <2>5. a - 1 \in Nat /\ \A i \in DOMAIN r : (a - 1) + i \in DOMAIN s /\ r[i] = s[(a - 1) + i]
    <3>1. \A i \in 1 .. z - a + 1 : (a - 1) + i = a + i - 1
      BY <2>3
    <3> QED
      BY <2>3, <2>4, <3>1
  <2>6. \A j \in T : j - a + 1 \in DOMAIN r /\ r[j - a + 1] = s[j]
    <3> TAKE j \in T
    <3>1. j \in Nat /\ a <= j /\ j <= z /\ a \in Nat /\ z \in Nat
      BY <1>1, <2>2, <2>3
    <3>2. j - a + 1 \in 1 .. z - a + 1 /\ a + (j - a + 1) - 1 = j
      BY <3>1
    <3> QED
      BY <2>4, <3>2
  <2>7. ToSet(r) \subseteq ToSet(s)
    BY <2>5 DEF ToSet
  <2>8. \A l \in ToSet(s) : ~Blank(l) => l \in ToSet(r)
    <3> TAKE l \in ToSet(s)
    <3>1. PICK j \in DOMAIN s : s[j] = l
      BY DEF ToSet
    <3> QED
      BY <2>6, <3>1 DEF ToSet
  <2> QED
    BY <2>4, <2>5, <2>7, <2>8 DEF Solid, r
<1> QED
  BY <1>2, <1>3

LEMMA ToSetAppend ==
  ASSUME NEW V, NEW s \in Seq(V), NEW x \in V
  PROVE  ToSet(Append(s, x)) = ToSet(s) \union {x}
<1>1. /\ DOMAIN s = 1 .. Len(s) /\ DOMAIN Append(s, x) = 1 .. Len(s) + 1 /\ Len(s) \in Nat
      /\ Append(s, x)[Len(s) + 1] = x /\ \A i \in 1 .. Len(s) : Append(s, x)[i] = s[i]
  BY TokenAdded
<1>2. 1 .. Len(s) + 1 = (1 .. Len(s)) \union {Len(s) + 1}
  BY <1>1
<1> QED
  BY <1>1, <1>2 DEF ToSet

\* Nothing but a blank line occurs twice.
NoTwice(s) == \A a, b \in DOMAIN s : s[a] = s[b] => a = b \/ Blank(s[a])

LEMMA LineTaken ==
  ASSUME NEW V, NEW s \in Seq(V), NEW x \in V, NoTwice(s)
  PROVE  /\ DedupeLine(s, x) \in Seq(V) /\ NoTwice(DedupeLine(s, x))
         /\ ToSet(DedupeLine(s, x)) = ToSet(s) \union {x}
<1> DEFINE n == Len(s)
           r == Append(s, x)
<1>1. CASE ~Blank(x) /\ x \in ToSet(s)
  BY <1>1 DEF DedupeLine
<1>2. CASE Blank(x) \/ x \notin ToSet(s)
  <2>1. DedupeLine(s, x) = r
    BY <1>2 DEF DedupeLine
  <2>2. /\ r \in Seq(V) /\ n \in Nat /\ DOMAIN s = 1 .. n /\ DOMAIN r = 1 .. n + 1
        /\ r[n + 1] = x /\ \A i \in 1 .. n : r[i] = s[i]
    BY TokenAdded
  <2>3. ToSet(r) = ToSet(s) \union {x}
    BY ToSetAppend
  <2> HIDE DEF r, n
  <2>4. \A i \in DOMAIN r : i = n + 1 \/ (i \in DOMAIN s /\ r[i] = s[i])
    BY <2>2
  <2>5. \A i \in DOMAIN s : s[i] = x => Blank(x)
    BY <1>2 DEF ToSet
  <2>6. NoTwice(r)
    BY <2>2, <2>4, <2>5 DEF NoTwice
  <2> QED
    BY <2>1, <2>2, <2>3, <2>6
<1> QED
  BY <1>1, <1>2

LEMMA LinesTaken ==
  ASSUME NEW V, NEW s \in Seq(V)
  PROVE  DedupeLines(s) \in Seq(V) /\ NoTwice(DedupeLines(s)) /\ ToSet(DedupeLines(s)) = ToSet(s)
<1> DEFINE P(r, q) == r \in Seq(V) /\ NoTwice(r) /\ ToSet(r) = ToSet(q)
           G == {q \in Seq(V) : P(Unrepeated!Folded(<< >>, q), q)}
<1>1. << >> \in G
  BY EmptyText, Unrepeated!FoldEmpty DEF NoTwice
<1>2. ASSUME NEW q \in Seq(V), NEW x \in V, q \in G PROVE Append(q, x) \in G
  <2>1. Unrepeated!Folded(<< >>, Append(q, x)) = DedupeLine(Unrepeated!Folded(<< >>, q), x)
    BY Unrepeated!FoldAppend
  <2>2. Append(q, x) \in Seq(V) /\ ToSet(Append(q, x)) = ToSet(q) \union {x}
    BY TokenAdded, ToSetAppend
  <2>3. P(Unrepeated!Folded(<< >>, q), q)
    BY <1>2
  <2>4. P(DedupeLine(Unrepeated!Folded(<< >>, q), x), Append(q, x))
    BY <2>2, <2>3, LineTaken
  <2> HIDE DEF P
  <2> QED
    BY <2>1, <2>2, <2>4
<1>3. DedupeLines(s) = Unrepeated!Folded(<< >>, s)
  BY DEF DedupeLines, FoldLeft, MapThenFoldSet, Max, Unrepeated!Folded, Unrepeated!Greatest
<1> HIDE DEF G, P
<1>4. s \in G
  BY <1>1, <1>2, Unrepeated!SequencesGrow
<1> QED
  BY <1>3, <1>4 DEF G, P

\* The evidence: the operator that is split off is the longest.
LEMMA SameLines ==
  ASSUME NEW V, NEW s \in Seq(V), NEW W, NEW t \in Seq(W), Len(s) = Len(t), \A i \in 1 .. Len(s) : s[i] = t[i]
  PROVE  s = t
  OBVIOUS

LEMMA PrefixOne ==
  ASSUME NEW V, NEW v \in Seq(V), NEW a
  PROVE  IsPrefix(<< a >>, v) <=> Len(v) >= 1 /\ v[1] = a
<1>1. << a >> \in Seq({a}) /\ Len(<< a >>) = 1 /\ << a >>[1] = a /\ Len(v) \in Nat
  OBVIOUS
<1> DEFINE s == << a >>
<1> HIDE DEF s
<1>2. s \in Seq({a}) /\ Len(s) = 1 /\ s[1] = a
  BY <1>1 DEF s
<1>3. SubSeq(s, 1, 1) \in Seq({a}) /\ Len(SubSeq(s, 1, 1)) = 1 /\ SubSeq(s, 1, 1)[1] = a
  BY <1>2
<1>4. ASSUME Len(v) >= 1
      PROVE  SubSeq(v, 1, 1) \in Seq(V) /\ Len(SubSeq(v, 1, 1)) = 1 /\ SubSeq(v, 1, 1)[1] = v[1]
  BY <1>1, <1>4
<1>5. ASSUME Len(v) >= 1, v[1] = a PROVE SubSeq(s, 1, 1) = SubSeq(v, 1, 1)
  BY <1>3, <1>4, <1>5, SameLines
<1>6. ASSUME Len(v) >= 1, SubSeq(s, 1, 1) = SubSeq(v, 1, 1) PROVE v[1] = a
  BY <1>3, <1>4, <1>6
<1> QED
  BY <1>1, <1>2, <1>5, <1>6 DEF IsPrefix, s

LEMMA PrefixTwo ==
  ASSUME NEW V, NEW v \in Seq(V), NEW a, NEW b, Len(v) >= 2, v[1] = a, v[2] = b
  PROVE  IsPrefix(<< a, b >>, v)
<1> DEFINE s == << a, b >>
<1>1. s \in Seq({a, b}) /\ Len(s) = 2 /\ s[1] = a /\ s[2] = b
  OBVIOUS
<1> HIDE DEF s
<1>2. /\ SubSeq(s, 1, 2) \in Seq({a, b}) /\ Len(SubSeq(s, 1, 2)) = 2
      /\ SubSeq(s, 1, 2)[1] = a /\ SubSeq(s, 1, 2)[2] = b
  BY <1>1
<1>3. /\ SubSeq(v, 1, 2) \in Seq(V) /\ Len(SubSeq(v, 1, 2)) = 2
      /\ SubSeq(v, 1, 2)[1] = a /\ SubSeq(v, 1, 2)[2] = b
  OBVIOUS
<1>4. 1 .. 2 = {1, 2}
  OBVIOUS
<1>5. SubSeq(s, 1, 2) = SubSeq(v, 1, 2)
  BY <1>2, <1>3, <1>4, SameLines
<1> QED
  BY <1>1, <1>5 DEF IsPrefix, s

LEMMA OperatorSplit ==
  ASSUME NEW V, NEW v \in Seq(V), NEW is, is = SplitOperator(v),
         is.operator \in {<< "<" >>, << ">" >>, << "=" >>}, is.value # << >>
  PROVE  Head(is.value) # "="
<1> DEFINE fits == {i \in DOMAIN Operators : IsPrefix(Operators[i], v)}
           k == CHOOSE i \in fits : \A j \in fits : i <= j
           op == IF fits = {} THEN << >> ELSE Operators[k]
<1>1. is.operator = op /\ is.value = SubSeq(v, Len(op) + 1, Len(v))
  BY DEF SplitOperator
<1>2. DOMAIN Operators = 1 .. 6
  BY DEF Operators
<1>3. fits # {}
  BY <1>1
<1>4. k \in fits /\ \A j \in fits : k <= j
  <2>1. fits \subseteq 1 .. 6
    BY <1>2
  <2> HIDE DEF fits
  <2> QED
    BY <1>3, <2>1, EndsOf
<1> HIDE DEF k, fits
<1>5. op = Operators[k] /\ k \in 1 .. 6
  BY <1>2, <1>3, <1>4 DEF fits
<1> HIDE DEF op
<1>6. Len(op) = 1 /\ op = << op[1] >> /\ op[1] \in {"<", ">", "="}
  BY <1>1
<1>7. IsPrefix(op, v)
  BY <1>4, <1>5 DEF fits
<1>8. Len(v) >= 1 /\ v[1] = op[1]
  BY <1>6, <1>7, PrefixOne
<1>9. Len(v) >= 2 /\ Head(is.value) = v[2]
  <2>1. is.value = SubSeq(v, 2, Len(v))
    BY <1>1, <1>6
  <2>2. Len(v) # 1
    BY <2>1
  <2>3. Len(v) >= 2
    BY <1>8, <2>2
  <2> QED
    BY <2>1, <2>3
<1>10. k >= 4
  <2>1. Len(Operators[1]) = 2 /\ Len(Operators[2]) = 2 /\ Len(Operators[3]) = 2
    BY DEF Operators
  <2>2. Len(Operators[k]) = 1
    BY <1>5, <1>6
  <2>3. k # 1 /\ k # 2 /\ k # 3
    BY ONLY <2>1, <2>2
  <2> QED
    BY <1>5, <2>3
<1>11. Operators[1] = << "<", "=" >> /\ Operators[2] = << ">", "=" >> /\ Operators[3] = << "=", "=" >>
  BY DEF Operators
<1>12. ASSUME v[2] = "=" PROVE FALSE
  <2>1. \E j \in 1 .. 3 : IsPrefix(Operators[j], v)
    <3>1. CASE op[1] = "<"
      <4>1. IsPrefix(<< "<", "=" >>, v)
        BY <1>8, <1>9, <1>12, <3>1, PrefixTwo
      <4> QED
        BY <1>11, <4>1
    <3>2. CASE op[1] = ">"
      <4>1. IsPrefix(<< ">", "=" >>, v)
        BY <1>8, <1>9, <1>12, <3>2, PrefixTwo
      <4> QED
        BY <1>11, <4>1
    <3>3. CASE op[1] = "="
      <4>1. IsPrefix(<< "=", "=" >>, v)
        BY <1>8, <1>9, <1>12, <3>3, PrefixTwo
      <4> QED
        BY <1>11, <4>1
    <3> QED
      BY <1>6, <3>1, <3>2, <3>3
  <2> QED
    BY <1>2, <1>4, <1>5, <1>10, <2>1 DEF fits
<1> QED
  BY <1>9, <1>12

EvidenceKeys == {"check", "test", "nfr.error_rate_percent"}

\* An item is what its bullet says, split.
ItemsOf(items, bullets) ==
  /\ items \in Seq([key : EvidenceKeys, is : {SplitOperator(b.value) : b \in CtBullet}])
  /\ Len(items) <= Len(bullets)

LEMMA EvidenceIs == \A q \in Seq(CtBullet) : ItemsOf(ParseEvidenceItems(q), q)
<1> DEFINE G == {q \in Seq(CtBullet) : ItemsOf(Itemised!Folded(<< >>, q), q)}
           W == {SplitOperator(b.value) : b \in CtBullet}
           V == [key : EvidenceKeys, is : W]
<1>1. << >> \in G
  <2>1. << >> \in Seq(V) /\ << >> \in Seq(CtBullet) /\ Len(<< >>) <= Len(<< >>)
    BY EmptyText
  <2> QED
    BY <2>1, Itemised!FoldEmpty DEF ItemsOf
<1>2. ASSUME NEW q \in Seq(CtBullet), NEW b \in CtBullet, q \in G PROVE Append(q, b) \in G
  <2> DEFINE r == Itemised!Folded(<< >>, q)
  <2>1. Itemised!Folded(<< >>, Append(q, b)) = KeepItem(r, b)
    BY Itemised!FoldAppend
  <2>2. r \in Seq(V) /\ Len(r) <= Len(q)
    BY <1>2 DEF ItemsOf
  <2>3. Append(q, b) \in Seq(CtBullet) /\ Len(Append(q, b)) = Len(q) + 1 /\ Len(q) \in Nat
    BY TokenAdded
  <2> HIDE DEF r
  <2>4. CASE b.dash /\ b.key \in EvidenceKeys
    <3> DEFINE x == [key |-> b.key, is |-> SplitOperator(b.value)]
    <3>1. x \in V
      <4>1. SplitOperator(b.value) \in W
        OBVIOUS
      <4> HIDE DEF W
      <4> QED
        BY <2>4, <4>1
    <3>2. KeepItem(r, b) = Append(r, x)
      BY <2>4, Zenon DEF KeepItem, EvidenceKeys
    <3> HIDE DEF x, V
    <3>3. Append(r, x) \in Seq(V) /\ Len(Append(r, x)) = Len(r) + 1 /\ Len(r) \in Nat
      BY <2>2, <3>1, TokenAdded
    <3>4. KeepItem(r, b) \in Seq(V) /\ Len(KeepItem(r, b)) <= Len(Append(q, b))
      BY <2>2, <2>3, <3>2, <3>3
    <3> QED
      BY <2>1, <2>3, <3>4 DEF ItemsOf, V
  <2>5. CASE ~ (b.dash /\ b.key \in EvidenceKeys)
    <3>1. KeepItem(r, b) = r
      BY <2>5, Zenon DEF KeepItem, EvidenceKeys
    <3> HIDE DEF V
    <3>2. Len(r) \in Nat
      BY <2>2
    <3>3. Len(r) <= Len(Append(q, b))
      BY <2>2, <2>3, <3>2
    <3> QED
      BY <2>1, <2>2, <2>3, <3>1, <3>3 DEF ItemsOf, V
  <2> QED
    BY <2>4, <2>5
<1> HIDE DEF G
<1>3. \A q : ParseEvidenceItems(q) = Itemised!Folded(<< >>, q)
  BY DEF ParseEvidenceItems, FoldLeft, MapThenFoldSet, Max, Itemised!Folded, Itemised!Greatest
<1>4. \A q \in Seq(CtBullet) : q \in G
  BY <1>1, <1>2, Itemised!SequencesGrow
<1> QED
  BY <1>3, <1>4 DEF G

LEMMA EvidenceHolds == ASSUME ctEvidence \in Seq(CtBullet) PROVE EvidenceSplit
<1> DEFINE items == ParseEvidenceItems(ctEvidence)
           V == {SplitOperator(b.value) : b \in CtBullet}
<1>1. items \in Seq([key : EvidenceKeys, is : V]) /\ Len(items) <= Len(ctEvidence)
  BY EvidenceIs DEF ItemsOf
<1> HIDE DEF V, items
<1>2. \A i \in DOMAIN items : items[i].is \in V
  <2> DEFINE R == [key : EvidenceKeys, is : V]
  <2> HIDE DEF R
  <2>0. items \in Seq(R)
    BY <1>1 DEF R
  <2>1. \A i \in DOMAIN items : items[i] \in R
    BY <2>0
  <2> QED
    BY <2>1 DEF R
<1>3. ASSUME NEW i \in DOMAIN items,
             items[i].is.operator \in {<< "<" >>, << ">" >>, << "=" >>}, items[i].is.value # << >>
      PROVE  Head(items[i].is.value) # "="
  <2>1. PICK b \in CtBullet : items[i].is = SplitOperator(b.value)
    BY <1>2 DEF V
  <2>2. b.value \in Seq(ToSet(b.value))
    BY CtAssumption
  <2> QED
    BY <1>3, <2>1, <2>2, OperatorSplit
<1> QED
  BY <1>1, <1>3 DEF EvidenceSplit, items

\* The sections: what the lines of a body add up to.
Headings == ToSet(CtRequired)
IsHeading(line, h) == line.kind = "section" /\ line.text = h
Written(body, h) == {body[i] : i \in {j \in DOMAIN body : body[j].kind # "section" /\ Under(body, j, h)}}

\* The last heading is h.
Opened(body, h) ==
  \E j \in DOMAIN body :
    IsHeading(body[j], h) /\ \A k \in DOMAIN body : k > j => body[k].kind # "section"

LEMMA OpenedAppend ==
  ASSUME NEW b \in Seq(CtLine), NEW x \in CtLine, NEW h
  PROVE  Opened(Append(b, x), h) <=> IF x.kind = "section" THEN x.text = h ELSE Opened(b, h)
<1> DEFINE n == Len(b)
           r == Append(b, x)
<1>1. n \in Nat /\ DOMAIN b = 1 .. n /\ DOMAIN r = 1 .. n + 1 /\ r[n + 1] = x /\ \A i \in 1 .. n : r[i] = b[i]
  BY TokenAdded
<1> HIDE DEF n, r
<1>2. \A i \in DOMAIN r : i = n + 1 \/ i \in 1 .. n
  BY <1>1
<1>3. CASE x.kind = "section"
  <2>1. ASSUME Opened(r, h) PROVE x.text = h
    <3>1. PICK j \in DOMAIN r : IsHeading(r[j], h) /\ \A k \in DOMAIN r : k > j => r[k].kind # "section"
      BY <2>1 DEF Opened
    <3>2. j = n + 1
      <4>1. ~ (n + 1 > j) /\ n + 1 \in DOMAIN r
        BY <1>1, <1>3, <3>1
      <4> QED
        BY <1>1, <4>1
    <3> QED
      BY <1>1, <3>1, <3>2 DEF IsHeading
  <2>2. ASSUME x.text = h PROVE Opened(r, h)
    <3>1. n + 1 \in DOMAIN r /\ \A k \in DOMAIN r : ~ (k > n + 1)
      BY <1>1
    <3>2. IsHeading(r[n + 1], h)
      BY <1>1, <1>3, <2>2 DEF IsHeading
    <3> QED
      BY <3>1, <3>2 DEF Opened
  <2> QED
    BY <1>3, <2>1, <2>2 DEF r
<1>4. CASE x.kind # "section"
  <2>1. ASSUME Opened(r, h) PROVE Opened(b, h)
    <3>1. PICK j \in DOMAIN r : IsHeading(r[j], h) /\ \A k \in DOMAIN r : k > j => r[k].kind # "section"
      BY <2>1 DEF Opened
    <3>2. j \in 1 .. n
      BY <1>1, <1>2, <1>4, <3>1 DEF IsHeading
    <3> QED
      BY <1>1, <3>1, <3>2 DEF Opened
  <2>2. ASSUME Opened(b, h) PROVE Opened(r, h)
    <3>1. PICK j \in DOMAIN b : IsHeading(b[j], h) /\ \A k \in DOMAIN b : k > j => b[k].kind # "section"
      BY <2>2 DEF Opened
    <3>2. j \in DOMAIN r /\ IsHeading(r[j], h)
      BY <1>1, <3>1
    <3>3. \A k \in DOMAIN r : k > j => r[k].kind # "section"
      BY <1>1, <1>2, <1>4, <3>1
    <3> QED
      BY <3>2, <3>3 DEF Opened
  <2> QED
    BY <1>4, <2>1, <2>2 DEF r
<1> QED
  BY <1>3, <1>4

\* What a line changes in what stands under a heading.
LEMMA UnderAppend ==
  ASSUME NEW b \in Seq(CtLine), NEW x \in CtLine, NEW h
  PROVE  /\ \A i \in DOMAIN b : Under(Append(b, x), i, h) <=> Under(b, i, h) /\ ~IsHeading(x, h)
         /\ x.kind # "section" => (Under(Append(b, x), Len(b) + 1, h) <=> Opened(b, h))
<1> DEFINE n == Len(b)
           r == Append(b, x)
<1>1. n \in Nat /\ DOMAIN b = 1 .. n /\ Len(r) = n + 1 /\ r[n + 1] = x /\ \A i \in 1 .. n : r[i] = b[i]
  BY TokenAdded
<1> HIDE DEF r
<1>2. ASSUME NEW i \in DOMAIN b PROVE Under(r, i, h) <=> Under(b, i, h) /\ ~IsHeading(x, h)
  <2>1. i \in Nat /\ i <= n /\ 1 .. i - 1 \subseteq 1 .. n
    BY <1>1
  <2>2. ASSUME Under(r, i, h) PROVE Under(b, i, h) /\ ~IsHeading(x, h)
    <3>1. PICK j \in 1 .. i - 1 :
            /\ r[j].kind = "section" /\ r[j].text = h
            /\ \A k \in j + 1 .. Len(r) : r[k].kind = "section" => k > i /\ r[k].text # h
      BY <2>2 DEF Under
    <3>2. j \in 1 .. n /\ n + 1 \in j + 1 .. Len(r) /\ \A k \in j + 1 .. n : k \in 1 .. n /\ k \in j + 1 .. Len(r)
      BY <1>1, <2>1
    <3>3. b[j].kind = "section" /\ b[j].text = h
          /\ \A k \in j + 1 .. Len(b) : b[k].kind = "section" => k > i /\ b[k].text # h
      BY <1>1, <3>1, <3>2
    <3>4. ~IsHeading(x, h)
      BY <1>1, <3>1, <3>2 DEF IsHeading
    <3> QED
      BY <3>3, <3>4 DEF Under
  <2>3. ASSUME Under(b, i, h), ~IsHeading(x, h) PROVE Under(r, i, h)
    <3>1. PICK j \in 1 .. i - 1 :
            /\ b[j].kind = "section" /\ b[j].text = h
            /\ \A k \in j + 1 .. Len(b) : b[k].kind = "section" => k > i /\ b[k].text # h
      BY <2>3 DEF Under
    <3>2. j \in 1 .. n /\ r[j].kind = "section" /\ r[j].text = h
      BY <1>1, <2>1, <3>1
    <3>3. ASSUME NEW k \in j + 1 .. Len(r), r[k].kind = "section" PROVE k > i /\ r[k].text # h
      <4>1. CASE k = n + 1
        BY <1>1, <2>1, <2>3, <3>3, <4>1 DEF IsHeading
      <4>2. CASE k # n + 1
        <5>1. k \in j + 1 .. Len(b) /\ k \in 1 .. n
          BY <1>1, <3>2, <4>2
        <5> QED
          BY <1>1, <3>1, <3>3, <5>1
      <4> QED
        BY <4>1, <4>2
    <3> QED
      BY <3>1, <3>2, <3>3 DEF Under
  <2> QED
    BY <2>2, <2>3
<1>3. ASSUME x.kind # "section" PROVE Under(r, n + 1, h) <=> Opened(b, h)
  <2>1. ASSUME Under(r, n + 1, h) PROVE Opened(b, h)
    <3>1. PICK j \in 1 .. (n + 1) - 1 :
            /\ r[j].kind = "section" /\ r[j].text = h
            /\ \A k \in j + 1 .. Len(r) : r[k].kind = "section" => k > n + 1 /\ r[k].text # h
      BY <2>1 DEF Under
    <3>2. j \in DOMAIN b /\ IsHeading(b[j], h)
      BY <1>1, <3>1 DEF IsHeading
    <3>3. ASSUME NEW k \in DOMAIN b, k > j PROVE b[k].kind # "section"
      <4>1. k \in j + 1 .. Len(r) /\ ~ (k > n + 1) /\ r[k] = b[k]
        BY <1>1, <3>2, <3>3
      <4> QED
        BY <3>1, <4>1
    <3> QED
      BY <3>2, <3>3 DEF Opened
  <2>2. ASSUME Opened(b, h) PROVE Under(r, n + 1, h)
    <3>1. PICK j \in DOMAIN b : IsHeading(b[j], h) /\ \A k \in DOMAIN b : k > j => b[k].kind # "section"
      BY <2>2 DEF Opened
    <3>2. j \in 1 .. (n + 1) - 1 /\ r[j].kind = "section" /\ r[j].text = h
      BY <1>1, <3>1 DEF IsHeading
    <3>3. ASSUME NEW k \in j + 1 .. Len(r) PROVE r[k].kind # "section"
      <4>1. CASE k = n + 1
        BY <1>1, <1>3, <4>1
      <4>2. CASE k # n + 1
        <5>1. k \in DOMAIN b /\ k > j
          BY <1>1, <3>1, <4>2
        <5> QED
          BY <1>1, <3>1, <5>1
      <4> QED
        BY <4>1, <4>2
    <3> QED
      BY <3>2, <3>3 DEF Under
  <2> QED
    BY <2>1, <2>2
<1> QED
  BY <1>2, <1>3 DEF r, n

LEMMA WrittenAppend ==
  ASSUME NEW b \in Seq(CtLine), NEW x \in CtLine, NEW h
  PROVE  Written(Append(b, x), h) =
           IF x.kind = "section" THEN IF x.text = h THEN {} ELSE Written(b, h)
           ELSE IF Opened(b, h) THEN Written(b, h) \union {x} ELSE Written(b, h)
<1> DEFINE n == Len(b)
           r == Append(b, x)
           J(q) == {j \in DOMAIN q : q[j].kind # "section" /\ Under(q, j, h)}
<1>1. n \in Nat /\ DOMAIN b = 1 .. n /\ DOMAIN r = 1 .. n + 1 /\ r[n + 1] = x /\ \A i \in 1 .. n : r[i] = b[i]
  BY TokenAdded
<1>2. \A i \in DOMAIN b : Under(r, i, h) <=> Under(b, i, h) /\ ~IsHeading(x, h)
  BY UnderAppend
<1>3. x.kind # "section" => (Under(r, n + 1, h) <=> Opened(b, h))
  BY UnderAppend
<1> HIDE DEF r, n
<1>4. 1 .. n + 1 = (1 .. n) \union {n + 1}
  BY <1>1
<1>5. Written(b, h) = {b[i] : i \in J(b)} /\ Written(r, h) = {r[i] : i \in J(r)}
  BY DEF Written
<1>6. CASE x.kind = "section" /\ x.text = h
  <2>1. J(r) = {}
    BY <1>1, <1>2, <1>4, <1>6 DEF IsHeading
  <2> QED
    BY <1>5, <1>6, <2>1 DEF r
<1>7. CASE x.kind = "section" /\ x.text # h
  <2>1. J(r) = J(b)
    BY <1>1, <1>2, <1>4, <1>7 DEF IsHeading
  <2>2. {r[i] : i \in J(b)} = {b[i] : i \in J(b)}
    BY <1>1
  <2> QED
    BY <1>5, <1>7, <2>1, <2>2 DEF r
<1>8. CASE x.kind # "section" /\ Opened(b, h)
  <2>1. J(r) = J(b) \union {n + 1}
    BY <1>1, <1>2, <1>3, <1>4, <1>8 DEF IsHeading
  <2>2. {r[i] : i \in J(b) \union {n + 1}} = {b[i] : i \in J(b)} \union {x}
    BY <1>1
  <2> QED
    BY <1>5, <1>8, <2>1, <2>2 DEF r
<1>9. CASE x.kind # "section" /\ ~Opened(b, h)
  <2>1. J(r) = J(b)
    BY <1>1, <1>2, <1>3, <1>4, <1>9 DEF IsHeading
  <2>2. {r[i] : i \in J(b)} = {b[i] : i \in J(b)}
    BY <1>1
  <2> QED
    BY <1>5, <1>9, <2>1, <2>2 DEF r
<1> QED
  BY <1>6, <1>7, <1>8, <1>9

Solidly(lines, body, h) ==
  lines \in Seq(CtLine) /\ Solid(ToSet(lines)) = Solid(Written(body, h))

\* What is known of a body that was read so far: every section but the one that
\* is being read has the lines that stand under its heading, blank ones aside.
ReadSo(body, acc) ==
  /\ acc = [out |-> acc.out, held |-> acc.held, current |-> acc.current]
  /\ acc.held \in Seq(CtLine)
  /\ \A h : h \in acc.current <=> h \in Headings /\ Opened(body, h)
  /\ \A h \in DOMAIN acc.out \union acc.current : h \in Headings /\ \E j \in DOMAIN body : IsHeading(body[j], h)
  /\ \A h \in DOMAIN acc.out : h \notin acc.current => Solidly(acc.out[h], body, h)
  /\ \A h \in acc.current : Solidly(acc.held, body, h)

SectionsSo(body, sections) ==
  \A h \in DOMAIN sections :
    /\ h \in Headings /\ \E j \in DOMAIN body : IsHeading(body[j], h)
    /\ Solidly(sections[h], body, h)

LEMMA FlushedIs ==
  ASSUME NEW b \in Seq(CtLine), NEW acc, ReadSo(b, acc)
  PROVE  SectionsSo(b, Flushed(acc)) /\ DOMAIN Flushed(acc) = DOMAIN acc.out \union acc.current
<1> DEFINE f == Flushed(acc)
<1>1. /\ DOMAIN f = DOMAIN acc.out \union acc.current
      /\ \A h \in DOMAIN f : f[h] = IF h \in acc.current THEN Trimmed(acc.held) ELSE acc.out[h]
  BY DEF Flushed
<1>2. Trimmed(acc.held) \in Seq(CtLine) /\ Solid(ToSet(Trimmed(acc.held))) = Solid(ToSet(acc.held))
  BY TrimmedKeeps DEF ReadSo
<1> HIDE DEF f
<1>3. ASSUME NEW h \in DOMAIN f PROVE Solidly(f[h], b, h)
  <2>1. CASE h \in acc.current
    BY <1>1, <1>2, <2>1 DEF ReadSo, Solidly
  <2>2. CASE h \notin acc.current
    BY <1>1, <2>2 DEF ReadSo
  <2> QED
    BY <2>1, <2>2
<1>4. \A h \in DOMAIN f : h \in Headings /\ \E j \in DOMAIN b : IsHeading(b[j], h)
  BY <1>1 DEF ReadSo
<1>5. SectionsSo(b, f)
  BY <1>3, <1>4 DEF SectionsSo
<1> QED
  BY <1>1, <1>5 DEF f

LEMMA HeadingRead ==
  ASSUME NEW b \in Seq(CtLine), NEW x \in CtLine, NEW acc, ReadSo(b, acc)
  PROVE  ReadSo(Append(b, x), TakeLine(acc, x))
<1> DEFINE r == Append(b, x)
           new == TakeLine(acc, x)
<1>1. \A h : \A j \in DOMAIN b : j \in DOMAIN r /\ r[j] = b[j]
  BY TokenAdded
<1>2. Len(b) + 1 \in DOMAIN r /\ r[Len(b) + 1] = x
  BY TokenAdded
<1>3. \A h : /\ Opened(r, h) <=> IF x.kind = "section" THEN x.text = h ELSE Opened(b, h)
             /\ Written(r, h) =
                  IF x.kind = "section" THEN IF x.text = h THEN {} ELSE Written(b, h)
                  ELSE IF Opened(b, h) THEN Written(b, h) \union {x} ELSE Written(b, h)
  BY OpenedAppend, WrittenAppend
<1> HIDE DEF r
<1>4. CASE x.kind = "section"
  <2> DEFINE f == Flushed(acc)
  <2>0. new = [out |-> f, held |-> << >>, current |-> {x.text} \intersect Headings]
    BY <1>4, Zenon DEF TakeLine, Headings
  <2>1. new.out = f /\ new.held = << >> /\ new.current = {x.text} \intersect Headings
    BY <2>0
  <2>8. new = [out |-> new.out, held |-> new.held, current |-> new.current]
    BY <2>0, <2>1, Zenon
  <2>2. SectionsSo(b, f)
    BY FlushedIs
  <2> HIDE DEF f, new
  <2>3. \A h : h \in new.current <=> h \in Headings /\ Opened(r, h)
    BY <1>3, <1>4, <2>1
  <2>4. ASSUME NEW h \in DOMAIN new.out \union new.current
        PROVE  h \in Headings /\ \E j \in DOMAIN r : IsHeading(r[j], h)
    <3>1. CASE h \in DOMAIN f
      <4>1. h \in Headings
        BY <2>2, <3>1 DEF SectionsSo
      <4>2. PICK j \in DOMAIN b : IsHeading(b[j], h)
        BY <2>2, <3>1 DEF SectionsSo
      <4> QED
        BY <1>1, <4>1, <4>2
    <3>2. CASE h \in new.current
      BY <1>2, <1>4, <2>1, <3>2 DEF IsHeading
    <3> QED
      BY <2>1, <2>4, <3>1, <3>2
  <2>5. ASSUME NEW h \in DOMAIN new.out, h \notin new.current PROVE Solidly(new.out[h], r, h)
    <3>1. h \in Headings /\ Solidly(f[h], b, h)
      BY <2>1, <2>2 DEF SectionsSo
    <3>2. x.text # h
      BY <2>1, <2>5, <3>1
    <3> QED
      BY <1>3, <1>4, <2>1, <3>1, <3>2 DEF Solidly
  <2>6. ASSUME NEW h \in new.current PROVE Solidly(new.held, r, h)
    <3>1. x.text = h
      BY <2>1
    <3>2. Written(r, h) = {}
      BY <1>3, <1>4, <3>1
    <3>3. << >> \in Seq(CtLine) /\ ToSet(<< >>) = {}
      BY EmptyText DEF ToSet
    <3> QED
      BY <2>1, <3>2, <3>3 DEF Solidly
  <2>7. new.held \in Seq(CtLine)
    BY <2>1, EmptyText
  <2> QED
    BY <2>3, <2>4, <2>5, <2>6, <2>7, <2>8 DEF ReadSo, r, new
<1>5. CASE x.kind # "section" /\ acc.current = {}
  <2>1. new = acc
    BY <1>5 DEF TakeLine
  <2> HIDE DEF new
  <2>2. \A h : h \in acc.current <=> h \in Headings /\ Opened(r, h)
    BY <1>3, <1>5 DEF ReadSo
  <2>3. ASSUME NEW h \in DOMAIN acc.out \union acc.current
        PROVE  h \in Headings /\ \E j \in DOMAIN r : IsHeading(r[j], h)
    <3>1. PICK j \in DOMAIN b : IsHeading(b[j], h)
      BY <2>3 DEF ReadSo
    <3>2. h \in Headings
      BY <2>3 DEF ReadSo
    <3> QED
      BY <1>1, <3>1, <3>2
  <2>4. ASSUME NEW h \in DOMAIN acc.out PROVE Solidly(acc.out[h], r, h)
    <3>1. h \in Headings /\ Solidly(acc.out[h], b, h) /\ ~Opened(b, h)
      BY <1>5 DEF ReadSo
    <3>2. Written(r, h) = Written(b, h)
      BY <1>3, <1>5, <3>1
    <3> QED
      BY <3>1, <3>2 DEF Solidly
  <2>5. ReadSo(r, acc)
    BY <1>5, <2>2, <2>3, <2>4 DEF ReadSo
  <2> QED
    BY <2>1, <2>5 DEF r, new
<1>6. CASE x.kind # "section" /\ acc.current # {}
  <2> DEFINE held == Append(acc.held, x)
  <2>1. new = [acc EXCEPT !.held = Append(@, x)]
    BY <1>6 DEF TakeLine
  <2> HIDE DEF new
  <2>2. acc = [out |-> acc.out, held |-> acc.held, current |-> acc.current]
    BY DEF ReadSo
  <2>3. new = [out |-> acc.out, held |-> held, current |-> acc.current]
    BY <2>1, <2>2
  <2> HIDE DEF held
  <2>4. new.out = acc.out /\ new.held = held /\ new.current = acc.current
    BY <2>3
  <2>5. new = [out |-> new.out, held |-> new.held, current |-> new.current]
    BY <2>3, <2>4, Zenon
  <2>6. held \in Seq(CtLine) /\ ToSet(held) = ToSet(acc.held) \union {x}
    BY TokenAdded, ToSetAppend DEF ReadSo, held
  <2>7. \A h : h \in new.current <=> h \in Headings /\ Opened(r, h)
    BY <1>3, <1>6, <2>4 DEF ReadSo
  <2>8. ASSUME NEW h \in DOMAIN new.out \union new.current
        PROVE  h \in Headings /\ \E j \in DOMAIN r : IsHeading(r[j], h)
    <3>1. PICK j \in DOMAIN b : IsHeading(b[j], h)
      BY <2>4, <2>8 DEF ReadSo
    <3>2. h \in Headings
      BY <2>4, <2>8 DEF ReadSo
    <3> QED
      BY <1>1, <3>1, <3>2
  <2>9. ASSUME NEW h \in DOMAIN new.out, h \notin new.current PROVE Solidly(new.out[h], r, h)
    <3>1. h \in Headings /\ Solidly(acc.out[h], b, h) /\ ~Opened(b, h)
      BY <2>4, <2>9 DEF ReadSo
    <3>2. Written(r, h) = Written(b, h)
      BY <1>3, <1>6, <3>1
    <3> QED
      BY <2>4, <3>1, <3>2 DEF Solidly
  <2>10. ASSUME NEW h \in new.current PROVE Solidly(new.held, r, h)
    <3>1. Solidly(acc.held, b, h) /\ Opened(b, h)
      BY <2>4 DEF ReadSo
    <3>2. Written(r, h) = Written(b, h) \union {x}
      BY <1>3, <1>6, <3>1
    <3>3. Solid(ToSet(acc.held)) = Solid(Written(b, h))
      BY <3>1 DEF Solidly
    <3>4. Solid(ToSet(held)) = Solid(Written(r, h))
      BY <2>6, <3>2, <3>3 DEF Solid
    <3> QED
      BY <2>4, <2>6, <3>4 DEF Solidly
  <2>11. new.held \in Seq(CtLine)
    BY <2>4, <2>6
  <2> QED
    BY <2>5, <2>7, <2>8, <2>9, <2>10, <2>11 DEF ReadSo, r, new
<1> QED
  BY <1>4, <1>5, <1>6

LEMMA SectionsAre == \A b \in Seq(CtLine) : SectionsSo(b, SplitRivalSections(b))
<1> DEFINE none == [out |-> [h \in {} |-> << >>], held |-> << >>, current |-> {}]
           G == {q \in Seq(CtLine) : ReadSo(q, Splitting!Folded(none, q))}
<1>1. << >> \in G
  <2>1. /\ none = [out |-> none.out, held |-> none.held, current |-> none.current]
        /\ none.held = << >> /\ DOMAIN none.out = {} /\ none.current = {}
    OBVIOUS
  <2> HIDE DEF none
  <2>2. Splitting!Folded(none, << >>) = none
    BY Splitting!FoldEmpty
  <2>3. << >> \in Seq(CtLine) /\ DOMAIN << >> = {}
    BY EmptyText
  <2>4. \A h : ~Opened(<< >>, h)
    BY <2>3 DEF Opened
  <2>5. ReadSo(<< >>, none)
    BY <2>1, <2>3, <2>4 DEF ReadSo
  <2> QED
    BY <2>2, <2>3, <2>5
<1> HIDE DEF none
<1>2. ASSUME NEW q \in Seq(CtLine), NEW x \in CtLine, q \in G PROVE Append(q, x) \in G
  <2>1. Splitting!Folded(none, Append(q, x)) = TakeLine(Splitting!Folded(none, q), x)
    BY Splitting!FoldAppend
  <2>2. ReadSo(q, Splitting!Folded(none, q))
    BY <1>2
  <2>3. ReadSo(Append(q, x), TakeLine(Splitting!Folded(none, q), x))
    BY <2>2, HeadingRead
  <2>4. Append(q, x) \in Seq(CtLine)
    BY TokenAdded
  <2> QED
    BY <2>1, <2>3, <2>4
<1>3. \A q : SplitRivalSections(q) = Flushed(Splitting!Folded(none, q))
  BY DEF SplitRivalSections, FoldLeft, MapThenFoldSet, Max, Splitting!Folded, Splitting!Greatest, none
<1> HIDE DEF G
<1>4. \A q \in Seq(CtLine) : q \in G
  BY <1>1, <1>2, Splitting!SequencesGrow
<1>5. \A q \in Seq(CtLine) : ReadSo(q, Splitting!Folded(none, q))
  BY <1>4 DEF G
<1> QED
  BY <1>3, <1>5, FlushedIs

\* What the prompt shows of a complete contract.
LEMMA ContractIs ==
  ASSUME NEW b, ParseRivalContractBody(b).as = "contract"
  PROVE  /\ ExtractContractTitle(b) /\ Headings \subseteq DOMAIN SplitRivalSections(b)
         /\ ParseRivalContractBody(b).sections = SplitRivalSections(b)
  BY DEF ParseRivalContractBody, Headings

LEMMA PromptIs ==
  ASSUME NEW b \in Seq(CtLine), ParseRivalContractBody(b).as = "contract",
         NEW shown, shown = FormatRivalContractForPrompt(ParseRivalContractBody(b).sections)
  PROVE  \A i \in DOMAIN shown :
           /\ shown[i].heading \in Headings /\ Solidly(shown[i].lines, b, shown[i].heading)
           /\ shown[i].heading = "Boundaries" => NoTwice(shown[i].lines)
<1> DEFINE sections == SplitRivalSections(b)
<1>1. /\ DOMAIN shown = DOMAIN CtShown
      /\ \A i \in DOMAIN CtShown :
           /\ shown[i].heading = CtShown[i]
           /\ shown[i].lines = IF CtShown[i] = "Boundaries" THEN Trimmed(DedupeLines(sections[CtShown[i]]))
                               ELSE sections[CtShown[i]]
  BY ContractIs DEF FormatRivalContractForPrompt
<1>2. Headings \subseteq DOMAIN sections /\ SectionsSo(b, sections)
  BY ContractIs, SectionsAre
<1> HIDE DEF sections
<1>3. ASSUME NEW i \in DOMAIN CtShown
      PROVE  /\ CtShown[i] \in Headings /\ Solidly(shown[i].lines, b, CtShown[i])
             /\ CtShown[i] = "Boundaries" => NoTwice(shown[i].lines)
  <2> DEFINE h == CtShown[i]
             lines == sections[h]
             once == DedupeLines(lines)
             ends == Trimmed(once)
  <2>1. h \in Headings
    BY CtAssumption DEF Headings
  <2>2. Solidly(lines, b, h)
    BY <1>2, <2>1 DEF SectionsSo
  <2> HIDE DEF lines, once, ends
  <2>3. once \in Seq(CtLine) /\ NoTwice(once) /\ ToSet(once) = ToSet(lines)
    BY <2>2, LinesTaken DEF Solidly, once
  <2>4. /\ ends \in Seq(CtLine) /\ Solid(ToSet(ends)) = Solid(ToSet(once))
        /\ \E a \in Nat : \A k \in DOMAIN ends : a + k \in DOMAIN once /\ ends[k] = once[a + k]
    BY <2>3, TrimmedKeeps DEF ends
  <2>5. Solidly(ends, b, h)
    BY <2>2, <2>3, <2>4 DEF Solidly
  <2>6. NoTwice(ends)
    <3>1. PICK a \in Nat : \A k \in DOMAIN ends : a + k \in DOMAIN once /\ ends[k] = once[a + k]
      BY <2>4
    <3>2. DOMAIN ends \subseteq Nat
      BY <2>4
    <3>3. ASSUME NEW k \in DOMAIN ends, NEW l \in DOMAIN ends, ends[k] = ends[l] PROVE k = l \/ Blank(ends[k])
      <4>1. a + k = a + l \/ Blank(once[a + k])
        BY <2>3, <3>1, <3>3 DEF NoTwice
      <4>2. a + k = a + l => k = l
        BY <3>2
      <4> QED
        BY <3>1, <4>1, <4>2
    <3> QED
      BY <3>3 DEF NoTwice
  <2>7. shown[i].lines = IF h = "Boundaries" THEN ends ELSE lines
    BY <1>1 DEF lines, once, ends
  <2> QED
    BY <2>1, <2>2, <2>5, <2>6, <2>7
<1> QED
  BY <1>1, <1>3

LEMMA SectionsHold == ASSUME ctBody \in Seq(CtLine) PROVE SectionsAreComplete /\ BoundariesOnce
<1> DEFINE shown == FormatRivalContractForPrompt(ParseRivalContractBody(ctBody).sections)
<1>1. ASSUME ParseRivalContractBody(ctBody).as = "contract"
      PROVE  \A i \in DOMAIN shown :
               /\ Solidly(shown[i].lines, ctBody, shown[i].heading)
               /\ shown[i].heading = "Boundaries" => NoTwice(shown[i].lines)
  BY <1>1, PromptIs
<1> HIDE DEF shown
<1>2. SectionsAreComplete
  BY <1>1 DEF SectionsAreComplete, Solidly, Solid, Written, shown
<1>3. BoundariesOnce
  BY <1>1 DEF BoundariesOnce, NoTwice, shown
<1> QED
  BY <1>2, <1>3

\* The metadata, and what is sent.
Mailed(mail) ==
  /\ mail.body \in Seq(CtLine) /\ mail.source \in CtSources
  /\ mail.meta.id = DeriveContractID(mail.source)

ContractInv ==
  /\ CtTypeOK
  /\ ctMail = << >> \/ \E mail : ctMail = << mail >> /\ Mailed(mail)

LEMMA ReversedSame ==
  ASSUME NEW V, NEW s \in Seq(V)
  PROVE  ToSet(Reverse(s)) = ToSet(s) /\ (Reverse(s) = << >> <=> s = << >>)
<1> DEFINE n == Len(s)
           r == [i \in 1 .. n |-> s[(n - i) + 1]]
<1>1. n \in Nat /\ DOMAIN s = 1 .. n /\ Reverse(s) = r
  BY DEF Reverse
<1> HIDE DEF n
<1>2. \A i \in 1 .. n : (n - i) + 1 \in 1 .. n /\ (n - ((n - i) + 1)) + 1 = i
  BY <1>1
<1>3. ToSet(r) \subseteq ToSet(s) /\ ToSet(s) \subseteq ToSet(r)
  <2>1. \A i \in 1 .. n : r[i] \in ToSet(s)
    BY <1>1, <1>2 DEF ToSet
  <2>2. \A i \in 1 .. n : s[i] = r[(n - i) + 1]
    BY <1>1, <1>2
  <2>3. \A i \in 1 .. n : s[i] \in ToSet(r)
    BY <1>1, <1>2, <2>2 DEF ToSet
  <2> QED
    BY <1>1, <2>1, <2>3 DEF ToSet
<1>4. r \in Seq(V) /\ Len(r) = n
  BY <1>1, <1>2
<1>5. r = << >> <=> n = 0
  BY <1>1, <1>4
<1>6. s = << >> <=> n = 0
  BY DEF n
<1> QED
  BY <1>1, <1>3, <1>5, <1>6

LEMMA IdsAre ==
  ASSUME NEW mail, Mailed(mail)
  PROVE  mail.meta.id = DeriveContractID([mail.source EXCEPT !.issues = Reverse(@)])
<1> DEFINE s == mail.source
           t == [s EXCEPT !.issues = Reverse(@)]
<1>1. s \in [wave : STRING, issues : Seq(Nat), cluster : STRING] /\ mail.meta.id = DeriveContractID(s)
  BY CtAssumption DEF Mailed
<1> HIDE DEF s
<1>2. t.wave = s.wave /\ t.cluster = s.cluster /\ t.issues = Reverse(s.issues) /\ s.issues \in Seq(Nat)
  BY <1>1
<1> HIDE DEF t
<1>3. ToSet(t.issues) = ToSet(s.issues) /\ (t.issues = << >> <=> s.issues = << >>)
  BY <1>2, ReversedSame
<1>4. DeriveContractID(t) = DeriveContractID(s)
  BY <1>2, <1>3 DEF DeriveContractID
<1> QED
  BY <1>1, <1>4 DEF t, s

LEMMA OthersWhole ==
  ASSUME NEW mail, Mailed(mail)
  PROVE  \/ FormatDMailForPrompt(mail) = << [heading |-> "mail", lines |-> mail.body] >>
         \/ /\ mail.kind = "specification"
            /\ ExtractContractTitle(mail.body)
            /\ \A h \in ToSet(CtRequired) : \E j \in DOMAIN mail.body : mail.body[j] = [kind |-> "section", text |-> h]
<1>1. CASE mail.kind = "specification" /\ ParseRivalContractBody(mail.body).as = "contract"
  <2>1. ExtractContractTitle(mail.body) /\ Headings \subseteq DOMAIN SplitRivalSections(mail.body)
    BY <1>1, ContractIs
  <2>2. \A h \in Headings : \E j \in DOMAIN mail.body : IsHeading(mail.body[j], h)
    BY <2>1, SectionsAre DEF SectionsSo, Mailed
  <2>3. \A j \in DOMAIN mail.body : mail.body[j] \in [kind : STRING, text : STRING]
    <3>1. \A j \in DOMAIN mail.body : mail.body[j] \in CtLine
      BY DEF Mailed
    <3> QED
      BY <3>1, CtAssumption
  <2>4. \A h \in Headings : \E j \in DOMAIN mail.body : mail.body[j] = [kind |-> "section", text |-> h]
    <3> TAKE h \in Headings
    <3>1. PICK j \in DOMAIN mail.body : IsHeading(mail.body[j], h)
      BY <2>2
    <3>2. mail.body[j] = [kind |-> "section", text |-> h]
      BY <2>3, <3>1 DEF IsHeading
    <3> QED
      BY <3>2
  <2> QED
    BY <1>1, <2>1, <2>4 DEF Headings
<1>2. CASE ~ (mail.kind = "specification" /\ ParseRivalContractBody(mail.body).as = "contract")
  BY <1>2, Zenon DEF FormatDMailForPrompt
<1> QED
  BY <1>1, <1>2

LEMMA ContractInvImplies == ContractInv => ContractSound
<1> SUFFICES ASSUME ContractInv PROVE ContractSound
  OBVIOUS
<1>1. SectionsAreComplete /\ BoundariesOnce /\ EvidenceSplit
  BY SectionsHold, EvidenceHolds DEF ContractInv, CtTypeOK
<1>2. ASSUME NEW i \in DOMAIN ctMail PROVE Mailed(ctMail[i])
  <2>1. ctMail # << >>
    BY EmptyText
  <2>2. PICK mail : ctMail = << mail >> /\ Mailed(mail)
    BY <2>1 DEF ContractInv
  <2>3. ctMail[i] = mail
    BY <2>2
  <2> QED
    BY <2>2, <2>3
<1>3. OthersShownWhole
  BY <1>2, OthersWhole DEF OthersShownWhole
<1>4. ASSUME NEW i \in DOMAIN ctMail, ctMail[i].meta.schema = "rival-contract-v1",
             ctMail[i].meta.id.ok, ~IsDMailName(ctMail[i].meta.id), ctMail[i].meta.revision > 0,
             ctMail[i].meta.style \in {"none", "generic", "event-sourced"}
      PROVE  ParseRivalContractMetadata(ctMail[i].meta) = "contract"
  BY <1>4 DEF ParseRivalContractMetadata
<1>5. ASSUME NEW i \in DOMAIN ctMail, HasEventSourcedContract(ctMail) PROVE ctMail[i].meta.id.ok
  <2>1. PICK k \in DOMAIN ctMail : ParseRivalContractMetadata(ctMail[k].meta) = "contract"
    BY <1>5 DEF HasEventSourcedContract
  <2>2. ctMail[k].meta.id.ok
    BY <2>1 DEF ParseRivalContractMetadata
  <2>3. k = i
    <3>1. ctMail # << >>
      BY EmptyText
    <3>2. PICK mail : ctMail = << mail >>
      BY <3>1 DEF ContractInv
    <3> QED
      BY <3>2
  <2> QED
    BY <2>2, <2>3
<1>6. \A i \in DOMAIN ctMail :
        ctMail[i].meta.id = DeriveContractID([ctMail[i].source EXCEPT !.issues = Reverse(@)])
  BY <1>2, IdsAre
<1>7. IdsAreAccepted
  BY <1>4, <1>5, <1>6 DEF IdsAreAccepted
<1> QED
  BY <1>1, <1>3, <1>7 DEF ContractSound

LEMMA ContractStepTyped == CtTypeOK /\ [CtNext]_ctVars => CtTypeOK'
<1> SUFFICES ASSUME CtTypeOK, [CtNext]_ctVars PROVE CtTypeOK'
  OBVIOUS
<1>1. ctBody \in Seq(CtLine) /\ ctEvidence \in Seq(CtBullet) /\ CtLines \in Nat /\ CtBullets \in Nat
  BY CtAssumption DEF CtTypeOK
<1>2. CASE WriteContractLine
  <2>1. PICK line \in CtLine : ctBody' = Append(ctBody, line)
    BY <1>2, Zenon DEF WriteContractLine
  <2>2. Len(ctBody) < CtLines /\ UNCHANGED << ctMail, ctEvidence >>
    BY <1>2 DEF WriteContractLine
  <2>3. ctBody' \in Seq(CtLine) /\ Len(ctBody') <= CtLines
    BY <1>1, <2>1, <2>2, TextGrows
  <2> QED
    BY <2>2, <2>3 DEF CtTypeOK
<1>3. CASE SendSpecification
  <2>1. \E m : ctMail' = << m >>
    BY <1>3, Zenon DEF SendSpecification
  <2>2. Len(ctMail') <= 1
    BY <2>1
  <2>3. UNCHANGED << ctBody, ctEvidence >>
    BY <1>3, Zenon DEF SendSpecification
  <2> QED
    BY <2>2, <2>3 DEF CtTypeOK
<1>4. CASE ReadBullet
  <2>1. PICK b \in CtBullet : ctEvidence' = Append(ctEvidence, b)
    BY <1>4, Zenon DEF ReadBullet
  <2>2. Len(ctEvidence) < CtBullets /\ UNCHANGED << ctBody, ctMail >>
    BY <1>4 DEF ReadBullet
  <2>3. ctEvidence' \in Seq(CtBullet) /\ Len(ctEvidence') <= CtBullets
    BY <1>1, <2>1, <2>2, TextGrows
  <2> QED
    BY <2>2, <2>3 DEF CtTypeOK
<1>5. CASE UNCHANGED ctVars
  BY <1>5 DEF ctVars, CtTypeOK
<1> QED
  BY <1>2, <1>3, <1>4, <1>5 DEF CtNext

\* Rival contracts: bodies, mails and evidence have their types (rival_contract.go).
THEOREM ContractTypes == CtSpec => []CtTypeOK
<1>1. CtInit => CtTypeOK
  BY EmptyText, CtAssumption DEF CtInit, CtTypeOK
<1> QED
  BY <1>1, ContractStepTyped, PTL DEF CtSpec

\* Whatever a producer wrote, no line of a complete contract is lost on its way to
\* the prompt, none of another body is, an id that could be derived is accepted
\* again, and evidence is split at its longest operator (rival_contract.go).
THEOREM ContractsAreSound == CtSpec => []ContractSound
<1>1. CtInit => ContractInv
  BY EmptyText, CtAssumption DEF CtInit, CtTypeOK, ContractInv
<1>2. ContractInv /\ [CtNext]_ctVars => ContractInv'
  <2> SUFFICES ASSUME ContractInv, [CtNext]_ctVars PROVE ContractInv'
    OBVIOUS
  <2>0. CtTypeOK'
    BY ContractStepTyped DEF ContractInv
  <2>1. CASE SendSpecification
    <3>1. PICK kind \in {"specification", "report"}, source \in CtSources, m \in CtMeta :
            ctMail' = << [kind |-> kind, body |-> ctBody, source |-> source,
                          meta |-> [schema |-> m.schema, revision |-> m.revision, style |-> m.style,
                                    id |-> DeriveContractID(source)]] >>
      BY <2>1 DEF SendSpecification
    <3> DEFINE meta == [schema |-> m.schema, revision |-> m.revision, style |-> m.style, id |-> DeriveContractID(source)]
               mail == [kind |-> kind, body |-> ctBody, source |-> source, meta |-> meta]
    <3>2. mail.body = ctBody /\ mail.source = source /\ mail.meta.id = DeriveContractID(source)
      OBVIOUS
    <3>3. Mailed(mail)
      BY <3>2 DEF Mailed, ContractInv, CtTypeOK
    <3> QED
      BY <2>0, <3>1, <3>3 DEF ContractInv
  <2>2. CASE UNCHANGED ctMail
    BY <2>0, <2>2 DEF ContractInv
  <2>3. WriteContractLine \/ ReadBullet \/ UNCHANGED ctVars => UNCHANGED ctMail
    BY DEF WriteContractLine, ReadBullet, ctVars
  <2> QED
    BY <2>1, <2>2, <2>3 DEF CtNext
<1> QED
  BY <1>1, <1>2, ContractInvImplies, PTL DEF CtSpec

(***************************************************************************)
(* Prompts.                                                                *)
(***************************************************************************)

Joining == INSTANCE Folding WITH Step <- Join
Changing == INSTANCE Folding WITH Step <- Substitute
Choosing == INSTANCE Folding WITH Step <- ProcessFirst

\* Two texts, one behind the other.
LEMMA TextsBehind ==
  ASSUME NEW V, NEW s \in Seq(V), NEW t \in Seq(V)
  PROVE  /\ s \o t \in Seq(V) /\ Len(s \o t) = Len(s) + Len(t) /\ Len(s) \in Nat /\ Len(t) \in Nat
         /\ DOMAIN s = 1 .. Len(s) /\ DOMAIN t = 1 .. Len(t) /\ DOMAIN (s \o t) = 1 .. Len(s) + Len(t)
         /\ \A i \in 1 .. Len(s) : (s \o t)[i] = s[i]
         /\ \A i \in 1 .. Len(t) : (s \o t)[Len(s) + i] = t[i]
  OBVIOUS

\* Nothing in front of a text, and nothing behind it.
LEMMA BehindNothing ==
  ASSUME NEW V, NEW s \in Seq(V)
  PROVE  << >> \o s = s /\ s \o << >> = s
  OBVIOUS

\* One more token behind two texts.
LEMMA BehindAppend ==
  ASSUME NEW V, NEW s \in Seq(V), NEW t \in Seq(V), NEW x \in V
  PROVE  s \o Append(t, x) = Append(s \o t, x) /\ s \o << x >> = Append(s, x)
  OBVIOUS

\* Three texts: which two are joined first is no matter.
LEMMA BehindThree ==
  ASSUME NEW V, NEW s \in Seq(V), NEW t \in Seq(V), NEW u \in Seq(V)
  PROVE  (s \o t) \o u = s \o (t \o u)
  OBVIOUS

\* Parts joined.
LEMMA JoinedNothing == Joined(<< >>) = << >>
<1>1. Joining!Folded(<< >>, << >>) = << >>
  BY Joining!FoldEmpty
<1> QED
  BY <1>1 DEF Joined, FoldLeft, MapThenFoldSet, Max, Joining!Folded, Joining!Greatest

\* One more part comes last.
LEMMA JoinedAppend ==
  ASSUME NEW V, NEW ps \in Seq(Seq(V)), NEW p \in Seq(V)
  PROVE  Joined(Append(ps, p)) = Joined(ps) \o p
<1>1. \A q : Joined(q) = Joining!Folded(<< >>, q)
  BY DEF Joined, FoldLeft, MapThenFoldSet, Max, Joining!Folded, Joining!Greatest
<1>2. Joining!Folded(<< >>, Append(ps, p)) = Join(Joining!Folded(<< >>, ps), p)
  <2> DEFINE S == Seq(V)
  <2> HIDE DEF S
  <2>1. ps \in Seq(S) /\ p \in S
    BY DEF S
  <2> QED
    BY <2>1, Joining!FoldAppend
<1> QED
  BY <1>1, <1>2 DEF Join

\* Joined texts are a text.
LEMMA JoinedTyped ==
  ASSUME NEW V
  PROVE  \A ps \in Seq(Seq(V)) : Joined(ps) \in Seq(V)
<1> DEFINE S == Seq(V)
           G == {ps \in Seq(S) : Joined(ps) \in S}
<1>1. << >> \in G
  <2>1. << >> \in Seq(S) /\ << >> \in S
    BY EmptyText
  <2> QED
    BY <2>1, JoinedNothing
<1>2. ASSUME NEW ps \in Seq(S), NEW p \in S, ps \in G PROVE Append(ps, p) \in G
  <2>1. Joined(Append(ps, p)) = Joined(ps) \o p
    BY JoinedAppend
  <2>2. Joined(ps) \in Seq(V) /\ p \in Seq(V)
    BY <1>2
  <2>3. Joined(ps) \o p \in S
    BY <2>2
  <2> HIDE DEF S
  <2>4. Append(ps, p) \in Seq(S)
    OBVIOUS
  <2> QED
    BY <2>1, <2>3, <2>4
<1> HIDE DEF G, S
<1>3. Seq(S) \subseteq G
  BY <1>1, <1>2, Joining!SequencesGrow
<1> QED
  BY <1>3 DEF G, S

\* The parts of two lists, one list behind the other.
LEMMA JoinedBehind ==
  ASSUME NEW V, NEW ps \in Seq(Seq(V))
  PROVE  \A qs \in Seq(Seq(V)) : Joined(ps \o qs) = Joined(ps) \o Joined(qs)
<1> DEFINE S == Seq(V)
           G == {qs \in Seq(S) : Joined(ps \o qs) = Joined(ps) \o Joined(qs)}
<1>1. \A q \in Seq(S) : Joined(q) \in Seq(V)
  BY JoinedTyped
<1>2. << >> \in G
  <2>1. ps \o << >> = ps /\ Joined(ps) \o << >> = Joined(ps) /\ << >> \in Seq(S)
    BY <1>1, BehindNothing, EmptyText
  <2> QED
    BY <2>1, JoinedNothing
<1>3. ASSUME NEW qs \in Seq(S), NEW p \in S, qs \in G PROVE Append(qs, p) \in G
  <2> DEFINE pq == ps \o qs
  <2>1. ps \o Append(qs, p) = Append(pq, p) /\ pq \in Seq(S)
    <3> HIDE DEF S
    <3>1. ps \in Seq(S)
      BY DEF S
    <3> QED
      BY <3>1, BehindAppend, TextsBehind
  <2> HIDE DEF pq
  <2>2. Joined(Append(pq, p)) = Joined(pq) \o p /\ Joined(Append(qs, p)) = Joined(qs) \o p
    BY <2>1, JoinedAppend
  <2>3. Joined(pq) = Joined(ps) \o Joined(qs)
    BY <1>3 DEF pq
  <2>4. (Joined(ps) \o Joined(qs)) \o p = Joined(ps) \o (Joined(qs) \o p)
    <3>1. Joined(ps) \in Seq(V) /\ Joined(qs) \in Seq(V) /\ p \in Seq(V)
      BY <1>1
    <3> QED
      BY <3>1, BehindThree
  <2>5. Append(qs, p) \in Seq(S)
    <3> HIDE DEF S
    <3> QED
      OBVIOUS
  <2> QED
    BY <2>1, <2>2, <2>3, <2>4, <2>5
<1> HIDE DEF G, S
<1>4. Seq(S) \subseteq G
  BY <1>2, <1>3, Joining!SequencesGrow
<1> QED
  BY <1>4 DEF G, S

\* A text whose every token is replaced by a text.
Parts(t, f) == [i \in DOMAIN t |-> f[t[i]]]
Spread(t, f) == Joined(Parts(t, f))

\* Each token has its part.
LEMMA PartsAt ==
  ASSUME NEW T, NEW f, NEW t \in Seq(T)
  PROVE  /\ Len(Parts(t, f)) = Len(t) /\ Len(t) \in Nat
         /\ \A i \in 1 .. Len(t) : Parts(t, f)[i] = f[t[i]]
<1>1. DOMAIN t = 1 .. Len(t) /\ Len(t) \in Nat /\ \A i \in 1 .. Len(t) : t[i] \in T
  OBVIOUS
<1>2. Parts(t, f) = [i \in 1 .. Len(t) |-> f[t[i]]]
  BY <1>1 DEF Parts
<1> QED
  BY <1>1, <1>2

\* The parts are texts.
LEMMA PartsTyped ==
  ASSUME NEW T, NEW S, NEW f \in [T -> S], NEW t \in Seq(T)
  PROVE  Parts(t, f) \in Seq(S)
<1>1. DOMAIN t = 1 .. Len(t) /\ Len(t) \in Nat /\ \A i \in 1 .. Len(t) : t[i] \in T
  OBVIOUS
<1>2. \A i \in 1 .. Len(t) : f[t[i]] \in S
  BY <1>1
<1>3. Parts(t, f) = [i \in 1 .. Len(t) |-> f[t[i]]]
  BY <1>1 DEF Parts
<1> QED
  BY <1>1, <1>2, <1>3

\* One more token has one more part.
LEMMA PartsAppend ==
  ASSUME NEW T, NEW S, NEW f \in [T -> S], NEW t \in Seq(T), NEW x \in T
  PROVE  Parts(Append(t, x), f) = Append(Parts(t, f), f[x])
<1> DEFINE r == Append(t, x)
           p == Parts(r, f)
           q == Parts(t, f)
           y == f[x]
           m == Append(q, y)
<1>1. r \in Seq(T) /\ Len(r) = Len(t) + 1 /\ Len(t) \in Nat /\ r[Len(t) + 1] = x /\ \A i \in 1 .. Len(t) : r[i] = t[i]
  BY TokenAdded
<1> HIDE DEF r
<1>2. p \in Seq(S) /\ Len(p) = Len(t) + 1 /\ \A i \in 1 .. Len(t) + 1 : p[i] = f[r[i]]
  <2>1. p \in Seq(S) /\ Len(p) = Len(r) /\ \A i \in 1 .. Len(r) : p[i] = f[r[i]]
    BY <1>1, PartsTyped, PartsAt
  <2> QED
    BY <1>1, <2>1
<1>3. q \in Seq(S) /\ Len(q) = Len(t) /\ \A i \in 1 .. Len(t) : q[i] = f[t[i]]
  BY PartsTyped, PartsAt
<1>4. y \in S
  OBVIOUS
<1> HIDE DEF p, q, y
<1>5. m \in Seq(S) /\ Len(m) = Len(t) + 1 /\ m[Len(t) + 1] = y /\ \A i \in 1 .. Len(t) : m[i] = q[i]
  BY <1>3, <1>4, TokenAdded
<1> HIDE DEF m
<1>6. \A i \in 1 .. Len(t) + 1 : i \in 1 .. Len(t) \/ i = Len(t) + 1
  BY <1>1
<1>7. \A i \in 1 .. Len(t) + 1 : p[i] = m[i]
  BY <1>1, <1>2, <1>3, <1>5, <1>6 DEF y
<1>8. p = m
  BY <1>2, <1>5, <1>7, SameLines
<1> QED
  BY <1>8 DEF p, m, q, y, r

\* The parts of two texts.
LEMMA PartsBehind ==
  ASSUME NEW T, NEW S, NEW f \in [T -> S], NEW t \in Seq(T), NEW u \in Seq(T)
  PROVE  Parts(t \o u, f) = Parts(t, f) \o Parts(u, f)
<1> DEFINE r == t \o u
           p == Parts(r, f)
           a == Parts(t, f)
           b == Parts(u, f)
           m == a \o b
<1>1. /\ r \in Seq(T) /\ Len(r) = Len(t) + Len(u) /\ Len(t) \in Nat /\ Len(u) \in Nat
      /\ \A i \in 1 .. Len(t) : r[i] = t[i]
      /\ \A i \in 1 .. Len(u) : r[Len(t) + i] = u[i]
  BY TextsBehind
<1> HIDE DEF r
<1>2. p \in Seq(S) /\ Len(p) = Len(t) + Len(u) /\ \A i \in 1 .. Len(t) + Len(u) : p[i] = f[r[i]]
  <2>1. p \in Seq(S) /\ Len(p) = Len(r) /\ \A i \in 1 .. Len(r) : p[i] = f[r[i]]
    <3>1. p \in Seq(S)
      BY <1>1, PartsTyped
    <3>2. Len(p) = Len(r) /\ \A i \in 1 .. Len(r) : p[i] = f[r[i]]
      BY <1>1, PartsAt
    <3> QED
      BY <3>1, <3>2
  <2> QED
    BY <1>1, <2>1
<1>3. a \in Seq(S) /\ Len(a) = Len(t) /\ \A i \in 1 .. Len(t) : a[i] = f[t[i]]
  BY PartsTyped, PartsAt
<1>4. b \in Seq(S) /\ Len(b) = Len(u) /\ \A i \in 1 .. Len(u) : b[i] = f[u[i]]
  BY PartsTyped, PartsAt
<1> HIDE DEF p, a, b
<1>5. /\ m \in Seq(S) /\ Len(m) = Len(t) + Len(u) /\ \A i \in 1 .. Len(t) : m[i] = a[i]
      /\ \A i \in 1 .. Len(u) : m[Len(t) + i] = b[i]
  <2>1. /\ m \in Seq(S) /\ Len(m) = Len(a) + Len(b) /\ \A i \in 1 .. Len(a) : m[i] = a[i]
        /\ \A i \in 1 .. Len(b) : m[Len(a) + i] = b[i]
    <3>1. a \in Seq(S) /\ b \in Seq(S)
      BY <1>3, <1>4
    <3>2. m \in Seq(S)
      BY <3>1, TextsBehind
    <3>3. Len(m) = Len(a) + Len(b)
      BY <3>1, TextsBehind
    <3>4. \A i \in 1 .. Len(a) : m[i] = a[i]
      BY <3>1, TextsBehind
    <3>5. \A i \in 1 .. Len(b) : m[Len(a) + i] = b[i]
      BY <3>1, TextsBehind
    <3> QED
      BY <3>2, <3>3, <3>4, <3>5
  <2> QED
    BY <1>3, <1>4, <2>1
<1> HIDE DEF m
<1>6. ASSUME NEW i \in 1 .. Len(t) + Len(u) PROVE p[i] = m[i]
  <2>1. CASE i <= Len(t)
    <3>1. i \in 1 .. Len(t)
      BY <1>1, <2>1
    <3> QED
      BY <1>1, <1>2, <1>3, <1>5, <3>1
  <2>2. CASE ~ (i <= Len(t))
    <3>1. i - Len(t) \in 1 .. Len(u) /\ Len(t) + (i - Len(t)) = i
      BY <1>1, <2>2
    <3>2. r[i] = u[i - Len(t)] /\ m[i] = b[i - Len(t)] /\ b[i - Len(t)] = f[u[i - Len(t)]]
      BY <1>1, <1>4, <1>5, <3>1
    <3> QED
      BY <1>2, <3>2
  <2> QED
    BY <2>1, <2>2
<1>7. p = m
  BY <1>2, <1>5, <1>6, SameLines
<1> QED
  BY <1>7 DEF p, m, a, b, r

\* The parts are a list of texts.
LEMMA PartsInSeq ==
  ASSUME NEW T, NEW V, NEW f \in [T -> Seq(V)], NEW t \in Seq(T)
  PROVE  Parts(t, f) \in Seq(Seq(V))
<1> DEFINE S == Seq(V)
<1>1. f \in [T -> S]
  OBVIOUS
<1> HIDE DEF S
<1>2. Parts(t, f) \in Seq(S)
  BY <1>1, PartsTyped
<1> QED
  BY <1>2 DEF S

\* What the tokens become is a text again.
LEMMA SpreadTyped ==
  ASSUME NEW T, NEW V, NEW f \in [T -> Seq(V)], NEW t \in Seq(T)
  PROVE  Spread(t, f) \in Seq(V)
<1>1. Parts(t, f) \in Seq(Seq(V))
  BY PartsInSeq
<1> QED
  BY <1>1, JoinedTyped DEF Spread

\* Nothing becomes nothing.
LEMMA SpreadNothing == \A f : Spread(<< >>, f) = << >>
<1> TAKE f
<1>1. Parts(<< >>, f) = << >>
  BY DEF Parts
<1> QED
  BY <1>1, JoinedNothing DEF Spread

\* One more token adds its part.
LEMMA SpreadAppend ==
  ASSUME NEW T, NEW V, NEW f \in [T -> Seq(V)], NEW t \in Seq(T), NEW x \in T
  PROVE  Spread(Append(t, x), f) = Spread(t, f) \o f[x]
<1> DEFINE ps == Parts(t, f)
           y == f[x]
           S == Seq(V)
<1>1. f \in [T -> S]
  OBVIOUS
<1>2. ps \in Seq(Seq(V)) /\ y \in Seq(V)
  BY PartsInSeq
<1>3. Parts(Append(t, x), f) = Append(ps, y)
  <2> HIDE DEF S
  <2> QED
    BY <1>1, PartsAppend
<1> HIDE DEF ps, y
<1>4. Joined(Append(ps, y)) = Joined(ps) \o y
  BY <1>2, JoinedAppend
<1> QED
  BY <1>3, <1>4 DEF Spread, ps, y

\* Two texts are replaced one by one.
LEMMA SpreadBehind ==
  ASSUME NEW T, NEW V, NEW f \in [T -> Seq(V)], NEW t \in Seq(T), NEW u \in Seq(T)
  PROVE  Spread(t \o u, f) = Spread(t, f) \o Spread(u, f)
<1> DEFINE ps == Parts(t, f)
           qs == Parts(u, f)
           S == Seq(V)
<1>1. f \in [T -> S]
  OBVIOUS
<1>2. ps \in Seq(Seq(V)) /\ qs \in Seq(Seq(V))
  BY PartsInSeq
<1>3. Parts(t \o u, f) = ps \o qs
  <2> HIDE DEF S
  <2> QED
    BY <1>1, PartsBehind
<1> HIDE DEF ps, qs
<1>4. Joined(ps \o qs) = Joined(ps) \o Joined(qs)
  BY <1>2, JoinedBehind
<1> QED
  BY <1>3, <1>4 DEF Spread, ps, qs

\* One token becomes its part.
LEMMA SpreadOne ==
  ASSUME NEW T, NEW V, NEW f \in [T -> Seq(V)], NEW x \in T
  PROVE  Spread(<< x >>, f) = f[x]
<1> DEFINE y == f[x]
<1>1. << >> \in Seq(T) /\ Append(<< >>, x) = << x >>
  BY EmptyText
<1>2. Spread(Append(<< >>, x), f) = Spread(<< >>, f) \o y
  BY <1>1, SpreadAppend
<1>3. y \in Seq(V)
  OBVIOUS
<1> HIDE DEF y
<1>4. << >> \o y = y
  BY <1>3, BehindNothing
<1> QED
  BY <1>1, <1>2, <1>4, SpreadNothing DEF y

\* Every token of T is replaced by a text of V.
Replaces(f, T, V) == f \in [T -> Seq(V)]

\* Replaced twice, a text is what its tokens are after both replacements.
LEMMA SpreadTwice ==
  ASSUME NEW T, NEW V, NEW W, NEW f, NEW g, NEW h, Replaces(f, T, V), Replaces(g, V, W), Replaces(h, T, W),
         \A x \in T : h[x] = Spread(f[x], g)
  PROVE  \A t \in Seq(T) : Spread(Spread(t, f), g) = Spread(t, h)
<1> DEFINE G == {t \in Seq(T) : Spread(Spread(t, f), g) = Spread(t, h)}
<1>1. f \in [T -> Seq(V)] /\ g \in [V -> Seq(W)] /\ h \in [T -> Seq(W)]
  BY DEF Replaces
<1>2. << >> \in G
  BY EmptyText, SpreadNothing
<1>3. ASSUME NEW t \in Seq(T), NEW x \in T, t \in G PROVE Append(t, x) \in G
  <2> DEFINE a == Spread(t, f)
             b == f[x]
  <2>1. Spread(Append(t, x), f) = a \o b
    BY <1>1, SpreadAppend
  <2>2. a \in Seq(V) /\ b \in Seq(V)
    BY <1>1, SpreadTyped
  <2>3. Spread(a, g) = Spread(t, h) /\ h[x] = Spread(b, g)
    BY <1>3
  <2> HIDE DEF a, b
  <2>4. Spread(a \o b, g) = Spread(a, g) \o Spread(b, g)
    BY <1>1, <2>2, SpreadBehind
  <2>5. Spread(Append(t, x), h) = Spread(t, h) \o h[x]
    BY <1>1, SpreadAppend
  <2>6. Append(t, x) \in Seq(T)
    BY TokenAdded
  <2> QED
    BY <2>1, <2>3, <2>4, <2>5, <2>6
<1> HIDE DEF G
<1>4. Seq(T) \subseteq G
  BY <1>2, <1>3, Joining!SequencesGrow
<1> QED
  BY <1>4 DEF G

\* A text of tokens that stay as they are stays as it is.
LEMMA SpreadSame ==
  ASSUME NEW T, NEW V, NEW f \in [T -> Seq(V)], NEW U, U \subseteq T, \A x \in U : f[x] = << x >>
  PROVE  \A t \in Seq(U) : Spread(t, f) = t
<1> DEFINE G == {t \in Seq(U) : Spread(t, f) = t}
<1>1. << >> \in G
  BY SpreadNothing, EmptyText
<1>2. ASSUME NEW t \in Seq(U), NEW x \in U, t \in G PROVE Append(t, x) \in G
  <2>1. t \in Seq(T) /\ x \in T
    OBVIOUS
  <2>2. Spread(Append(t, x), f) = Spread(t, f) \o f[x]
    BY <2>1, SpreadAppend
  <2>3. t \o << x >> = Append(t, x) /\ Append(t, x) \in Seq(U)
    BY BehindAppend, TokenAdded
  <2> QED
    BY <1>2, <2>2, <2>3
<1> HIDE DEF G
<1>3. Seq(U) \subseteq G
  BY <1>1, <1>2, Joining!SequencesGrow
<1> QED
  BY <1>3 DEF G

\* The marks that stand for the variables while they are replaced.
Literal == {"k", "j", "", "gradient", "wave target", "linear scope", "issues on github", "issues on linear", "tools",
            "context", "inbox", "mission wave", "mission linear", "glossary", "true", "false"} \union ToSet(Names)
Name == STRING \union Literal
Writable == [kind : {"text", "var", "if", "else", "end"}, name : Name]
\* A text while its variables are replaced may hold their marks too.
Piece == Writable \union {Sentinel(k) : k \in Name}
Change == [old : Piece, new : Seq(Piece)]
\* The changes of a list, one after the other.
Changed(t, cs) == FoldLeft(Substitute, t, cs)

\* A mark is nothing a text can hold.
LEMMA SentinelsApart == \A k : Sentinel(k) \notin Writable /\ \A n : Sentinel(k) # Var(n)
<1> TAKE k
<1>1. Sentinel(k).kind = "mark" /\ \A x \in Writable : x.kind \in {"text", "var", "if", "else", "end"}
  BY DEF Sentinel, Writable
<1>2. \A n : Var(n).kind = "var"
  BY DEF Var
<1> QED
  BY <1>1, <1>2

\* Marks and placeholders of two names are two.
LEMMA NamesApart == \A k, n : (Sentinel(k) = Sentinel(n) => k = n) /\ (Var(k) = Var(n) => k = n)
<1> TAKE k, n
<1>1. Sentinel(k).name = k /\ Sentinel(n).name = n /\ Var(k).name = k /\ Var(n).name = n
  BY DEF Sentinel, Var
<1> QED
  BY <1>1

\* What one change makes of a token.
ByChange(c) == [x \in Piece |-> IF x = c.old THEN c.new ELSE << x >>]

\* A change replaces the tokens of a text, each on its own.
LEMMA ChangeIs ==
  ASSUME NEW c \in Change
  PROVE  /\ ByChange(c) \in [Piece -> Seq(Piece)]
         /\ \A t \in Seq(Piece) : Substitute(t, c) = Spread(t, ByChange(c))
<1>1. c.old \in Piece /\ c.new \in Seq(Piece)
  <2> HIDE DEF Piece
  <2> QED
    BY DEF Change
<1>2. \A x \in Piece : << x >> \in Seq(Piece)
  OBVIOUS
<1>3. ByChange(c) \in [Piece -> Seq(Piece)]
  <2> DEFINE S == Seq(Piece)
  <2> HIDE DEF S
  <2>1. c.new \in S /\ \A x \in Piece : << x >> \in S
    BY <1>1, <1>2 DEF S
  <2>2. ByChange(c) \in [Piece -> S]
    BY <2>1 DEF ByChange
  <2> QED
    BY <2>2 DEF S
<1>4. ASSUME NEW t \in Seq(Piece) PROVE Substitute(t, c) = Spread(t, ByChange(c))
  <2>1. \A i \in DOMAIN t : t[i] \in Piece
    OBVIOUS
  <2>2. Parts(t, ByChange(c)) = [i \in DOMAIN t |-> IF t[i] = c.old THEN c.new ELSE << t[i] >>]
    BY <2>1 DEF Parts, ByChange
  <2> QED
    BY <2>2 DEF Substitute, Spread
<1> QED
  BY <1>3, <1>4

\* No change leaves the text as it is.
LEMMA ChangedNothing == \A t : Changed(t, << >>) = t
<1>1. \A t, cs : Changed(t, cs) = Changing!Folded(t, cs)
  BY DEF Changed, FoldLeft, MapThenFoldSet, Max, Changing!Folded, Changing!Greatest
<1> QED
  BY <1>1, Changing!FoldEmpty

\* One more change is made last.
LEMMA ChangedAppend ==
  ASSUME NEW t, NEW cs \in Seq(Change), NEW c \in Change
  PROVE  Changed(t, Append(cs, c)) = Substitute(Changed(t, cs), c)
<1>1. \A q : Changed(t, q) = Changing!Folded(t, q)
  BY DEF Changed, FoldLeft, MapThenFoldSet, Max, Changing!Folded, Changing!Greatest
<1>2. Changing!Folded(t, Append(cs, c)) = Substitute(Changing!Folded(t, cs), c)
  BY Changing!FoldAppend
<1> QED
  BY <1>1, <1>2

\* What changes do to a text is what they do to its tokens.
ByChanges(cs) == [x \in Piece |-> Changed(<< x >>, cs)]

LEMMA ChangedIs ==
  \A cs \in Seq(Change) :
    /\ ByChanges(cs) \in [Piece -> Seq(Piece)]
    /\ \A t \in Seq(Piece) : Changed(t, cs) = Spread(t, ByChanges(cs))
<1> DEFINE P(q) == /\ ByChanges(q) \in [Piece -> Seq(Piece)]
                   /\ \A t \in Seq(Piece) : Changed(t, q) = Spread(t, ByChanges(q))
           G == {q \in Seq(Change) : P(q)}
<1>1. << >> \in G
  <2> DEFINE f == ByChanges(<< >>)
  <2>1. f = [x \in Piece |-> << x >>]
    BY ChangedNothing DEF ByChanges
  <2>2. f \in [Piece -> Seq(Piece)] /\ \A x \in Piece : f[x] = << x >>
    <3> DEFINE S == Seq(Piece)
    <3>1. \A x \in Piece : << x >> \in S
      OBVIOUS
    <3> HIDE DEF S, f
    <3>2. f \in [Piece -> S] /\ \A x \in Piece : f[x] = << x >>
      BY <2>1, <3>1
    <3> QED
      BY <3>2 DEF S
  <2> HIDE DEF f
  <2>3. \A t \in Seq(Piece) : Spread(t, f) = t
    BY <2>2, SpreadSame
  <2>4. << >> \in Seq(Change)
    BY EmptyText
  <2> QED
    BY <2>2, <2>3, <2>4, ChangedNothing DEF f
<1>2. ASSUME NEW q \in Seq(Change), NEW c \in Change, q \in G PROVE Append(q, c) \in G
  <2> DEFINE f == ByChanges(q)
             g == ByChange(c)
             h == ByChanges(Append(q, c))
  <2>1. f \in [Piece -> Seq(Piece)] /\ \A t \in Seq(Piece) : Changed(t, q) = Spread(t, f)
    BY <1>2
  <2>2. g \in [Piece -> Seq(Piece)] /\ \A t \in Seq(Piece) : Substitute(t, c) = Spread(t, g)
    BY ChangeIs
  <2>3. \A x \in Piece : f[x] = Changed(<< x >>, q)
    BY DEF ByChanges
  <2>4. h = [x \in Piece |-> Changed(<< x >>, Append(q, c))]
    BY DEF ByChanges
  <2> HIDE DEF f, g, h
  <2>5. \A t : Changed(t, Append(q, c)) = Substitute(Changed(t, q), c)
    BY ChangedAppend
  <2>6. \A x \in Piece : f[x] \in Seq(Piece)
    BY <2>1
  <2>7. \A x \in Piece : Changed(<< x >>, Append(q, c)) = Spread(f[x], g)
    BY <2>2, <2>3, <2>5, <2>6
  <2>8. h = [x \in Piece |-> Spread(f[x], g)]
    BY <2>4, <2>7
  <2>9. \A x \in Piece : Spread(f[x], g) \in Seq(Piece)
    BY <2>2, <2>6, SpreadTyped
  <2>10. h \in [Piece -> Seq(Piece)]
    BY <2>8, <2>9
  <2>11. ASSUME NEW t \in Seq(Piece) PROVE Changed(t, Append(q, c)) = Spread(t, h)
    <3>1. Spread(t, f) \in Seq(Piece)
      BY <2>1, SpreadTyped
    <3>2. Changed(t, Append(q, c)) = Spread(Spread(t, f), g)
      BY <2>1, <2>2, <2>5, <3>1
    <3>3. \A x \in Piece : h[x] = Spread(f[x], g)
      BY <2>8
    <3>4. Spread(Spread(t, f), g) = Spread(t, h)
      <4>1. Replaces(f, Piece, Piece) /\ Replaces(g, Piece, Piece) /\ Replaces(h, Piece, Piece)
        BY <2>1, <2>2, <2>10 DEF Replaces
      <4> QED
        BY <3>3, <4>1, SpreadTwice
    <3> QED
      BY <3>2, <3>4
  <2>12. Append(q, c) \in Seq(Change)
    BY TokenAdded
  <2> QED
    BY <2>10, <2>11, <2>12 DEF h
<1> HIDE DEF P, G
<1>3. Seq(Change) \subseteq G
  BY <1>1, <1>2, Changing!SequencesGrow
<1> QED
  BY <1>3 DEF G, P

\* What replacing the placeholders by marks, and the marks by values, makes of
\* one token.
MarkOf(k) == [old |-> Var(k), new |-> << Sentinel(k) >>]
ValueOf(k, v) == [old |-> Sentinel(k), new |-> v]
Marks(o) == [i \in DOMAIN o |-> MarkOf(o[i])]
Values(o, vars) == [i \in DOMAIN o |-> ValueOf(o[i], vars[o[i]])]
\* The variables have texts for values.
Valued(vars) == DOMAIN vars \subseteq Name /\ vars \in [DOMAIN vars -> Seq(Writable)]

\* Marks and values are changes of pieces.
LEMMA ChangesAre ==
  ASSUME NEW vars, Valued(vars), NEW k \in DOMAIN vars
  PROVE  /\ MarkOf(k) \in Change /\ ValueOf(k, vars[k]) \in Change
         /\ Var(k) \in Writable /\ Sentinel(k) \in Piece /\ vars[k] \in Seq(Writable)
<1>1. k \in Name /\ vars[k] \in Seq(Writable)
  BY DEF Valued
<1>2. Var(k) \in Writable
  BY <1>1 DEF Var, Writable
<1>3. Sentinel(k) \in Piece /\ Writable \subseteq Piece
  BY <1>1 DEF Piece
<1>4. << Sentinel(k) >> \in Seq(Piece) /\ vars[k] \in Seq(Piece)
  <2> HIDE DEF Piece, Writable
  <2> QED
    BY <1>1, <1>3
<1>5. MarkOf(k) \in Change
  <2> DEFINE S == Seq(Piece)
  <2>1. << Sentinel(k) >> \in S /\ Var(k) \in Piece
    BY <1>2, <1>3, <1>4
  <2> HIDE DEF S, Piece
  <2>2. MarkOf(k) \in [old : Piece, new : S]
    BY <2>1 DEF MarkOf
  <2> QED
    BY <2>2 DEF Change, S
<1>6. ValueOf(k, vars[k]) \in Change
  <2> DEFINE S == Seq(Piece)
             v == vars[k]
  <2>1. v \in S /\ Sentinel(k) \in Piece
    BY <1>3, <1>4
  <2> HIDE DEF S, Piece, v
  <2>2. ValueOf(k, v) \in [old : Piece, new : S]
    BY <2>1 DEF ValueOf
  <2> QED
    BY <2>2 DEF Change, S, v
<1> QED
  BY <1>1, <1>2, <1>3, <1>5, <1>6

\* One more variable has one more mark and one more value.
LEMMA ChangesGrow ==
  ASSUME NEW vars, Valued(vars), NEW o \in Seq(DOMAIN vars), NEW k \in DOMAIN vars
  PROVE  /\ Marks(o) \in Seq(Change) /\ Values(o, vars) \in Seq(Change)
         /\ Marks(Append(o, k)) = Append(Marks(o), MarkOf(k))
         /\ Values(Append(o, k), vars) = Append(Values(o, vars), ValueOf(k, vars[k]))
<1> DEFINE N == DOMAIN vars
           f == [n \in N |-> MarkOf(n)]
           g == [n \in N |-> ValueOf(n, vars[n])]
<1>1. f \in [N -> Change] /\ g \in [N -> Change]
  <2>1. \A n \in N : MarkOf(n) \in Change /\ ValueOf(n, vars[n]) \in Change
    BY ChangesAre
  <2> HIDE DEF N
  <2> QED
    BY <2>1
<1>2. \A q \in Seq(N) : Marks(q) = Parts(q, f) /\ Values(q, vars) = Parts(q, g)
  <2> SUFFICES ASSUME NEW q \in Seq(N) PROVE Marks(q) = Parts(q, f) /\ Values(q, vars) = Parts(q, g)
    OBVIOUS
  <2>1. \A i \in DOMAIN q : q[i] \in N
    OBVIOUS
  <2> QED
    BY <2>1 DEF Marks, Values, Parts
<1>3. Append(o, k) \in Seq(N) /\ f[k] = MarkOf(k) /\ g[k] = ValueOf(k, vars[k])
  BY TokenAdded
<1> HIDE DEF f, g, N
<1>4. o \in Seq(N) /\ k \in N
  BY DEF N
<1>5. Parts(o, f) \in Seq(Change) /\ Parts(o, g) \in Seq(Change)
  BY <1>1, <1>4, PartsTyped
<1>6. Parts(Append(o, k), f) = Append(Parts(o, f), f[k]) /\ Parts(Append(o, k), g) = Append(Parts(o, g), g[k])
  BY <1>1, <1>4, PartsAppend
<1> QED
  BY <1>2, <1>3, <1>4, <1>5, <1>6

\* A change, on one token.
LEMMA OneChanged ==
  ASSUME NEW c \in Change, NEW x \in Piece
  PROVE  Substitute(<< x >>, c) = IF x = c.old THEN c.new ELSE << x >>
<1>1. << x >> \in Seq(Piece)
  OBVIOUS
<1>2. ByChange(c) \in [Piece -> Seq(Piece)] /\ Substitute(<< x >>, c) = Spread(<< x >>, ByChange(c))
  BY <1>1, ChangeIs
<1>3. Spread(<< x >>, ByChange(c)) = ByChange(c)[x]
  BY <1>2, SpreadOne
<1> QED
  BY <1>2, <1>3 DEF ByChange

\* A placeholder of a variable in the list becomes its mark, anything else stays.
LEMMA MarkedIs ==
  ASSUME NEW vars, Valued(vars), NEW x \in Writable
  PROVE  \A o \in Seq(DOMAIN vars) :
           Changed(<< x >>, Marks(o)) =
             IF \E k \in ToSet(o) : x = Var(k) THEN << Sentinel(x.name) >> ELSE << x >>
<1> DEFINE N == DOMAIN vars
           R(o) == IF \E k \in ToSet(o) : x = Var(k) THEN << Sentinel(x.name) >> ELSE << x >>
           G == {o \in Seq(N) : Changed(<< x >>, Marks(o)) = R(o)}
<1>1. x \in Piece /\ \A k : Var(k).name = k
  BY DEF Piece, Var
<1>2. << >> \in G
  <2>1. Marks(<< >>) = << >> /\ ToSet(<< >>) = {}
    BY DEF Marks, ToSet
  <2>2. R(<< >>) = << x >>
    BY <2>1
  <2>3. << >> \in Seq(N)
    BY EmptyText
  <2> QED
    BY <2>1, <2>2, <2>3, ChangedNothing
<1>3. ASSUME NEW o \in Seq(N), NEW k \in N, o \in G PROVE Append(o, k) \in G
  <2>1. Changed(<< x >>, Marks(Append(o, k))) = Substitute(Changed(<< x >>, Marks(o)), MarkOf(k))
    <3>1. Marks(o) \in Seq(Change) /\ MarkOf(k) \in Change /\ Marks(Append(o, k)) = Append(Marks(o), MarkOf(k))
      BY ChangesGrow, ChangesAre
    <3> QED
      BY <3>1, ChangedAppend
  <2>2. ToSet(Append(o, k)) = ToSet(o) \union {k} /\ ToSet(o) \subseteq N /\ Append(o, k) \in Seq(N)
    BY ToSetAppend, TokenAdded DEF ToSet
  <2>3. Changed(<< x >>, Marks(o)) = R(o)
    BY <1>3
  <2>4. MarkOf(k) \in Change /\ MarkOf(k).old = Var(k) /\ MarkOf(k).new = << Sentinel(k) >>
    BY ChangesAre DEF MarkOf
  <2>5. CASE \E n \in ToSet(o) : x = Var(n)
    <3>1. PICK n \in ToSet(o) : x = Var(n)
      BY <2>5
    <3>2. x.name = n /\ n \in N /\ R(o) = << Sentinel(n) >> /\ R(Append(o, k)) = << Sentinel(n) >>
      BY <1>1, <2>2, <2>5, <3>1
    <3>3. Sentinel(n) \in Piece /\ Sentinel(n) # Var(k)
      BY <3>2, ChangesAre, SentinelsApart
    <3>4. Substitute(<< Sentinel(n) >>, MarkOf(k)) = << Sentinel(n) >>
      BY <2>4, <3>3, OneChanged
    <3> QED
      BY <2>1, <2>2, <2>3, <3>2, <3>4
  <2>6. CASE ~ \E n \in ToSet(o) : x = Var(n)
    <3>1. R(o) = << x >>
      BY <2>6
    <3>2. Substitute(<< x >>, MarkOf(k)) = IF x = Var(k) THEN << Sentinel(k) >> ELSE << x >>
      BY <1>1, <2>4, OneChanged
    <3>3. (\E n \in ToSet(Append(o, k)) : x = Var(n)) <=> x = Var(k)
      BY <2>2, <2>6
    <3>4. R(Append(o, k)) = IF x = Var(k) THEN << Sentinel(k) >> ELSE << x >>
      BY <1>1, <3>3
    <3> QED
      BY <2>1, <2>2, <2>3, <3>1, <3>2, <3>4
  <2> QED
    BY <2>5, <2>6
<1> HIDE DEF G, N
<1>4. Seq(N) \subseteq G
  BY <1>2, <1>3, Joining!SequencesGrow
<1> QED
  BY <1>4 DEF G, N

\* What stands in a value is not looked at again.
LEMMA ValueStays ==
  ASSUME NEW c \in Change, c.old \notin Writable, NEW t \in Seq(Writable)
  PROVE  Substitute(t, c) = t
<1> DEFINE f == ByChange(c)
<1>1. f \in [Piece -> Seq(Piece)] /\ Writable \subseteq Piece /\ \A x \in Writable : f[x] = << x >>
  BY ChangeIs DEF ByChange, Piece
<1>2. t \in Seq(Piece)
  <2> HIDE DEF Writable, Piece
  <2> QED
    BY <1>1
<1>3. Substitute(t, c) = Spread(t, f)
  BY <1>2, ChangeIs
<1> HIDE DEF f
<1>4. \A q \in Seq(Writable) : Spread(q, f) = q
  BY <1>1, SpreadSame
<1> QED
  BY <1>3, <1>4

\* The mark of a variable in the list becomes its value.
LEMMA FilledIs ==
  ASSUME NEW vars, Valued(vars), NEW x \in Writable, NEW k \in DOMAIN vars
  PROVE  \A o \in Seq(DOMAIN vars) :
           /\ Changed(<< x >>, Values(o, vars)) = << x >>
           /\ Changed(<< Sentinel(k) >>, Values(o, vars)) = IF k \in ToSet(o) THEN vars[k] ELSE << Sentinel(k) >>
<1> DEFINE N == DOMAIN vars
           R(o) == IF k \in ToSet(o) THEN vars[k] ELSE << Sentinel(k) >>
           G == {o \in Seq(N) : Changed(<< x >>, Values(o, vars)) = << x >>
                              /\ Changed(<< Sentinel(k) >>, Values(o, vars)) = R(o)}
<1>1. << x >> \in Seq(Writable) /\ Sentinel(k) \in Piece /\ vars[k] \in Seq(Writable)
  <2>1. << x >> \in Seq(Writable)
    OBVIOUS
  <2> QED
    BY <2>1, ChangesAre
<1>2. << >> \in G
  <2>1. Values(<< >>, vars) = << >> /\ ToSet(<< >>) = {}
    BY DEF Values, ToSet
  <2>2. << >> \in Seq(N)
    BY EmptyText
  <2> QED
    BY <2>1, <2>2, ChangedNothing
<1>3. ASSUME NEW o \in Seq(N), NEW n \in N, o \in G PROVE Append(o, n) \in G
  <2> DEFINE c == ValueOf(n, vars[n])
  <2>1. \A t : Changed(t, Values(Append(o, n), vars)) = Substitute(Changed(t, Values(o, vars)), c)
    <3>1. Values(o, vars) \in Seq(Change) /\ c \in Change /\ Values(Append(o, n), vars) = Append(Values(o, vars), c)
      BY ChangesGrow, ChangesAre
    <3> QED
      BY <3>1, ChangedAppend
  <2>2. ToSet(Append(o, n)) = ToSet(o) \union {n} /\ Append(o, n) \in Seq(N)
    BY ToSetAppend, TokenAdded
  <2>3. Changed(<< x >>, Values(o, vars)) = << x >> /\ Changed(<< Sentinel(k) >>, Values(o, vars)) = R(o)
    BY <1>3
  <2>4. c \in Change /\ c.old = Sentinel(n) /\ c.new = vars[n] /\ c.old \notin Writable
    BY ChangesAre, SentinelsApart DEF ValueOf
  <2> HIDE DEF c
  <2>5. Changed(<< x >>, Values(Append(o, n), vars)) = << x >>
    BY <1>1, <2>1, <2>3, <2>4, ValueStays
  <2>6. Changed(<< Sentinel(k) >>, Values(Append(o, n), vars)) = R(Append(o, n))
    <3>1. CASE k \in ToSet(o)
      <4>1. Substitute(vars[k], c) = vars[k]
        BY <1>1, <2>4, ValueStays
      <4> QED
        BY <2>1, <2>2, <2>3, <3>1, <4>1
    <3>2. CASE k \notin ToSet(o)
      <4>1. Substitute(<< Sentinel(k) >>, c) = IF Sentinel(k) = Sentinel(n) THEN vars[n] ELSE << Sentinel(k) >>
        BY <1>1, <2>4, OneChanged
      <4>2. Sentinel(k) = Sentinel(n) <=> k = n
        BY NamesApart
      <4>3. R(Append(o, n)) = IF k = n THEN vars[n] ELSE << Sentinel(k) >>
        BY <2>2, <3>2
      <4> QED
        BY <2>1, <2>3, <3>2, <4>1, <4>2, <4>3
    <3> QED
      BY <3>1, <3>2
  <2> QED
    BY <2>2, <2>5, <2>6
<1> HIDE DEF G, N
<1>4. Seq(N) \subseteq G
  BY <1>2, <1>3, Joining!SequencesGrow
<1> QED
  BY <1>4 DEF G, N

\* A placeholder of a variable becomes its value, every other token stays.
Fill(vars) == [x \in Writable |-> IF \E k \in DOMAIN vars : x = Var(k) THEN vars[x.name] ELSE << x >>]

\* A filled token is a text.
LEMMA FillTyped ==
  ASSUME NEW vars, Valued(vars)
  PROVE  Fill(vars) \in [Writable -> Seq(Writable)]
<1> DEFINE S == Seq(Writable)
<1>1. \A x \in Writable : << x >> \in S
  OBVIOUS
<1>2. \A k \in DOMAIN vars : vars[k] \in S /\ Var(k).name = k
  BY DEF Valued, Var
<1>3. Fill(vars) \in [Writable -> S]
  <2> HIDE DEF S, Writable
  <2> QED
    BY <1>1, <1>2 DEF Fill
<1> QED
  BY <1>3

\* ReplaceVars fills the tokens of the text, in whatever order it meets the variables.
LEMMA ReplacedIs ==
  ASSUME NEW vars, Valued(vars), NEW o \in Seq(DOMAIN vars), ToSet(o) = DOMAIN vars
  PROVE  \A t \in Seq(Writable) : ReplaceVars(t, vars, o) = Spread(t, Fill(vars))
<1> SUFFICES ASSUME NEW t \in Seq(Writable) PROVE ReplaceVars(t, vars, o) = Spread(t, Fill(vars))
  OBVIOUS
<1> DEFINE f == ByChanges(Marks(o))
           g == ByChanges(Values(o, vars))
           h == [x \in Piece |-> Spread(f[x], g)]
<1>1. Marks(o) \in Seq(Change) /\ Values(o, vars) \in Seq(Change)
  <2> DEFINE N == DOMAIN vars
             p == [n \in N |-> MarkOf(n)]
             q == [n \in N |-> ValueOf(n, vars[n])]
  <2>1. p \in [N -> Change] /\ q \in [N -> Change]
    <3>1. \A n \in N : MarkOf(n) \in Change /\ ValueOf(n, vars[n]) \in Change
      BY ChangesAre
    <3> HIDE DEF N
    <3> QED
      BY <3>1
  <2>2. Marks(o) = Parts(o, p) /\ Values(o, vars) = Parts(o, q)
    <3>1. \A i \in DOMAIN o : o[i] \in N
      OBVIOUS
    <3> QED
      BY <3>1 DEF Marks, Values, Parts
  <2> HIDE DEF p, q
  <2> QED
    BY <2>1, <2>2, PartsTyped
<1>2. /\ f \in [Piece -> Seq(Piece)] /\ g \in [Piece -> Seq(Piece)]
      /\ \A u \in Seq(Piece) : Changed(u, Marks(o)) = Spread(u, f) /\ Changed(u, Values(o, vars)) = Spread(u, g)
      /\ \A x \in Piece : f[x] = Changed(<< x >>, Marks(o)) /\ g[x] = Changed(<< x >>, Values(o, vars))
  BY <1>1, ChangedIs DEF ByChanges
<1>3. ReplaceVars(t, vars, o) = Changed(Changed(t, Marks(o)), Values(o, vars))
  BY DEF ReplaceVars, Changed, Marks, Values, MarkOf, ValueOf
<1>4. Writable \subseteq Piece
  BY DEF Piece
<1>5. t \in Seq(Piece)
  <2> HIDE DEF Writable, Piece
  <2> QED
    BY <1>4
<1> HIDE DEF f, g
<1>6. ReplaceVars(t, vars, o) = Spread(Spread(t, f), g)
  BY <1>2, <1>3, <1>5, SpreadTyped
<1>7. \A x \in Piece : f[x] \in Seq(Piece) /\ h[x] = Spread(f[x], g)
  BY <1>2
<1>8. h \in [Piece -> Seq(Piece)]
  <2>1. \A x \in Piece : Spread(f[x], g) \in Seq(Piece)
    BY <1>2, <1>7, SpreadTyped
  <2> QED
    BY <2>1
<1> HIDE DEF h
<1>9. Spread(Spread(t, f), g) = Spread(t, h)
  <2>1. Replaces(f, Piece, Piece) /\ Replaces(g, Piece, Piece) /\ Replaces(h, Piece, Piece)
    BY <1>2, <1>8 DEF Replaces
  <2> QED
    BY <1>5, <1>7, <2>1, SpreadTwice
<1>10. \A y \in Piece : Spread(<< y >>, g) = g[y]
  <2>1. g \in [Piece -> Seq(Piece)]
    BY <1>2
  <2> QED
    BY ONLY <2>1, SpreadOne
<1>11. ASSUME NEW x \in Writable PROVE h[x] = Fill(vars)[x]
  <2>1. x \in Piece /\ h[x] = Spread(f[x], g) /\ f[x] = Changed(<< x >>, Marks(o))
    BY <1>2, <1>4, <1>7
  <2>2. f[x] = IF \E k \in DOMAIN vars : x = Var(k) THEN << Sentinel(x.name) >> ELSE << x >>
    BY <2>1, MarkedIs
  <2>3. Fill(vars)[x] = IF \E k \in DOMAIN vars : x = Var(k) THEN vars[x.name] ELSE << x >>
    BY DEF Fill
  <2>4. CASE \E k \in DOMAIN vars : x = Var(k)
    <3>1. PICK k \in DOMAIN vars : x = Var(k)
      BY <2>4
    <3>2. x.name = k
      BY <3>1 DEF Var
    <3>3. Sentinel(k) \in Piece
      BY ChangesAre
    <3>4. Spread(<< Sentinel(k) >>, g) = g[Sentinel(k)]
      BY <1>10, <3>3
    <3>5. g[Sentinel(k)] = Changed(<< Sentinel(k) >>, Values(o, vars))
      BY <1>2, <3>3
    <3>6. Changed(<< Sentinel(k) >>, Values(o, vars)) = vars[k]
      BY FilledIs
    <3> QED
      BY <2>1, <2>2, <2>3, <2>4, <3>2, <3>4, <3>5, <3>6
  <2>5. CASE ~ \E k \in DOMAIN vars : x = Var(k)
    <3>1. Spread(<< x >>, g) = g[x] /\ g[x] = Changed(<< x >>, Values(o, vars))
      BY <1>2, <1>10, <2>1
    <3>2. Changed(<< x >>, Values(o, vars)) = << x >>
      <4>1. CASE DOMAIN vars = {}
        <5>1. \A i \in DOMAIN o : o[i] \in DOMAIN vars
          OBVIOUS
        <5>2. DOMAIN o = {}
          BY <4>1, <5>1
        <5>3. Values(o, vars) = << >>
          BY <5>2 DEF Values
        <5> QED
          BY <5>3, ChangedNothing
      <4>2. CASE DOMAIN vars # {}
        BY <4>2, FilledIs
      <4> QED
        BY <4>1, <4>2
    <3> QED
      BY <2>1, <2>2, <2>3, <2>5, <3>1, <3>2
  <2> QED
    BY <2>4, <2>5
<1>12. Parts(t, h) = Parts(t, Fill(vars))
  <2>1. \A i \in DOMAIN t : t[i] \in Writable
    OBVIOUS
  <2> QED
    BY <1>11, <2>1 DEF Parts
<1> QED
  BY <1>6, <1>9, <1>12 DEF Spread

\* Parts of a text.
LEMMA WithinText ==
  ASSUME NEW V, NEW s \in Seq(V), NEW a \in 1 .. Len(s) + 1, NEW b \in 0 .. Len(s), a <= b + 1
  PROVE  /\ SubSeq(s, a, b) \in Seq(V) /\ Len(SubSeq(s, a, b)) = b + 1 - a
         /\ \A i \in 1 .. b + 1 - a : SubSeq(s, a, b)[i] = s[a + i - 1]
  OBVIOUS

\* A text is its two parts, wherever it is cut.
LEMMA PartsOfText ==
  ASSUME NEW V, NEW s \in Seq(V), NEW a \in 1 .. Len(s) + 1, NEW b \in 0 .. Len(s), NEW c \in 0 .. Len(s), a <= b + 1, b <= c
  PROVE  SubSeq(s, a, c) = SubSeq(s, a, b) \o SubSeq(s, b + 1, c)
<1> DEFINE x == SubSeq(s, a, b)
           y == SubSeq(s, b + 1, c)
           z == SubSeq(s, a, c)
           m == x \o y
<1>1. Len(s) \in Nat /\ a \in Nat /\ b \in Nat /\ c \in Nat /\ b + 1 \in 1 .. Len(s) + 1 /\ b + 1 <= c + 1 /\ a <= c + 1
  OBVIOUS
<1>2. x \in Seq(V) /\ Len(x) = b + 1 - a /\ \A i \in 1 .. b + 1 - a : x[i] = s[a + i - 1]
  BY WithinText
<1>3. y \in Seq(V) /\ Len(y) = c - b /\ \A i \in 1 .. c - b : y[i] = s[b + i]
  BY <1>1, WithinText
<1>4. z \in Seq(V) /\ Len(z) = c + 1 - a /\ \A i \in 1 .. c + 1 - a : z[i] = s[a + i - 1]
  BY <1>1, WithinText
<1> HIDE DEF x, y, z
<1>5. /\ m \in Seq(V) /\ Len(m) = Len(x) + Len(y) /\ \A i \in 1 .. Len(x) : m[i] = x[i]
      /\ \A i \in 1 .. Len(y) : m[Len(x) + i] = y[i]
  <2>1. x \in Seq(V) /\ y \in Seq(V)
    BY <1>2, <1>3
  <2> QED
    BY ONLY <2>1, TextsBehind
<1> HIDE DEF m
<1>6. ASSUME NEW i \in 1 .. c + 1 - a PROVE z[i] = m[i]
  <2>1. CASE i <= b + 1 - a
    <3>1. i \in 1 .. b + 1 - a
      BY <1>1, <2>1
    <3> QED
      BY <1>2, <1>4, <1>5, <3>1
  <2>2. CASE ~ (i <= b + 1 - a)
    <3> DEFINE j == i - (b + 1 - a)
    <3>1. j \in 1 .. c - b /\ Len(x) + j = i /\ b + j = a + i - 1
      BY <1>1, <1>2, <2>2
    <3> HIDE DEF j
    <3>2. m[Len(x) + j] = y[j] /\ y[j] = s[b + j]
      BY <1>3, <1>5, <3>1
    <3> QED
      BY <1>4, <3>1, <3>2
  <2> QED
    BY <2>1, <2>2
<1>7. Len(m) = c + 1 - a
  <2>1. Len(m) = (b + 1 - a) + (c - b)
    BY <1>2, <1>3, <1>5
  <2> QED
    BY ONLY <2>1, <1>1
<1>8. z = m
  BY <1>4, <1>5, <1>6, <1>7, SameLines
<1> QED
  BY <1>8 DEF z, m, x, y

\* A text from its first to its last token is the text.
LEMMA WholeText ==
  ASSUME NEW V, NEW s \in Seq(V)
  PROVE  SubSeq(s, 1, Len(s)) = s /\ \A i \in 1 .. Len(s) : SubSeq(s, i, i) = << s[i] >>
<1>1. Len(s) \in Nat
  OBVIOUS
<1>2. SubSeq(s, 1, Len(s)) = s
  <2>1. 1 \in 1 .. Len(s) + 1 /\ Len(s) \in 0 .. Len(s) /\ 1 <= Len(s) + 1 /\ Len(s) + 1 - 1 = Len(s) /\ \A i \in 1 .. Len(s) : 1 + i - 1 = i
    BY <1>1
  <2>2. /\ SubSeq(s, 1, Len(s)) \in Seq(V) /\ Len(SubSeq(s, 1, Len(s))) = Len(s)
        /\ \A i \in 1 .. Len(s) : SubSeq(s, 1, Len(s))[i] = s[i]
    BY <2>1, WithinText
  <2> QED
    BY <2>2, SameLines
<1>3. ASSUME NEW i \in 1 .. Len(s) PROVE SubSeq(s, i, i) = << s[i] >>
  <2>1. i \in 1 .. Len(s) + 1 /\ i \in 0 .. Len(s) /\ i <= i + 1 /\ i + 1 - i = 1 /\ i + 1 - 1 = i /\ 1 \in 1 .. i + 1 - i
    BY <1>1
  <2>2. SubSeq(s, i, i) \in Seq(V) /\ Len(SubSeq(s, i, i)) = 1 /\ SubSeq(s, i, i)[1] = s[i]
    BY <2>1, WithinText
  <2>3. << s[i] >> \in Seq({s[i]}) /\ Len(<< s[i] >>) = 1 /\ << s[i] >>[1] = s[i] /\ 1 .. 1 = {1}
    OBVIOUS
  <2> DEFINE u == SubSeq(s, i, i)
             w == << s[i] >>
             x == s[i]
  <2>4. u \in Seq(V) /\ w \in Seq({x}) /\ Len(u) = Len(w) /\ Len(u) = 1 /\ \A j \in {1} : u[j] = w[j]
    BY <2>2, <2>3
  <2> HIDE DEF u, w, x
  <2>5. \A j \in 1 .. Len(u) : u[j] = w[j]
    BY <2>3, <2>4
  <2>6. u = w
    BY <2>4, <2>5, SameLines
  <2> QED
    BY <2>6 DEF u, w
<1> QED
  BY <1>2, <1>3

\* A text around one of its tokens, and around two of them.
LEMMA AroundOne ==
  ASSUME NEW V, NEW s \in Seq(V), NEW i \in 1 .. Len(s)
  PROVE  s = SubSeq(s, 1, i - 1) \o (<< s[i] >> \o SubSeq(s, i + 1, Len(s)))
<1>1. Len(s) \in Nat /\ i \in Nat /\ i - 1 \in 0 .. Len(s) /\ i \in 1 .. Len(s) + 1 /\ i \in 0 .. Len(s) /\ Len(s) \in 0 .. Len(s) /\ 1 \in 1 .. Len(s) + 1
  OBVIOUS
<1>2. SubSeq(s, 1, Len(s)) = SubSeq(s, 1, i - 1) \o SubSeq(s, (i - 1) + 1, Len(s))
  <2>1. 1 <= (i - 1) + 1 /\ i - 1 <= Len(s)
    BY <1>1
  <2> QED
    BY <1>1, <2>1, PartsOfText
<1>3. SubSeq(s, i, Len(s)) = SubSeq(s, i, i) \o SubSeq(s, i + 1, Len(s))
  <2>1. i <= i + 1 /\ i <= Len(s)
    BY <1>1
  <2> QED
    BY <1>1, <2>1, PartsOfText
<1>4. (i - 1) + 1 = i
  BY <1>1
<1> QED
  BY <1>2, <1>3, <1>4, WholeText

\* The tokens of a text whose places are chosen.
Only(t, K) == Joined([i \in DOMAIN t |-> IF i \in K THEN << t[i] >> ELSE << >>])

\* The parts of chosen places.
LEMMA OnlyParts ==
  ASSUME NEW T, NEW t \in Seq(T), NEW K
  PROVE  /\ [i \in DOMAIN t |-> IF i \in K THEN << t[i] >> ELSE << >>] \in Seq(Seq(T))
         /\ Len([i \in DOMAIN t |-> IF i \in K THEN << t[i] >> ELSE << >>]) = Len(t)
<1> DEFINE S == Seq(T)
           n == Len(t)
           f == [i \in 1 .. n |-> IF i \in K THEN << t[i] >> ELSE << >>]
<1>1. n \in Nat /\ DOMAIN t = 1 .. n /\ \A i \in 1 .. n : << t[i] >> \in S
  OBVIOUS
<1>2. << >> \in S
  BY EmptyText
<1> HIDE DEF S, n
<1>3. f \in Seq(S) /\ Len(f) = n
  BY <1>1, <1>2
<1> QED
  BY <1>1, <1>3 DEF S, n

\* What is chosen is a text.
LEMMA OnlyTyped ==
  ASSUME NEW T, NEW t \in Seq(T), NEW K
  PROVE  Only(t, K) \in Seq(T)
  BY OnlyParts, JoinedTyped DEF Only

\* The places chosen in two texts are chosen one text at a time.
LEMMA OnlyBehind ==
  ASSUME NEW T, NEW s \in Seq(T), NEW t \in Seq(T), NEW K, NEW A, NEW B,
         \A i \in DOMAIN s : i \in A <=> i \in K, \A i \in DOMAIN t : i \in B <=> Len(s) + i \in K
  PROVE  Only(s \o t, K) = Only(s, A) \o Only(t, B)
<1> DEFINE r == s \o t
           Of(x, C) == [i \in DOMAIN x |-> IF i \in C THEN << x[i] >> ELSE << >>]
           p == Of(r, K)
           a == Of(s, A)
           b == Of(t, B)
           m == a \o b
<1>1. /\ r \in Seq(T) /\ Len(r) = Len(s) + Len(t) /\ Len(s) \in Nat /\ Len(t) \in Nat
      /\ DOMAIN r = 1 .. Len(s) + Len(t) /\ DOMAIN s = 1 .. Len(s) /\ DOMAIN t = 1 .. Len(t)
      /\ \A i \in 1 .. Len(s) : r[i] = s[i]
      /\ \A i \in 1 .. Len(t) : r[Len(s) + i] = t[i]
  BY TextsBehind
<1> HIDE DEF r
<1>2. p \in Seq(Seq(T)) /\ Len(p) = Len(s) + Len(t) /\ \A i \in 1 .. Len(s) + Len(t) : p[i] = IF i \in K THEN << r[i] >> ELSE << >>
  <2>1. p \in Seq(Seq(T)) /\ Len(p) = Len(r)
    BY <1>1, OnlyParts
  <2> QED
    BY <1>1, <2>1
<1>3. a \in Seq(Seq(T)) /\ Len(a) = Len(s) /\ \A i \in 1 .. Len(s) : a[i] = IF i \in K THEN << s[i] >> ELSE << >>
  <2>1. a \in Seq(Seq(T)) /\ Len(a) = Len(s)
    BY OnlyParts
  <2> QED
    BY <1>1, <2>1
<1>4. b \in Seq(Seq(T)) /\ Len(b) = Len(t) /\ \A i \in 1 .. Len(t) : b[i] = IF Len(s) + i \in K THEN << t[i] >> ELSE << >>
  <2>1. b \in Seq(Seq(T)) /\ Len(b) = Len(t)
    BY OnlyParts
  <2> QED
    BY <1>1, <2>1
<1>5. Only(r, K) = Joined(p) /\ Only(s, A) = Joined(a) /\ Only(t, B) = Joined(b)
  BY DEF Only
<1> HIDE DEF p, a, b
<1>6. /\ m \in Seq(Seq(T)) /\ Len(m) = Len(s) + Len(t) /\ \A i \in 1 .. Len(s) : m[i] = a[i]
      /\ \A i \in 1 .. Len(t) : m[Len(s) + i] = b[i]
  <2> DEFINE S == Seq(T)
  <2>1. a \in Seq(S) /\ b \in Seq(S)
    BY <1>3, <1>4
  <2> HIDE DEF S
  <2>2. m \in Seq(S) /\ Len(m) = Len(a) + Len(b)
    BY <2>1, TextsBehind
  <2>3. \A i \in 1 .. Len(a) : m[i] = a[i]
    BY <2>1, TextsBehind
  <2>4. \A i \in 1 .. Len(b) : m[Len(a) + i] = b[i]
    BY <2>1, TextsBehind
  <2>5. m \in Seq(Seq(T))
    BY <2>2 DEF S
  <2> QED
    BY <1>3, <1>4, <2>2, <2>3, <2>4, <2>5
<1> HIDE DEF m
<1>7. ASSUME NEW i \in 1 .. Len(s) + Len(t) PROVE p[i] = m[i]
  <2>1. CASE i <= Len(s)
    <3>1. i \in 1 .. Len(s)
      BY <1>1, <2>1
    <3>2. r[i] = s[i] /\ m[i] = a[i] /\ a[i] = (IF i \in A THEN << s[i] >> ELSE << >>) /\ (i \in A <=> i \in K)
      BY <1>1, <1>3, <1>6, <3>1
    <3> QED
      BY <1>2, <3>2
  <2>2. CASE ~ (i <= Len(s))
    <3>1. i - Len(s) \in 1 .. Len(t) /\ Len(s) + (i - Len(s)) = i
      BY <1>1, <2>2
    <3>2. r[i] = t[i - Len(s)] /\ m[i] = b[i - Len(s)] /\ b[i - Len(s)] = IF i \in K THEN << t[i - Len(s)] >> ELSE << >>
      BY <1>1, <1>4, <1>6, <3>1
    <3> QED
      BY <1>2, <3>2
  <2> QED
    BY <2>1, <2>2
<1>8. p = m
  <2> DEFINE S == Seq(T)
  <2>1. p \in Seq(S) /\ m \in Seq(S)
    BY <1>2, <1>6
  <2> HIDE DEF S
  <2> QED
    BY <1>2, <1>6, <1>7, <2>1, SameLines
<1>9. Joined(a \o b) = Joined(a) \o Joined(b)
  BY <1>3, <1>4, JoinedBehind
<1>10. Only(r, K) = Only(s, A) \o Only(t, B)
  BY <1>5, <1>8, <1>9 DEF m
<1> QED
  BY <1>10 DEF r

\* Two choices of the same places are one.
LEMMA OnlySame ==
  ASSUME NEW t, NEW K, NEW L, \A i \in DOMAIN t : i \in K <=> i \in L
  PROVE  Only(t, K) = Only(t, L)
  BY DEF Only

\* All places chosen: the text.
LEMMA OnlyAll ==
  ASSUME NEW T, NEW t \in Seq(T), NEW K, \A i \in DOMAIN t : i \in K
  PROVE  Only(t, K) = t
<1> DEFINE f == [x \in T |-> << x >>]
<1>1. f \in [T -> Seq(T)] /\ \A x \in T : f[x] = << x >>
  <2> DEFINE S == Seq(T)
  <2>1. \A x \in T : << x >> \in S
    OBVIOUS
  <2> HIDE DEF S
  <2>2. f \in [T -> S]
    BY <2>1
  <2> QED
    BY <2>2 DEF S
<1>2. Parts(t, f) = [i \in DOMAIN t |-> IF i \in K THEN << t[i] >> ELSE << >>]
  <2>1. \A i \in DOMAIN t : t[i] \in T
    OBVIOUS
  <2> QED
    BY <2>1 DEF Parts
<1>3. Only(t, K) = Spread(t, f)
  BY <1>2 DEF Only, Spread
<1> HIDE DEF f
<1>4. \A q \in Seq(T) : Spread(q, f) = q
  <2>1. f \in [T -> Seq(T)] /\ T \subseteq T
    BY <1>1
  <2> QED
    BY ONLY <1>1, <2>1, SpreadSame
<1> QED
  BY <1>3, <1>4

\* No place chosen: nothing.
LEMMA OnlyNone ==
  ASSUME NEW T, NEW t \in Seq(T), NEW K, \A i \in DOMAIN t : i \notin K
  PROVE  Only(t, K) = << >>
<1> DEFINE f == [x \in T |-> << >>]
           G == {q \in Seq(T) : Spread(q, f) = << >>}
<1>1. f \in [T -> Seq(T)] /\ \A x \in T : f[x] = << >>
  <2> DEFINE S == Seq(T)
  <2>1. << >> \in S
    BY EmptyText
  <2> HIDE DEF S
  <2>2. f \in [T -> S]
    BY <2>1
  <2> QED
    BY <2>2 DEF S
<1>2. Parts(t, f) = [i \in DOMAIN t |-> IF i \in K THEN << t[i] >> ELSE << >>]
  <2>1. \A i \in DOMAIN t : t[i] \in T
    OBVIOUS
  <2> QED
    BY <2>1 DEF Parts
<1>3. Only(t, K) = Spread(t, f)
  BY <1>2 DEF Only, Spread
<1> HIDE DEF f
<1>4. << >> \in G
  BY SpreadNothing, EmptyText
<1>5. ASSUME NEW q \in Seq(T), NEW x \in T, q \in G PROVE Append(q, x) \in G
  <2>1. Spread(Append(q, x), f) = Spread(q, f) \o f[x]
    <3>1. f \in [T -> Seq(T)]
      BY <1>1
    <3> QED
      BY ONLY <3>1, SpreadAppend
  <2>2. Append(q, x) \in Seq(T) /\ << >> \o << >> = << >>
    BY TokenAdded
  <2> QED
    BY <1>1, <1>5, <2>1, <2>2
<1> HIDE DEF G
<1>6. Seq(T) \subseteq G
  BY <1>4, <1>5, Joining!SequencesGrow
<1> QED
  BY <1>3, <1>6 DEF G

\* The tokens of a template that its conditionals leave.
KeptTokens(t, vars) == Only(t, {i \in DOMAIN t : Stays(t, i, vars)})

\* No conditional is left open behind the text.
Closed(s) == \A j \in DOMAIN s : s[j].kind = "if" => \E k \in j .. Len(s) : s[k].kind = "end"
\* Nothing but words and placeholders.
Unmarked(s) == \A j \in DOMAIN s : s[j].kind \in {"text", "var"}

\* A token stays for what stands in front of it.
LEMMA StaysSame ==
  ASSUME NEW r, NEW s, NEW i \in Nat \ {0}, \A j \in 1 .. i : r[j] = s[j], NEW vars
  PROVE  Stays(r, i, vars) <=> Stays(s, i, vars)
<1> DEFINE R(u) == {j \in 1 .. i : u[j].kind = "if" /\ \A k \in j .. i : u[k].kind # "end"}
<1>1. \A j \in 1 .. i : \A k \in j .. i : r[k] = s[k]
  OBVIOUS
<1>2. r[i] = s[i] /\ R(r) = R(s)
  BY <1>1
<1>3. \A j \in 1 .. i : (\A k \in j .. i : r[k].kind # "else") <=> (\A k \in j .. i : s[k].kind # "else")
  BY <1>1
<1> QED
  BY <1>2, <1>3 DEF Stays

\* What holds of the tokens of a text holds of them behind another text.
Without(t, c, a, b) == \A k \in a .. b : t[k].kind # c

\* The tokens behind a text are the same tokens, further on.
LEMMA KindsBehind ==
  ASSUME NEW s \in Seq(Writable), NEW t \in Seq(Writable), NEW c, NEW i \in 1 .. Len(t), NEW j \in 1 .. i
  PROVE  /\ Len(s) + j \in 1 .. Len(s) + i /\ (s \o t)[Len(s) + j] = t[j]
         /\ Without(s \o t, c, Len(s) + j, Len(s) + i) <=> Without(t, c, j, i)
<1> DEFINE r == s \o t
           n == Len(s)
<1>1. n \in Nat /\ Len(t) \in Nat /\ \A k \in 1 .. Len(t) : r[n + k] = t[k]
  BY TextsBehind
<1> HIDE DEF r, n
<1>2. n + j \in 1 .. n + i /\ r[n + j] = t[j]
  BY <1>1
<1>3. ASSUME \A k \in n + j .. n + i : r[k].kind # c, NEW k \in j .. i PROVE t[k].kind # c
  <2>1. n + k \in n + j .. n + i /\ k \in 1 .. Len(t)
    BY <1>1
  <2> QED
    BY <1>1, <1>3, <2>1
<1>4. ASSUME \A k \in j .. i : t[k].kind # c, NEW k \in n + j .. n + i PROVE r[k].kind # c
  <2>1. k - n \in j .. i /\ k - n \in 1 .. Len(t) /\ n + (k - n) = k
    BY <1>1
  <2> QED
    BY <1>1, <1>4, <2>1
<1> QED
  BY <1>2, <1>3, <1>4 DEF r, n, Without

\* Behind a text that leaves no conditional open a token stays as it would alone.
LEMMA StaysBehind ==
  ASSUME NEW s \in Seq(Writable), NEW t \in Seq(Writable), NEW i \in 1 .. Len(t), Closed(s), NEW vars
  PROVE  Stays(s \o t, Len(s) + i, vars) <=> Stays(t, i, vars)
<1> DEFINE r == s \o t
           n == Len(s)
<1>1. /\ n \in Nat /\ Len(t) \in Nat /\ DOMAIN s = 1 .. n
      /\ \A k \in 1 .. n : r[k] = s[k]
  BY TextsBehind
<1>2. \A j \in 1 .. i : n + j \in 1 .. n + i /\ r[n + j] = t[j]
  BY KindsBehind
<1>3. \A j \in 1 .. i : (\A k \in n + j .. n + i : r[k].kind # "end") <=> (\A k \in j .. i : t[k].kind # "end")
  <2>1. \A j \in 1 .. i : Without(s \o t, "end", Len(s) + j, Len(s) + i) <=> Without(t, "end", j, i)
    BY KindsBehind
  <2> QED
    BY <2>1 DEF Without
<1>4. \A j \in 1 .. i : (\A k \in n + j .. n + i : r[k].kind # "else") <=> (\A k \in j .. i : t[k].kind # "else")
  <2>1. \A j \in 1 .. i : Without(s \o t, "else", Len(s) + j, Len(s) + i) <=> Without(t, "else", j, i)
    BY KindsBehind
  <2> QED
    BY <2>1 DEF Without
<1>5. \A j \in 1 .. n : r[j].kind = "if" => \E k \in j .. n + i : r[k].kind = "end"
  <2> SUFFICES ASSUME NEW j \in 1 .. n, r[j].kind = "if" PROVE \E k \in j .. n + i : r[k].kind = "end"
    OBVIOUS
  <2>1. PICK k \in j .. n : s[k].kind = "end"
    BY <1>1 DEF Closed
  <2>2. k \in j .. n + i /\ k \in 1 .. n
    BY <1>1
  <2> QED
    BY <1>1, <2>1, <2>2
<1>6. \A j \in 1 .. n + i : j \in 1 .. n \/ \E m \in 1 .. i : j = n + m
  <2> SUFFICES ASSUME NEW j \in 1 .. n + i, j \notin 1 .. n PROVE \E m \in 1 .. i : j = n + m
    OBVIOUS
  <2>1. j - n \in 1 .. i /\ j = n + (j - n)
    BY <1>1
  <2> QED
    BY <2>1
<1>7. i \in 1 .. i
  OBVIOUS
<1> HIDE DEF r
<1> DEFINE W(u, l, j) == (u[j].kind = "if" /\ \A k \in j .. l : u[k].kind # "end")
                            => (Truthy(u[j].name, vars) <=> \A k \in j .. l : u[k].kind # "else")
<1>8. \A u, l : Stays(u, l, vars) <=> (u[l].kind \in {"text", "var"} /\ \A j \in 1 .. l : W(u, l, j))
  BY DEF Stays
<1>9. \A j \in 1 .. i : W(r, n + i, n + j) <=> W(t, i, j)
  BY <1>2, <1>3, <1>4
<1>10. \A j \in 1 .. n : W(r, n + i, j)
  BY <1>5
<1> HIDE DEF W, n
<1>11. (\A j \in 1 .. n + i : W(r, n + i, j)) <=> (\A j \in 1 .. i : W(t, i, j))
  BY <1>2, <1>6, <1>9, <1>10
<1>12. r[n + i] = t[i]
  BY <1>2, <1>7
<1> QED
  BY <1>8, <1>11, <1>12 DEF r, n

\* What is kept of two texts, if the first leaves no conditional open.
LEMMA KeptBehind ==
  ASSUME NEW s \in Seq(Writable), NEW t \in Seq(Writable), Closed(s), NEW vars
  PROVE  KeptTokens(s \o t, vars) = KeptTokens(s, vars) \o KeptTokens(t, vars)
<1> DEFINE r == s \o t
           K == {i \in DOMAIN r : Stays(r, i, vars)}
           A == {i \in DOMAIN s : Stays(s, i, vars)}
           B == {i \in DOMAIN t : Stays(t, i, vars)}
<1>1. /\ Len(s) \in Nat /\ Len(t) \in Nat /\ DOMAIN r = 1 .. Len(s) + Len(t) /\ DOMAIN s = 1 .. Len(s) /\ DOMAIN t = 1 .. Len(t)
      /\ \A i \in 1 .. Len(s) : r[i] = s[i]
  BY TextsBehind
<1>2. ASSUME NEW i \in DOMAIN s PROVE i \in A <=> i \in K
  <2>1. i \in Nat \ {0} /\ \A j \in 1 .. i : r[j] = s[j]
    BY <1>1
  <2>2. i \in DOMAIN r
    BY <1>1
  <2>3. Stays(r, i, vars) <=> Stays(s, i, vars)
    BY <2>1, StaysSame
  <2> QED
    BY <2>2, <2>3
<1>3. ASSUME NEW i \in DOMAIN t PROVE i \in B <=> Len(s) + i \in K
  <2>1. i \in 1 .. Len(t) /\ Len(s) + i \in DOMAIN r
    BY <1>1
  <2>2. Stays(r, Len(s) + i, vars) <=> Stays(t, i, vars)
    BY <2>1, StaysBehind
  <2> QED
    BY <2>1, <2>2
<1> HIDE DEF K, A, B
<1>4. Only(s \o t, K) = Only(s, A) \o Only(t, B)
  <2> DEFINE T == Writable
  <2>1. s \in Seq(T) /\ t \in Seq(T)
    OBVIOUS
  <2>2. (\A i \in DOMAIN s : i \in A <=> i \in K) /\ \A i \in DOMAIN t : i \in B <=> Len(s) + i \in K
    BY <1>2, <1>3
  <2> HIDE DEF T
  <2> QED
    BY ONLY <2>1, <2>2, OnlyBehind
<1> QED
  BY <1>4 DEF KeptTokens, K, A, B

\* All of an unmarked text is kept.
LEMMA KeptPlain ==
  ASSUME NEW s \in Seq(Writable), Unmarked(s), NEW vars
  PROVE  KeptTokens(s, vars) = s /\ Closed(s)
<1>1. \A i \in DOMAIN s : Stays(s, i, vars)
  <2> SUFFICES ASSUME NEW i \in DOMAIN s PROVE Stays(s, i, vars)
    OBVIOUS
  <2>1. s[i].kind \in {"text", "var"}
    BY DEF Unmarked
  <2>2. \A j \in 1 .. i : s[j].kind # "if"
    <3>1. \A j \in 1 .. i : j \in DOMAIN s
      OBVIOUS
    <3> QED
      BY <3>1 DEF Unmarked
  <2> QED
    BY <2>1, <2>2 DEF Stays
<1>2. KeptTokens(s, vars) = s
  <2> DEFINE K == {i \in DOMAIN s : Stays(s, i, vars)}
  <2>1. \A i \in DOMAIN s : i \in K
    BY <1>1
  <2> HIDE DEF K
  <2>2. Only(s, K) = s
    BY <2>1, OnlyAll
  <2> QED
    BY <2>2 DEF KeptTokens, K
<1> QED
  BY <1>2 DEF Unmarked, Closed

\* A conditional keeps the branch that is taken.
LEMMA KeptConditional ==
  ASSUME NEW x \in Writable, NEW m \in Seq(Writable), NEW y \in Writable, NEW vars, NEW c \in BOOLEAN, c <=> Truthy(x.name, vars),
         x.kind = "if", y.kind = "end", \A i \in DOMAIN m : m[i].kind \notin {"if", "end"},
         NEW B, \A i \in DOMAIN m : i \in B <=> /\ m[i].kind # "else"
                                                /\ c <=> \A k \in 1 .. i : m[k].kind # "else"
  PROVE  KeptTokens(<< x >> \o (m \o << y >>), vars) = Only(m, B)
<1> DEFINE w == m \o << y >>
           r == << x >> \o w
           K == {i \in DOMAIN r : Stays(r, i, vars)}
           L == {i \in DOMAIN w : 1 + i \in K}
           n == Len(m)
<1>1. << x >> \in Seq(Writable) /\ << y >> \in Seq(Writable) /\ Len(<< x >>) = 1 /\ Len(<< y >>) = 1 /\ << x >>[1] = x /\ << y >>[1] = y
      /\ DOMAIN << x >> = {1} /\ DOMAIN << y >> = {1} /\ 1 .. 1 = {1}
  OBVIOUS
<1>2. /\ n \in Nat /\ DOMAIN m = 1 .. n /\ w \in Seq(Writable) /\ Len(w) = n + 1 /\ DOMAIN w = 1 .. n + 1
      /\ (\A i \in 1 .. n : w[i] = m[i]) /\ w[n + 1] = y
  <2>1. /\ w \in Seq(Writable) /\ Len(w) = Len(m) + Len(<< y >>) /\ DOMAIN w = 1 .. Len(m) + Len(<< y >>)
        /\ DOMAIN m = 1 .. Len(m) /\ Len(m) \in Nat
        /\ \A i \in 1 .. Len(m) : w[i] = m[i]
        /\ \A i \in 1 .. Len(<< y >>) : w[Len(m) + i] = << y >>[i]
    BY ONLY <1>1, TextsBehind
  <2> QED
    BY <1>1, <2>1
<1> HIDE DEF w
<1>3. /\ r \in Seq(Writable) /\ Len(r) = n + 2 /\ DOMAIN r = 1 .. n + 2 /\ r[1] = x
      /\ \A i \in 1 .. n + 1 : r[1 + i] = w[i]
  <2>1. /\ r \in Seq(Writable) /\ Len(r) = Len(<< x >>) + Len(w) /\ DOMAIN r = 1 .. Len(<< x >>) + Len(w)
        /\ \A i \in 1 .. Len(<< x >>) : r[i] = << x >>[i]
        /\ \A i \in 1 .. Len(w) : r[Len(<< x >>) + i] = w[i]
    <3>1. << x >> \in Seq(Writable) /\ w \in Seq(Writable)
      BY <1>1, <1>2
    <3> QED
      BY ONLY <3>1, TextsBehind
  <2> QED
    BY <1>1, <1>2, <2>1
<1> HIDE DEF r, n
<1>4. r[n + 2] = y /\ \A i \in 1 .. n : r[1 + i] = m[i]
  BY <1>2, <1>3
<1>5. 1 \notin K
  BY <1>3 DEF Stays
<1>6. n + 2 \notin K
  BY <1>4 DEF Stays
<1>7. ASSUME NEW i \in 1 .. n PROVE 1 + i \in K <=> i \in B
  <2>1. 1 + i \in DOMAIN r /\ r[1 + i] = m[i] /\ i \in DOMAIN m /\ 1 \in 1 .. 1 + i
    BY <1>2, <1>3, <1>4
  <2>2. m[i].kind \in {"text", "var"} <=> m[i].kind # "else"
    <3>1. m[i] \in Writable /\ m[i].kind \notin {"if", "end"}
      BY <2>1
    <3> QED
      BY <3>1 DEF Writable
  <2>3. \A k \in 1 .. 1 + i : k = 1 \/ (k - 1 \in 1 .. i /\ r[k] = m[k - 1] /\ r[k].kind \notin {"if", "end"})
    <3> SUFFICES ASSUME NEW k \in 1 .. 1 + i, k # 1
                 PROVE  k - 1 \in 1 .. i /\ r[k] = m[k - 1] /\ r[k].kind \notin {"if", "end"}
      OBVIOUS
    <3>1. k - 1 \in 1 .. i /\ k - 1 \in 1 .. n /\ k - 1 \in DOMAIN m /\ 1 + (k - 1) = k
      BY <1>2
    <3> QED
      BY <1>4, <3>1
  <2>4. \A l \in 1 .. i : 1 + l \in 1 .. 1 + i /\ r[1 + l] = m[l]
    <3> SUFFICES ASSUME NEW l \in 1 .. i PROVE 1 + l \in 1 .. 1 + i /\ r[1 + l] = m[l]
      OBVIOUS
    <3>1. l \in 1 .. n /\ 1 + l \in 1 .. 1 + i
      BY <1>2
    <3> QED
      BY <1>4, <3>1
  <2> DEFINE I == 1 .. 1 + i
  <2>5. r[1] = x /\ \A k \in I : k = 1 \/ r[k].kind \notin {"if", "end"}
    BY <1>3, <2>3
  <2> HIDE DEF I
  <2>6. \A k \in I : r[k].kind # "end"
    BY <2>5
  <2>7. \A j \in I : r[j].kind = "if" <=> j = 1
    BY <2>5
  <2> USE DEF I
  <2>8. (\A k \in 1 .. 1 + i : r[k].kind # "else") <=> (\A l \in 1 .. i : m[l].kind # "else")
    <3>1. ASSUME \A k \in 1 .. 1 + i : r[k].kind # "else", NEW l \in 1 .. i PROVE m[l].kind # "else"
      BY <2>4, <3>1
    <3>2. ASSUME \A l \in 1 .. i : m[l].kind # "else", NEW k \in 1 .. 1 + i PROVE r[k].kind # "else"
      <4>1. CASE k = 1
        BY <1>3, <4>1
      <4>2. CASE k # 1
        BY <2>3, <3>2, <4>2
      <4> QED
        BY <4>1, <4>2
    <3> QED
      BY <3>1, <3>2
  <2>9. Stays(r, 1 + i, vars) <=> /\ r[1 + i].kind \in {"text", "var"}
                                  /\ Truthy(r[1].name, vars) <=> \A k \in 1 .. 1 + i : r[k].kind # "else"
    BY <2>1, <2>6, <2>7 DEF Stays
  <2> QED
    BY <1>3, <2>1, <2>2, <2>8, <2>9
<1> HIDE DEF K, L
<1>8. Only(r, K) = Only(<< x >>, K) \o Only(w, L)
  <2>1. \A i \in DOMAIN w : i \in L <=> Len(<< x >>) + i \in K
    BY <1>1, <1>2 DEF L
  <2>2. << x >> \in Seq(Writable) /\ w \in Seq(Writable) /\ \A i \in DOMAIN << x >> : i \in K <=> i \in K
    BY <1>1, <1>2
  <2>3. Only(<< x >> \o w, K) = Only(<< x >>, K) \o Only(w, L)
    <3> DEFINE e == << x >>
    <3>1. e \in Seq(Writable) /\ w \in Seq(Writable) /\ (\A i \in DOMAIN e : i \in K <=> i \in K) /\ \A i \in DOMAIN w : i \in L <=> Len(e) + i \in K
      BY <2>1, <2>2
    <3> HIDE DEF e
    <3>2. Only(e \o w, K) = Only(e, K) \o Only(w, L)
      BY ONLY <3>1, OnlyBehind
    <3> QED
      BY <3>2 DEF e
  <2> QED
    BY <2>3 DEF r
<1>9. Only(w, L) = Only(m, B) \o Only(<< y >>, {})
  <2>1. \A i \in DOMAIN m : i \in B <=> i \in L
    BY <1>2, <1>7 DEF L
  <2>2. \A i \in DOMAIN << y >> : i \in {} <=> Len(m) + i \in L
    <3>1. \A i \in DOMAIN << y >> : i = 1
      BY <1>1
    <3>2. n + 1 \notin L
      BY <1>2, <1>6 DEF L
    <3> QED
      BY <3>1, <3>2 DEF n
  <2>3. Only(m \o << y >>, L) = Only(m, B) \o Only(<< y >>, {})
    <3> DEFINE e == << y >>
               N == {}
    <3>1. e \in Seq(Writable) /\ \A i \in DOMAIN e : i \in N <=> Len(m) + i \in L
      BY <1>1, <2>2
    <3> HIDE DEF e, N
    <3>2. Only(m \o e, L) = Only(m, B) \o Only(e, N)
      BY <2>1, <3>1, OnlyBehind
    <3> QED
      BY <3>2 DEF e, N
  <2> QED
    BY <2>3 DEF w
<1>10. Only(<< x >>, K) = << >> /\ Only(<< y >>, {}) = << >>
  <2>1. \A i \in DOMAIN << x >> : i \notin K
    BY <1>1, <1>5
  <2>2. \A i \in DOMAIN << y >> : i \notin {}
    OBVIOUS
  <2> QED
    BY <1>1, <2>1, <2>2, OnlyNone
<1>11. Only(m, B) \in Seq(Writable)
  BY OnlyTyped
<1>12. Only(r, K) = Only(m, B)
  <2>1. << >> \o (Only(m, B) \o << >>) = Only(m, B)
    BY <1>11, BehindNothing
  <2> QED
    BY <1>8, <1>9, <1>10, <2>1
<1> QED
  BY <1>12 DEF KeptTokens, K, r, w

\* The first place of a kind of token.
LEMMA IndexIs ==
  ASSUME NEW t \in Seq(Writable), NEW kind, NEW from \in Nat \ {0}
  PROVE  LET i == IndexOf(t, kind, from)
         IN  \/ i = 0 /\ \A k \in from .. Len(t) : t[k].kind # kind
             \/ i \in from .. Len(t) /\ t[i].kind = kind /\ \A k \in from .. i - 1 : t[k].kind # kind
<1> DEFINE T == {i \in from .. Len(t) : t[i].kind = kind}
<1>1. IndexOf(t, kind, from) = IF T = {} THEN 0 ELSE Min(T)
  BY DEF IndexOf
<1>2. CASE T = {}
  BY <1>1, <1>2
<1>3. CASE T # {}
  <2>1. T \subseteq Nat
    OBVIOUS
  <2>2. \E n \in T : \A m \in T : n <= m
    <3> HIDE DEF T
    <3> QED
      BY <1>3, <2>1, Joining!LeastElement
  <2>3. Min(T) \in T /\ \A m \in T : Min(T) <= m
    BY <2>2, Zenon DEF Min
  <2> DEFINE n == Min(T)
  <2>4. n \in from .. Len(t) /\ t[n].kind = kind /\ \A m \in T : n <= m
    BY <2>3
  <2> HIDE DEF n
  <2>5. \A k \in from .. n - 1 : t[k].kind # kind
    <3> SUFFICES ASSUME NEW k \in from .. n - 1, t[k].kind = kind PROVE FALSE
      OBVIOUS
    <3>1. k \in from .. Len(t) /\ ~ (n <= k)
      BY <2>4
    <3> QED
      BY <2>4, <3>1
  <2> QED
    BY <1>1, <1>3, <2>4, <2>5 DEF n
<1> QED
  BY <1>2, <1>3

\* The branches of a conditional's body, as they are cut out of it.
Yes(m) == IF IndexOf(m, "else", 1) = 0 THEN m ELSE SubSeq(m, 1, IndexOf(m, "else", 1) - 1)
No(m) == IF IndexOf(m, "else", 1) = 0 THEN << >> ELSE SubSeq(m, IndexOf(m, "else", 1) + 1, Len(m))

\* The branches are texts.
LEMMA BranchesTyped ==
  ASSUME NEW m \in Seq(Writable)
  PROVE  /\ Yes(m) \in Seq(Writable) /\ No(m) \in Seq(Writable) /\ Len(Yes(m)) <= Len(m) /\ Len(No(m)) <= Len(m)
<1> DEFINE i == IndexOf(m, "else", 1)
<1>1. Len(m) \in Nat /\ << >> \in Seq(Writable) /\ Len(<< >>) = 0
  BY EmptyText
<1>2. i = 0 \/ i \in 1 .. Len(m)
  BY IndexIs
<1> HIDE DEF i
<1>3. CASE i = 0
  BY <1>1, <1>3 DEF Yes, No, i
<1>4. CASE i # 0
  <2>1. /\ i \in Nat /\ 1 \in 1 .. Len(m) + 1 /\ i - 1 \in 0 .. Len(m) /\ 1 <= (i - 1) + 1 /\ (i - 1) + 1 - 1 <= Len(m)
        /\ i + 1 \in 1 .. Len(m) + 1 /\ Len(m) \in 0 .. Len(m) /\ i + 1 <= Len(m) + 1 /\ Len(m) + 1 - (i + 1) <= Len(m)
    BY <1>1, <1>2, <1>4
  <2>2. SubSeq(m, 1, i - 1) \in Seq(Writable) /\ Len(SubSeq(m, 1, i - 1)) = (i - 1) + 1 - 1
    BY ONLY <2>1, WithinText, m \in Seq(Writable)
  <2>3. SubSeq(m, i + 1, Len(m)) \in Seq(Writable) /\ Len(SubSeq(m, i + 1, Len(m))) = Len(m) + 1 - (i + 1)
    BY ONLY <2>1, WithinText, m \in Seq(Writable)
  <2> QED
    BY <1>4, <2>1, <2>2, <2>3 DEF Yes, No, i
<1> QED
  BY <1>3, <1>4

\* A conditional keeps what the code cuts out of its body.
LEMMA BranchIs ==
  ASSUME NEW m \in Seq(Writable), \A i \in DOMAIN m : m[i].kind \notin {"if", "end"},
         \A i \in DOMAIN m : m[i].kind = "else" => \A k \in 1 .. i - 1 : m[k].kind # "else",
         NEW c \in BOOLEAN,
         NEW B, \A i \in DOMAIN m : i \in B <=> m[i].kind # "else" /\ (c <=> \A k \in 1 .. i : m[k].kind # "else")
  PROVE  Only(m, B) = (IF c THEN Yes(m) ELSE No(m)) /\ Unmarked(Yes(m)) /\ Unmarked(No(m))
<1> DEFINE n == Len(m)
           e == IndexOf(m, "else", 1)
           a == SubSeq(m, 1, e - 1)
           b == SubSeq(m, e + 1, n)
<1>1. n \in Nat /\ DOMAIN m = 1 .. n /\ \A i \in 1 .. n : m[i].kind \in {"text", "var", "else"}
  <2>1. \A i \in DOMAIN m : m[i].kind \in {"text", "var", "if", "else", "end"}
    <3>1. \A i \in DOMAIN m : m[i] \in Writable
      OBVIOUS
    <3> QED
      BY <3>1 DEF Writable
  <2> QED
    BY <2>1
<1>2. \/ e = 0 /\ \A k \in 1 .. n : m[k].kind # "else"
      \/ e \in 1 .. n /\ m[e].kind = "else" /\ \A k \in 1 .. e - 1 : m[k].kind # "else"
  BY IndexIs
<1> HIDE DEF e, n
<1>3. CASE e = 0
  <2>1. \A k \in 1 .. n : m[k].kind # "else"
    BY <1>1, <1>2, <1>3
  <2>2. \A i \in 1 .. n : i \in B <=> c
    <3>1. \A i \in 1 .. n : \A k \in 1 .. i : m[k].kind # "else"
      BY <1>1, <2>1
    <3> QED
      BY <1>1, <2>1, <3>1
  <2>3. Yes(m) = m /\ No(m) = << >>
    BY <1>3 DEF Yes, No, e
  <2>4. Unmarked(m)
    BY <1>1, <2>1 DEF Unmarked
  <2>5. Unmarked(<< >>)
    BY DEF Unmarked
  <2>6. CASE c
    BY <1>1, <2>2, <2>3, <2>4, <2>5, <2>6, OnlyAll
  <2>7. CASE ~c
    BY <1>1, <2>2, <2>3, <2>4, <2>5, <2>7, OnlyNone
  <2> QED
    BY <2>6, <2>7
<1>4. CASE e # 0
  <2>1. e \in 1 .. n /\ m[e].kind = "else" /\ \A k \in 1 .. e - 1 : m[k].kind # "else"
    BY <1>2, <1>4
  <2>2. \A k \in e + 1 .. n : m[k].kind # "else"
    <3> SUFFICES ASSUME NEW k \in e + 1 .. n, m[k].kind = "else" PROVE FALSE
      OBVIOUS
    <3>1. k \in DOMAIN m /\ e \in 1 .. k - 1
      BY <1>1, <2>1
    <3> QED
      BY <2>1, <3>1
  <2>3. Yes(m) = a /\ No(m) = b
    BY <1>4 DEF Yes, No, e, n
  <2>4. /\ a \in Seq(Writable) /\ Len(a) = e - 1 /\ DOMAIN a = 1 .. e - 1 /\ \A i \in 1 .. e - 1 : a[i] = m[i]
    <3>1. 1 \in 1 .. Len(m) + 1 /\ e - 1 \in 0 .. Len(m) /\ 1 <= (e - 1) + 1 /\ (e - 1) + 1 - 1 = e - 1 /\ \A i \in 1 .. e - 1 : 1 + i - 1 = i
      BY <1>1, <2>1 DEF n
    <3>2. a \in Seq(Writable) /\ Len(a) = e - 1 /\ \A i \in 1 .. e - 1 : a[i] = m[i]
      BY <3>1, WithinText
    <3> HIDE DEF a
    <3> QED
      BY <3>2
  <2>5. /\ b \in Seq(Writable) /\ Len(b) = n - e /\ DOMAIN b = 1 .. n - e /\ \A i \in 1 .. n - e : b[i] = m[e + i]
    <3>1. e + 1 \in 1 .. Len(m) + 1 /\ n \in 0 .. Len(m) /\ e + 1 <= n + 1 /\ n + 1 - (e + 1) = n - e /\ \A i \in 1 .. n - e : (e + 1) + i - 1 = e + i
      <4>1. e \in 1 .. n /\ n \in Nat
        BY <1>1, <2>1
      <4>2. e + 1 \in 1 .. n + 1 /\ n \in 0 .. n /\ e + 1 <= n + 1 /\ n + 1 - (e + 1) = n - e
        BY ONLY <4>1
      <4>3. \A i \in 1 .. n - e : (e + 1) + i - 1 = e + i
        BY ONLY <4>1
      <4> QED
        BY <4>2, <4>3 DEF n
    <3>2. b \in Seq(Writable) /\ Len(b) = n - e /\ \A i \in 1 .. n - e : b[i] = m[e + i]
      BY <3>1, WithinText
    <3> HIDE DEF b
    <3> QED
      BY <3>2
  <2>6. m = a \o (<< m[e] >> \o b)
    <3>1. e \in 1 .. Len(m)
      BY <2>1 DEF n
    <3> QED
      BY <3>1, AroundOne DEF n
  <2> HIDE DEF a, b
  <2>7. Unmarked(a)
    <3> SUFFICES ASSUME NEW i \in 1 .. e - 1 PROVE a[i].kind \in {"text", "var"}
      BY <2>4 DEF Unmarked
    <3>1. i \in 1 .. n
      BY <1>1, <2>1
    <3> QED
      BY <1>1, <2>1, <2>4, <3>1
  <2>8. Unmarked(b)
    <3> SUFFICES ASSUME NEW i \in 1 .. n - e PROVE b[i].kind \in {"text", "var"}
      BY <2>5 DEF Unmarked
    <3>1. e + i \in 1 .. n /\ e + i \in e + 1 .. n
      BY <1>1, <2>1
    <3> QED
      BY <1>1, <2>2, <2>5, <3>1
  <2> DEFINE x == << m[e] >>
             w == x \o b
             A1 == IF c THEN DOMAIN a ELSE {}
             B1 == IF c THEN {} ELSE DOMAIN b
             W1 == {i \in DOMAIN w : (e - 1) + i \in B}
  <2>9. x \in Seq(Writable) /\ Len(x) = 1 /\ DOMAIN x = {1}
    <3>1. m[e] \in Writable
      BY <1>1, <2>1
    <3> QED
      BY <3>1
  <2>10. w \in Seq(Writable) /\ DOMAIN w = 1 .. 1 + (n - e)
    <3>1. w \in Seq(Writable) /\ DOMAIN w = 1 .. Len(x) + Len(b)
      BY ONLY <2>5, <2>9, TextsBehind
    <3> QED
      BY <2>5, <2>9, <3>1
  <2> HIDE DEF x, w
  <2>11. \A i \in 1 .. e - 1 : i \in A1 <=> i \in B
    <3> SUFFICES ASSUME NEW i \in 1 .. e - 1 PROVE i \in A1 <=> i \in B
      OBVIOUS
    <3>1. i \in DOMAIN m /\ m[i].kind # "else" /\ \A k \in 1 .. i : m[k].kind # "else"
      BY <1>1, <2>1
    <3>2. i \in B <=> c
      BY <3>1
    <3> QED
      BY <2>4, <3>2
  <2>12. e \notin B
    BY <1>1, <2>1
  <2>13. \A i \in 1 .. n - e : i \in B1 <=> e + i \in B
    <3> SUFFICES ASSUME NEW i \in 1 .. n - e PROVE i \in B1 <=> e + i \in B
      OBVIOUS
    <3>1. e + i \in DOMAIN m /\ e + i \in e + 1 .. n /\ e \in 1 .. e + i
      BY <1>1, <2>1
    <3>2. e + i \in B <=> ~c
      BY <2>1, <2>2, <3>1
    <3> QED
      BY <2>5, <3>2
  <2>14. Only(a \o w, B) = Only(a, A1) \o Only(w, W1)
    <3>1. a \in Seq(Writable) /\ (\A i \in DOMAIN a : i \in A1 <=> i \in B) /\ \A i \in DOMAIN w : i \in W1 <=> Len(a) + i \in B
      BY <2>4, <2>11
    <3>2. w \in Seq(Writable)
      BY <2>10
    <3> HIDE DEF A1, W1
    <3> QED
      BY ONLY <3>1, <3>2, OnlyBehind
  <2>15. Only(w, W1) = Only(x, {}) \o Only(b, B1)
    <3> DEFINE N == {}
    <3>1. \A i \in DOMAIN x : i \in N <=> i \in W1
      BY <1>1, <2>1, <2>9, <2>10, <2>12
    <3>2. \A i \in DOMAIN b : i \in B1 <=> Len(x) + i \in W1
      <4> SUFFICES ASSUME NEW i \in 1 .. n - e PROVE i \in B1 <=> 1 + i \in W1
        BY <2>5, <2>9
      <4>1. 1 + i \in DOMAIN w /\ (e - 1) + (1 + i) = e + i
        BY <1>1, <2>1, <2>10
      <4> QED
        BY <2>13, <4>1
    <3> HIDE DEF B1, W1, N
    <3>3. Only(x \o b, W1) = Only(x, N) \o Only(b, B1)
      <4>1. x \in Seq(Writable) /\ b \in Seq(Writable)
        BY <2>5, <2>9
      <4> QED
        BY ONLY <3>1, <3>2, <4>1, OnlyBehind
    <3> QED
      BY <3>3 DEF w, N
  <2>16. Only(x, {}) = << >>
    <3>1. \A i \in DOMAIN x : i \notin {}
      OBVIOUS
    <3> QED
      BY <2>9, <3>1, OnlyNone
  <2>17. Only(a, A1) = IF c THEN a ELSE << >>
    <3>1. CASE c
      BY <2>4, <3>1, OnlyAll
    <3>2. CASE ~c
      BY <2>4, <3>2, OnlyNone
    <3> QED
      BY <3>1, <3>2
  <2>18. Only(b, B1) = IF c THEN << >> ELSE b
    <3>1. CASE c
      BY <2>5, <3>1, OnlyNone
    <3>2. CASE ~c
      BY <2>5, <3>2, OnlyAll
    <3> QED
      BY <3>1, <3>2
  <2>19. /\ << >> \o << >> = << >> /\ a \o << >> = a /\ << >> \o b = b
    <3>1. << >> \in Seq(Writable)
      BY EmptyText
    <3> QED
      BY <2>4, <2>5, <3>1, BehindNothing
  <2>20. Only(m, B) = IF c THEN a ELSE b
    <3>1. Only(m, B) = Only(a, A1) \o (Only(x, {}) \o Only(b, B1))
      BY <2>6, <2>14, <2>15 DEF w, x
    <3>2. CASE c
      BY <2>16, <2>17, <2>18, <2>19, <3>1, <3>2
    <3>3. CASE ~c
      BY <2>16, <2>17, <2>18, <2>19, <3>1, <3>3
    <3> QED
      BY <3>2, <3>3
  <2> QED
    BY <2>3, <2>7, <2>8, <2>20
<1> QED
  BY <1>3, <1>4

\* An else mark or an end mark of a flat template belongs to a conditional.
LEMMA OpenedBefore ==
  ASSUME NEW t, Flat(t), NEW i \in DOMAIN t, t[i].kind \in {"else", "end"}
  PROVE  \E j \in 1 .. i - 1 :
           t[j].kind = "if" /\ \A k \in j + 1 .. i - 1 : t[k].kind # "end" /\ (t[i].kind = "else" => t[k].kind # "else")
  BY DEF Flat

\* Behind an end mark the rest of a flat template is flat.
LEMMA FlatTail ==
  ASSUME NEW s \in Seq(Writable), NEW q \in Seq(Writable), Len(s) > 0, s[Len(s)].kind = "end", Flat(s \o q)
  PROVE  Flat(q)
<1> DEFINE r == s \o q
           n == Len(s)
           l == Len(q)
<1>1. /\ n \in Nat /\ l \in Nat /\ Len(r) = n + l /\ DOMAIN r = 1 .. n + l /\ DOMAIN q = 1 .. l /\ n > 0
      /\ (\A i \in 1 .. l : r[n + i] = q[i]) /\ r[n].kind = "end"
  BY TextsBehind
<1>2. Flat(r)
  OBVIOUS
<1> HIDE DEF r, n, l
<1>3. ASSUME NEW i \in 1 .. l, q[i].kind = "if"
      PROVE  \E j \in i + 1 .. l : q[j].kind = "end" /\ \A k \in i + 1 .. j - 1 : q[k].kind \notin {"if", "end"}
  <2>1. n + i \in DOMAIN r /\ r[n + i].kind = "if"
    <3>1. n + i \in 1 .. n + l
      BY <1>1
    <3>2. r[n + i] = q[i]
      BY <1>1
    <3> QED
      BY <1>1, <1>3, <3>1, <3>2
  <2>2. PICK j \in n + i + 1 .. n + l : r[j].kind = "end" /\ \A k \in n + i + 1 .. j - 1 : r[k].kind \notin {"if", "end"}
    BY <1>1, <1>2, <2>1 DEF Flat
  <2>3. j - n \in i + 1 .. l /\ j - n \in 1 .. l /\ n + (j - n) = j
    BY <1>1
  <2>4. q[j - n].kind = "end"
    BY <1>1, <2>2, <2>3
  <2>5. ASSUME NEW k \in i + 1 .. (j - n) - 1 PROVE q[k].kind \notin {"if", "end"}
    <3>1. n + k \in n + i + 1 .. j - 1 /\ k \in 1 .. l
      BY <1>1, <2>3
    <3> QED
      BY <1>1, <2>2, <3>1
  <2> QED
    BY <2>3, <2>4, <2>5
<1>4. ASSUME NEW i \in 1 .. l, q[i].kind \in {"else", "end"}
      PROVE  \E j \in 1 .. i - 1 :
               q[j].kind = "if" /\ \A k \in j + 1 .. i - 1 : q[k].kind # "end" /\ (q[i].kind = "else" => q[k].kind # "else")
  <2>1. n + i \in DOMAIN r /\ r[n + i] = q[i]
    BY <1>1
  <2>2. PICK m \in DOMAIN r : m = n + i /\ r[m] = q[i]
    BY <2>1
  <2>3. PICK j \in 1 .. m - 1 :
          r[j].kind = "if" /\ \A k \in j + 1 .. m - 1 : r[k].kind # "end" /\ (r[m].kind = "else" => r[k].kind # "else")
    <3>1. r[m].kind \in {"else", "end"}
      BY <1>4, <2>2
    <3> QED
      BY <1>2, <3>1, OpenedBefore
  <2>4. m = n + i /\ n + i - 1 = m - 1 /\ n + i \in Nat
    BY <1>1, <2>2
  <2>5. j > n
    <3> SUFFICES ASSUME ~ (j > n) PROVE FALSE
      OBVIOUS
    <3>1. CASE j = n
      BY <1>1, <2>3, <2>4, <3>1
    <3>2. CASE j # n
      <4>1. n \in j + 1 .. m - 1
        BY <1>1, <2>4, <3>2
      <4> QED
        BY <1>1, <2>3, <2>4, <4>1
    <3> QED
      BY <3>1, <3>2
  <2>6. j - n \in 1 .. i - 1 /\ j - n \in 1 .. l /\ n + (j - n) = j
    BY <1>1, <2>5, <2>4
  <2>7. q[j - n].kind = "if"
    BY <1>1, <2>3, <2>4, <2>6
  <2>8. ASSUME NEW k \in (j - n) + 1 .. i - 1 PROVE q[k].kind # "end" /\ (q[i].kind = "else" => q[k].kind # "else")
    <3>1. n + k \in j + 1 .. m - 1 /\ k \in 1 .. l
      BY <1>1, <2>6, <2>4
    <3>2. r[n + k] = q[k]
      BY <1>1, <3>1
    <3> QED
      BY <2>2, <2>3, <2>4, <3>1, <3>2
  <2> QED
    BY <2>6, <2>7, <2>8
<1> QED
  BY <1>1, <1>3, <1>4 DEF Flat, l

\* In front of a flat template words and placeholders leave it flat.
LEMMA FlatBehind ==
  ASSUME NEW s \in Seq(Writable), NEW q \in Seq(Writable), Unmarked(s), Flat(q)
  PROVE  Flat(s \o q)
<1> DEFINE r == s \o q
           n == Len(s)
           l == Len(q)
<1>1. /\ n \in Nat /\ l \in Nat /\ Len(r) = n + l /\ DOMAIN r = 1 .. n + l /\ DOMAIN q = 1 .. l /\ DOMAIN s = 1 .. n
      /\ (\A i \in 1 .. n : r[i] = s[i])
      /\ (\A i \in 1 .. l : r[n + i] = q[i])
  BY TextsBehind
<1> HIDE DEF r, n, l
<1>2. \A i \in 1 .. n : r[i].kind \notin {"if", "else", "end"}
  BY <1>1 DEF Unmarked
<1>3. ASSUME NEW i \in 1 .. n + l, r[i].kind = "if"
      PROVE  \E j \in i + 1 .. n + l : r[j].kind = "end" /\ \A k \in i + 1 .. j - 1 : r[k].kind \notin {"if", "end"}
  <2>1. i \notin 1 .. n
    BY <1>2, <1>3
  <2>2. i - n \in DOMAIN q /\ i - n \in 1 .. l /\ n + (i - n) = i
    BY <1>1, <2>1
  <2>3. PICK j \in (i - n) + 1 .. l : q[j].kind = "end" /\ \A k \in (i - n) + 1 .. j - 1 : q[k].kind \notin {"if", "end"}
    <3>1. q[i - n].kind = "if"
      BY <1>1, <1>3, <2>2
    <3> QED
      BY <2>2, <3>1 DEF Flat, l
  <2>4. n + j \in i + 1 .. n + l /\ j \in 1 .. l
    BY <1>1, <2>2
  <2>5. r[n + j].kind = "end"
    BY <1>1, <2>3, <2>4
  <2>6. ASSUME NEW k \in i + 1 .. (n + j) - 1 PROVE r[k].kind \notin {"if", "end"}
    <3>1. k - n \in (i - n) + 1 .. j - 1 /\ k - n \in 1 .. l /\ n + (k - n) = k
      BY <1>1, <2>2, <2>4
    <3>2. r[n + (k - n)] = q[k - n]
      BY <1>1, <3>1
    <3> QED
      BY <2>3, <3>1, <3>2
  <2> QED
    BY <2>4, <2>5, <2>6
<1>4. ASSUME NEW i \in 1 .. n + l, r[i].kind \in {"else", "end"}
      PROVE  \E j \in 1 .. i - 1 :
               r[j].kind = "if" /\ \A k \in j + 1 .. i - 1 : r[k].kind # "end" /\ (r[i].kind = "else" => r[k].kind # "else")
  <2>1. i \notin 1 .. n
    BY <1>2, <1>4
  <2>2. i - n \in DOMAIN q /\ i - n \in 1 .. l /\ n + (i - n) = i
    BY <1>1, <2>1
  <2>3. r[i] = q[i - n]
    BY <1>1, <2>2
  <2>4. PICK j \in 1 .. (i - n) - 1 :
          q[j].kind = "if" /\ \A k \in j + 1 .. (i - n) - 1 : q[k].kind # "end" /\ (q[i - n].kind = "else" => q[k].kind # "else")
    BY <1>4, <2>2, <2>3 DEF Flat
  <2>5. n + j \in 1 .. i - 1 /\ j \in 1 .. l
    BY <1>1, <2>2
  <2>6. r[n + j].kind = "if"
    BY <1>1, <2>4, <2>5
  <2>7. ASSUME NEW k \in (n + j) + 1 .. i - 1 PROVE r[k].kind # "end" /\ (r[i].kind = "else" => r[k].kind # "else")
    <3>1. k - n \in j + 1 .. (i - n) - 1 /\ k - n \in 1 .. l /\ n + (k - n) = k
      BY <1>1, <2>2, <2>5
    <3>2. r[n + (k - n)] = q[k - n]
      BY <1>1, <3>1
    <3> QED
      BY <2>3, <2>4, <3>1, <3>2
  <2> QED
    BY <2>5, <2>6, <2>7
<1> QED
  BY <1>1, <1>3, <1>4 DEF Flat, r

\* The first conditional of a text is one of its branches afterwards, and the
\* text gets shorter.
Ahead(t) == SubSeq(t, 1, IndexOf(t, "if", 1) - 1)
EndOf(t) == IndexOf(t, "end", IndexOf(t, "if", 1))
Body(t) == SubSeq(t, IndexOf(t, "if", 1) + 1, EndOf(t) - 1)
Behind(t) == SubSeq(t, EndOf(t) + 1, Len(t))
Branch(t, vars) == IF Truthy(t[IndexOf(t, "if", 1)].name, vars) THEN Yes(Body(t)) ELSE No(Body(t))

\* ProcessFirst puts the branch in the conditional's place.
LEMMA FirstIs ==
  ASSUME NEW t \in Seq(Writable), NEW vars
  PROVE  LET i == IndexOf(t, "if", 1)
             e == EndOf(t)
         IN  \/ (i = 0 \/ e = 0) /\ ProcessFirst(t, vars) = t
             \/ /\ i \in 1 .. Len(t) /\ e \in i + 1 .. Len(t)
                /\ t[i].kind = "if" /\ t[e].kind = "end"
                /\ \A k \in 1 .. i - 1 : t[k].kind # "if"
                /\ \A k \in i + 1 .. e - 1 : t[k].kind # "end"
                /\ Ahead(t) \in Seq(Writable) /\ Len(Ahead(t)) = i - 1 /\ \A k \in 1 .. i - 1 : Ahead(t)[k] = t[k]
                /\ Body(t) \in Seq(Writable) /\ Len(Body(t)) = e - i - 1 /\ \A k \in 1 .. e - i - 1 : Body(t)[k] = t[i + k]
                /\ Behind(t) \in Seq(Writable) /\ Len(Behind(t)) = Len(t) - e
                /\ t = Ahead(t) \o (<< t[i] >> \o (Body(t) \o (<< t[e] >> \o Behind(t))))
                /\ ProcessFirst(t, vars) = Ahead(t) \o Branch(t, vars) \o Behind(t)
<1> DEFINE i == IndexOf(t, "if", 1)
           e == IndexOf(t, "end", i)
           n == Len(t)
<1>1. n \in Nat /\ EndOf(t) = e
  BY DEF EndOf
<1>2. i = 0 \/ (i \in 1 .. n /\ t[i].kind = "if" /\ \A k \in 1 .. i - 1 : t[k].kind # "if")
  BY IndexIs
<1>3. CASE i = 0
  BY <1>3 DEF ProcessFirst
<1>4. CASE i # 0
  <2>1. i \in 1 .. n /\ t[i].kind = "if" /\ \A k \in 1 .. i - 1 : t[k].kind # "if"
    BY <1>2, <1>4
  <2>2. e = 0 \/ (e \in i .. n /\ t[e].kind = "end" /\ \A k \in i .. e - 1 : t[k].kind # "end")
    <3>1. i \in Nat \ {0}
      BY <2>1
    <3> HIDE DEF i
    <3> QED
      BY <3>1, IndexIs
  <2>3. CASE e = 0
    BY <1>1, <1>4, <2>3 DEF ProcessFirst
  <2>4. CASE e # 0
    <3>1. e \in i .. n /\ t[e].kind = "end" /\ \A k \in i .. e - 1 : t[k].kind # "end"
      BY <2>2, <2>4
    <3>2. e # i
      BY <2>1, <3>1
    <3> HIDE DEF n
    <3>3. ProcessFirst(t, vars) = Ahead(t) \o Branch(t, vars) \o Behind(t)
      BY <1>1, <1>4, <2>4 DEF ProcessFirst, Ahead, Branch, Behind, Yes, No, Body, EndOf
    <3>4. Ahead(t) = SubSeq(t, 1, i - 1) /\ Body(t) = SubSeq(t, i + 1, e - 1) /\ Behind(t) = SubSeq(t, e + 1, n)
      BY <1>1 DEF Ahead, Body, Behind, n
    <3> HIDE DEF i, e
    <3>5. i \in 1 .. n /\ e \in i + 1 .. n /\ \A k \in i + 1 .. e - 1 : t[k].kind # "end"
      BY <1>1, <2>1, <3>1, <3>2
    <3>6. /\ 1 \in 1 .. n + 1 /\ i - 1 \in 0 .. n /\ 1 <= (i - 1) + 1 /\ (i - 1) + 1 - 1 = i - 1
          /\ i + 1 \in 1 .. n + 1 /\ e - 1 \in 0 .. n /\ i + 1 <= (e - 1) + 1 /\ (e - 1) + 1 - (i + 1) = e - i - 1
          /\ e + 1 \in 1 .. n + 1 /\ n \in 0 .. n /\ e + 1 <= n + 1 /\ n + 1 - (e + 1) = n - e
          /\ e - 1 <= n /\ (e - 1) + 1 = e /\ e \in 1 .. n + 1 /\ e \in 0 .. n /\ e <= e + 1 /\ e <= n /\ e \in 1 .. n
      BY ONLY <1>1, <3>5
    <3>7. \A k \in 1 .. i - 1 : 1 + k - 1 = k
      BY ONLY <1>1, <3>5
    <3>8. \A k \in 1 .. e - i - 1 : (i + 1) + k - 1 = i + k
      BY ONLY <1>1, <3>5
    <3>9. Ahead(t) \in Seq(Writable) /\ Len(Ahead(t)) = i - 1 /\ \A k \in 1 .. i - 1 : Ahead(t)[k] = t[k]
      <4>1. SubSeq(t, 1, i - 1) \in Seq(Writable) /\ Len(SubSeq(t, 1, i - 1)) = (i - 1) + 1 - 1
            /\ \A k \in 1 .. (i - 1) + 1 - 1 : SubSeq(t, 1, i - 1)[k] = t[1 + k - 1]
        BY <3>6, WithinText DEF n
      <4> QED
        BY <3>4, <3>6, <3>7, <4>1
    <3>10. Body(t) \in Seq(Writable) /\ Len(Body(t)) = e - i - 1 /\ \A k \in 1 .. e - i - 1 : Body(t)[k] = t[i + k]
      <4>1. SubSeq(t, i + 1, e - 1) \in Seq(Writable) /\ Len(SubSeq(t, i + 1, e - 1)) = (e - 1) + 1 - (i + 1)
            /\ \A k \in 1 .. (e - 1) + 1 - (i + 1) : SubSeq(t, i + 1, e - 1)[k] = t[(i + 1) + k - 1]
        <5> DEFINE a == i + 1
                   b == e - 1
        <5>1. a \in 1 .. Len(t) + 1 /\ b \in 0 .. Len(t) /\ a <= b + 1
          BY <3>6 DEF n
        <5> HIDE DEF a, b
        <5>2. SubSeq(t, a, b) \in Seq(Writable) /\ Len(SubSeq(t, a, b)) = b + 1 - a
              /\ \A k \in 1 .. b + 1 - a : SubSeq(t, a, b)[k] = t[a + k - 1]
          BY <5>1, WithinText
        <5> QED
          BY <5>2 DEF a, b
      <4> QED
        BY <3>4, <3>6, <3>8, <4>1
    <3>11. Behind(t) \in Seq(Writable) /\ Len(Behind(t)) = n - e
      <4>1. SubSeq(t, e + 1, n) \in Seq(Writable) /\ Len(SubSeq(t, e + 1, n)) = n + 1 - (e + 1)
        BY <3>6, WithinText DEF n
      <4> QED
        BY <3>4, <3>6, <4>1
    <3>12. t = SubSeq(t, 1, i - 1) \o (<< t[i] >> \o SubSeq(t, i + 1, n))
      BY <3>5, AroundOne DEF n
    <3>13. SubSeq(t, i + 1, n) = SubSeq(t, i + 1, e - 1) \o SubSeq(t, (e - 1) + 1, n)
      BY <3>6, PartsOfText DEF n
    <3>14. SubSeq(t, e, n) = SubSeq(t, e, e) \o SubSeq(t, e + 1, n)
      BY <3>6, PartsOfText DEF n
    <3>15. SubSeq(t, e, e) = << t[e] >>
      BY <3>6, WholeText DEF n
    <3>16. t = Ahead(t) \o (<< t[i] >> \o (Body(t) \o (<< t[e] >> \o Behind(t))))
      BY <3>4, <3>6, <3>12, <3>13, <3>14, <3>15
    <3> QED
      BY <1>1, <2>1, <3>1, <3>3, <3>5, <3>9, <3>10, <3>11, <3>16 DEF i, n
  <2> QED
    BY <2>3, <2>4
<1> QED
  BY <1>3, <1>4

\* A step makes a text of a text.
LEMMA FirstTyped ==
  ASSUME NEW t \in Seq(Writable), NEW vars
  PROVE  ProcessFirst(t, vars) \in Seq(Writable)
<1>1. CASE ProcessFirst(t, vars) = t
  BY <1>1
<1>2. CASE ProcessFirst(t, vars) # t
  <2>1. /\ Ahead(t) \in Seq(Writable) /\ Body(t) \in Seq(Writable) /\ Behind(t) \in Seq(Writable)
        /\ ProcessFirst(t, vars) = Ahead(t) \o Branch(t, vars) \o Behind(t)
    BY <1>2, FirstIs
  <2>2. Branch(t, vars) \in Seq(Writable)
    BY <2>1, BranchesTyped DEF Branch
  <2>3. Ahead(t) \o Branch(t, vars) \in Seq(Writable)
    BY <2>1, <2>2
  <2> QED
    BY <2>1, <2>3
<1> QED
  BY <1>1, <1>2

\* A flat template without a conditional holds no mark at all.
LEMMA NoConditional ==
  ASSUME NEW t \in Seq(Writable), Flat(t), \A k \in 1 .. Len(t) : t[k].kind # "if"
  PROVE  Unmarked(t)
<1> SUFFICES ASSUME NEW i \in DOMAIN t PROVE t[i].kind \in {"text", "var"}
  BY DEF Unmarked
<1>1. i \in 1 .. Len(t) /\ Len(t) \in Nat /\ t[i] \in Writable
  OBVIOUS
<1>2. t[i].kind \in {"text", "var", "if", "else", "end"}
  BY <1>1 DEF Writable
<1>3. t[i].kind \notin {"else", "end"}
  <2> SUFFICES ASSUME t[i].kind \in {"else", "end"} PROVE FALSE
    OBVIOUS
  <2>1. \E j \in 1 .. i - 1 : t[j].kind = "if"
    BY OpenedBefore
  <2>2. \A j \in 1 .. i - 1 : j \in 1 .. Len(t)
    BY <1>1
  <2> QED
    BY <2>1, <2>2
<1> QED
  BY <1>1, <1>2, <1>3

\* A step on a flat template keeps what is kept, leaves the template flat, and
\* makes it shorter while it has a conditional.
LEMMA FirstKeeps ==
  ASSUME NEW t \in Seq(Writable), Flat(t), NEW vars
  PROVE  LET r == ProcessFirst(t, vars)
         IN  /\ Flat(r) /\ KeptTokens(r, vars) = KeptTokens(t, vars)
             /\ (Unmarked(t) /\ r = t) \/ Len(r) < Len(t)
<1> DEFINE r == ProcessFirst(t, vars)
           i == IndexOf(t, "if", 1)
           e == EndOf(t)
           n == Len(t)
<1>1. n \in Nat /\ DOMAIN t = 1 .. n
  OBVIOUS
<1>2. CASE i = 0
  <2>1. r = t
    BY <1>2 DEF ProcessFirst
  <2>2. \A k \in 1 .. Len(t) : t[k].kind # "if"
    BY <1>2, IndexIs
  <2> QED
    BY <2>1, <2>2, NoConditional
<1>3. CASE i # 0
  <2>1. i \in 1 .. n /\ t[i].kind = "if" /\ \A k \in 1 .. i - 1 : t[k].kind # "if"
    BY <1>3, IndexIs
  <2>2. PICK j \in i + 1 .. n : t[j].kind = "end" /\ \A k \in i + 1 .. j - 1 : t[k].kind \notin {"if", "end"}
    BY <1>1, <2>1 DEF Flat
  <2>3. e # 0
    <3>1. i \in Nat \ {0} /\ j \in i .. Len(t)
      BY <1>1, <2>1, <2>2
    <3> HIDE DEF i
    <3>2. e = IndexOf(t, "end", i)
      BY DEF EndOf, i
    <3>3. e = 0 => \A k \in i .. Len(t) : t[k].kind # "end"
      BY <3>1, <3>2, IndexIs
    <3> QED
      BY <2>2, <3>1, <3>3
  <2> DEFINE p == Ahead(t)
             m == Body(t)
             q == Behind(t)
             b == Branch(t, vars)
             x == t[i]
             y == t[e]
  <2>4. /\ e \in i + 1 .. n /\ y.kind = "end"
        /\ \A k \in i + 1 .. e - 1 : t[k].kind # "end"
        /\ p \in Seq(Writable) /\ Len(p) = i - 1 /\ \A k \in 1 .. i - 1 : p[k] = t[k]
        /\ m \in Seq(Writable) /\ Len(m) = e - i - 1 /\ \A k \in 1 .. e - i - 1 : m[k] = t[i + k]
        /\ q \in Seq(Writable) /\ Len(q) = n - e
        /\ t = p \o (<< x >> \o (m \o (<< y >> \o q)))
        /\ r = (p \o b) \o q
    BY <1>3, <2>3, FirstIs
  <2>5. b = (IF Truthy(x.name, vars) THEN Yes(m) ELSE No(m))
    BY DEF Branch
  <2> HIDE DEF p, m, q, b, x, y, r, e, i, n
  <2>6. p \in Seq(Writable) /\ m \in Seq(Writable) /\ q \in Seq(Writable)
    BY <2>4
  <2>7. j = e
    <3>1. ~ (e < j)
      <4> SUFFICES ASSUME e < j PROVE FALSE
        OBVIOUS
      <4>1. e \in i + 1 .. j - 1
        BY <1>1, <2>1, <2>4
      <4> QED
        BY <2>2, <2>4, <4>1 DEF y
    <3>2. ~ (j < e)
      <4> SUFFICES ASSUME j < e PROVE FALSE
        OBVIOUS
      <4>1. j \in i + 1 .. e - 1
        BY <1>1, <2>1, <2>4
      <4> QED
        BY <2>2, <2>4, <4>1
    <3> QED
      BY <1>1, <2>1, <2>4, <3>1, <3>2
  <2>8. x \in Writable /\ y \in Writable /\ x.kind = "if"
    <3>1. i \in DOMAIN t /\ e \in DOMAIN t
      BY <1>1, <2>1, <2>4
    <3> QED
      BY <2>1, <3>1 DEF x, y
  <2>9. Unmarked(p)
    <3> SUFFICES ASSUME NEW k \in 1 .. i - 1 PROVE p[k].kind \in {"text", "var"}
      BY <2>4 DEF Unmarked
    <3>1. k \in DOMAIN t /\ t[k] \in Writable
      BY <1>1, <2>1
    <3>2. t[k].kind \in {"text", "var", "if", "else", "end"}
      BY <3>1 DEF Writable
    <3>3. t[k].kind \notin {"else", "end"}
      <4> SUFFICES ASSUME t[k].kind \in {"else", "end"} PROVE FALSE
        OBVIOUS
      <4>1. \E l \in 1 .. k - 1 : t[l].kind = "if"
        BY <3>1, OpenedBefore
      <4>2. \A l \in 1 .. k - 1 : l \in 1 .. i - 1
        BY <2>1
      <4> QED
        BY <2>1, <4>1, <4>2
    <3> QED
      BY <2>1, <2>4, <3>2, <3>3
  <2>10. DOMAIN m = 1 .. e - i - 1 /\ \A k \in 1 .. e - i - 1 : i + k \in i + 1 .. e - 1 /\ i + k \in DOMAIN t
    <3>1. DOMAIN m = 1 .. e - i - 1
      BY <2>4
    <3>2. \A k \in 1 .. e - i - 1 : i + k \in i + 1 .. e - 1 /\ i + k \in 1 .. n
      BY <1>1, <2>1, <2>4
    <3> QED
      BY <1>1, <3>1, <3>2
  <2>11. \A k \in DOMAIN m : m[k].kind \notin {"if", "end"}
    BY <2>2, <2>4, <2>7, <2>10
  <2>12. \A k \in DOMAIN m : m[k].kind = "else" => \A l \in 1 .. k - 1 : m[l].kind # "else"
    <3> SUFFICES ASSUME NEW k \in 1 .. e - i - 1, m[k].kind = "else", NEW l \in 1 .. k - 1 PROVE m[l].kind # "else"
      BY <2>10
    <3>1. PICK o \in DOMAIN t : o = i + k /\ t[o].kind = "else"
      BY <2>4, <2>10
    <3>2. PICK h \in 1 .. o - 1 :
            t[h].kind = "if" /\ \A g \in h + 1 .. o - 1 : t[g].kind # "end" /\ (t[o].kind = "else" => t[g].kind # "else")
      BY <3>1, OpenedBefore
    <3>3. h = i
      <4>1. h \notin 1 .. i - 1
        BY <2>1, <3>2
      <4>2. h \notin i + 1 .. e - 1
        BY <2>2, <2>7, <3>2
      <4>3. h \in Nat /\ h >= 1 /\ h < e
        <5>1. i \in Nat /\ e \in Nat /\ n \in Nat
          BY <1>1, <2>1, <2>4
        <5>2. o \in Nat /\ o < e
          BY <5>1, <3>1
        <5> QED
          BY <5>1, <5>2, <3>2
      <4> QED
        BY <1>1, <2>1, <2>4, <4>1, <4>2, <4>3
    <3>4. i + l \in h + 1 .. o - 1 /\ l \in 1 .. e - i - 1
      <4>1. i \in Nat /\ e \in Nat /\ n \in Nat
        BY <1>1, <2>1, <2>4
      <4>2. h = i /\ o = i + k /\ l <= k - 1 /\ 1 <= l /\ l \in Int /\ k \in Int /\ k <= e - i - 1
        BY <4>1, <3>1, <3>3
      <4> QED
        BY ONLY <4>1, <4>2
    <3>5. t[i + l].kind # "else"
      BY <3>1, <3>2, <3>4
    <3> QED
      BY <2>4, <3>4, <3>5
  <2> DEFINE c == Truthy(x.name, vars)
             B == {k \in DOMAIN m : m[k].kind # "else" /\ (c <=> \A l \in 1 .. k : m[l].kind # "else")}
             blk == << x >> \o (m \o << y >>)
  <2>13. KeptTokens(blk, vars) = Only(m, B)
    <3>1. \A k \in DOMAIN m : k \in B <=> /\ m[k].kind # "else"
                                          /\ c <=> \A l \in 1 .. k : m[l].kind # "else"
      OBVIOUS
    <3>2. c \in BOOLEAN /\ (c <=> Truthy(x.name, vars))
      BY DEF Truthy
    <3> HIDE DEF B, c
    <3> QED
      <4>1. KeptTokens(<< x >> \o (m \o << y >>), vars) = Only(m, B)
        <5>1. x \in Writable /\ y \in Writable /\ m \in Seq(Writable) /\ x.kind = "if" /\ y.kind = "end"
          BY <2>4, <2>8, <2>6
        <5> QED
          BY ONLY <2>11, <3>1, <3>2, <5>1, KeptConditional
      <4> QED
        BY <4>1
  <2>14. Only(m, B) = b /\ Unmarked(b) /\ b \in Seq(Writable) /\ Len(b) <= Len(m)
    <3>1. c \in BOOLEAN /\ \A k \in DOMAIN m : k \in B <=> m[k].kind # "else" /\ (c <=> \A l \in 1 .. k : m[l].kind # "else")
      BY DEF Truthy
    <3>2. b = (IF c THEN Yes(m) ELSE No(m))
      BY <2>5
    <3> HIDE DEF B, c
    <3>3. Only(m, B) = (IF c THEN Yes(m) ELSE No(m)) /\ Unmarked(Yes(m)) /\ Unmarked(No(m))
      BY <2>4, <2>11, <2>12, <3>1, BranchIs
    <3>4. /\ Yes(m) \in Seq(Writable) /\ No(m) \in Seq(Writable) /\ Len(Yes(m)) <= Len(m) /\ Len(No(m)) <= Len(m)
      BY <2>4, BranchesTyped
    <3> QED
      BY <3>2, <3>3, <3>4
  <2>15. b \in Seq(Writable)
    BY <2>14
  <2>16. /\ << x >> \in Seq(Writable) /\ << y >> \in Seq(Writable) /\ m \o << y >> \in Seq(Writable)
         /\ blk \in Seq(Writable) /\ Len(blk) = Len(m) + 2 /\ blk[Len(blk)] = y
    <3>1. << x >> \in Seq(Writable) /\ << y >> \in Seq(Writable) /\ Len(<< x >>) = 1 /\ Len(<< y >>) = 1 /\ << y >>[1] = y /\ 1 \in 1 .. 1
      BY <2>8
    <3> DEFINE w == m \o << y >>
    <3>2. /\ w \in Seq(Writable) /\ Len(w) = Len(m) + Len(<< y >>) /\ Len(m) \in Nat
          /\ \A k \in 1 .. Len(<< y >>) : w[Len(m) + k] = << y >>[k]
      BY <2>4, <3>1, TextsBehind
    <3> HIDE DEF w
    <3>3. Len(w) = Len(m) + 1 /\ w[Len(m) + 1] = y /\ Len(m) + 1 \in 1 .. Len(w)
      BY <3>1, <3>2
    <3>4. /\ << x >> \o w \in Seq(Writable) /\ Len(<< x >> \o w) = Len(<< x >>) + Len(w)
          /\ \A k \in 1 .. Len(w) : (<< x >> \o w)[Len(<< x >>) + k] = w[k]
      BY <3>1, <3>2, TextsBehind
    <3>5. Len(<< x >> \o w) = Len(m) + 2 /\ (<< x >> \o w)[Len(m) + 2] = y
      <4>1. 1 + (Len(m) + 1) = Len(m) + 2
        BY <3>2
      <4> QED
        BY <3>1, <3>3, <3>4, <4>1
    <3> QED
      BY <3>1, <3>2, <3>4, <3>5 DEF w
  <2> HIDE DEF blk, B, c
  <2>17. << x >> \in Seq(Writable) /\ << y >> \in Seq(Writable) /\ m \o << y >> \in Seq(Writable) /\ blk \in Seq(Writable)
    BY <2>16
  <2>18. Closed(blk)
    <3> SUFFICES ASSUME NEW k \in DOMAIN blk PROVE \E l \in k .. Len(blk) : blk[l].kind = "end"
      BY DEF Closed
    <3>1. Len(blk) \in k .. Len(blk)
      BY <2>16
    <3> QED
      BY <2>4, <2>16, <3>1
  <2>19. t = p \o (blk \o q) /\ t = (p \o blk) \o q
    <3> DEFINE w == << y >> \o q
    <3>1. w \in Seq(Writable) /\ m \o w \in Seq(Writable)
      BY <2>4, <2>16, TextsBehind
    <3>2. m \o w = (m \o << y >>) \o q
      BY <2>6, <2>17
    <3>3. << x >> \o ((m \o << y >>) \o q) = (<< x >> \o (m \o << y >>)) \o q
      BY <2>6, <2>17
    <3>4. t = p \o (blk \o q)
      BY <2>4, <3>2, <3>3 DEF blk
    <3>5. p \o (blk \o q) = (p \o blk) \o q
      BY <2>6, <2>17
    <3> QED
      BY <3>4, <3>5
  <2>20. p \o b \in Seq(Writable) /\ Unmarked(p \o b) /\ Len(p \o b) = Len(p) + Len(b)
    <3>1. /\ p \o b \in Seq(Writable) /\ Len(p \o b) = Len(p) + Len(b) /\ Len(p) \in Nat /\ Len(b) \in Nat
          /\ DOMAIN p = 1 .. Len(p) /\ DOMAIN b = 1 .. Len(b) /\ DOMAIN (p \o b) = 1 .. Len(p) + Len(b)
          /\ \A k \in 1 .. Len(p) : (p \o b)[k] = p[k]
          /\ \A k \in 1 .. Len(b) : (p \o b)[Len(p) + k] = b[k]
      BY ONLY <2>6, <2>15, TextsBehind
    <3>2. ASSUME NEW k \in DOMAIN (p \o b) PROVE (p \o b)[k].kind \in {"text", "var"}
      <4>1. CASE k \in 1 .. Len(p)
        BY <2>9, <3>1, <4>1 DEF Unmarked
      <4>2. CASE k \notin 1 .. Len(p)
        <5>1. k - Len(p) \in 1 .. Len(b) /\ Len(p) + (k - Len(p)) = k
          BY <3>1, <4>2
        <5>2. (p \o b)[k] = b[k - Len(p)]
          BY <3>1, <5>1
        <5> QED
          BY <2>14, <3>1, <5>1, <5>2 DEF Unmarked
      <4> QED
        BY <4>1, <4>2
    <3> QED
      BY <3>1, <3>2 DEF Unmarked
  <2>21. p \o b \in Seq(Writable)
    BY <2>20
  <2>22. KeptTokens(t, vars) = (p \o b) \o KeptTokens(q, vars)
    <3>1. KeptTokens(p, vars) = p /\ Closed(p)
      BY <2>4, <2>9, KeptPlain
    <3>2. blk \o q \in Seq(Writable)
      BY <2>4, <2>16
    <3>3. KeptTokens(p \o (blk \o q), vars) = KeptTokens(p, vars) \o KeptTokens(blk \o q, vars)
      <4> DEFINE w == blk \o q
      <4>1. w \in Seq(Writable) /\ Closed(p)
        BY <3>1, <3>2
      <4> HIDE DEF w
      <4>2. KeptTokens(p \o w, vars) = KeptTokens(p, vars) \o KeptTokens(w, vars)
        BY ONLY <2>6, <4>1, KeptBehind
      <4> QED
        BY <4>2 DEF w
    <3>4. KeptTokens(blk \o q, vars) = KeptTokens(blk, vars) \o KeptTokens(q, vars)
      BY ONLY <2>18, <2>6, <2>17, KeptBehind
    <3>5. KeptTokens(q, vars) \in Seq(Writable)
      BY <2>4, OnlyTyped DEF KeptTokens
    <3>6. p \o (b \o KeptTokens(q, vars)) = (p \o b) \o KeptTokens(q, vars)
      <4> DEFINE w == KeptTokens(q, vars)
      <4> HIDE DEF w
      <4>1. w \in Seq(Writable)
        BY <3>5 DEF w
      <4>2. p \o (b \o w) = (p \o b) \o w
        BY <2>6, <2>15, <4>1
      <4> QED
        BY <4>2 DEF w
    <3> QED
      BY <2>13, <2>14, <2>19, <3>1, <3>3, <3>4, <3>6
  <2>23. KeptTokens(r, vars) = (p \o b) \o KeptTokens(q, vars)
    <3>1. KeptTokens(p \o b, vars) = p \o b /\ Closed(p \o b)
      BY <2>20, KeptPlain
    <3>2. KeptTokens((p \o b) \o q, vars) = KeptTokens(p \o b, vars) \o KeptTokens(q, vars)
      BY ONLY <2>6, <2>21, <3>1, KeptBehind
    <3> QED
      BY <2>4, <3>1, <3>2
  <2>24. Flat(r)
    <3> DEFINE s == p \o blk
    <3>1. s \in Seq(Writable) /\ Len(s) > 0 /\ s[Len(s)].kind = "end"
      <4>1. /\ s \in Seq(Writable) /\ Len(s) = Len(p) + Len(blk) /\ Len(p) \in Nat /\ Len(blk) \in Nat
            /\ \A k \in 1 .. Len(blk) : s[Len(p) + k] = blk[k]
        BY ONLY <2>6, <2>17, TextsBehind
      <4>2. Len(blk) \in 1 .. Len(blk)
        <5>1. Len(m) \in Nat
          BY <2>4
        <5> QED
          BY <2>16, <4>1, <5>1
      <4> HIDE DEF s
      <4> QED
        BY <2>4, <2>16, <4>1, <4>2
    <3>2. Flat(s \o q)
      BY <2>19
    <3> HIDE DEF s
    <3>3. Flat(q)
      BY <2>4, <3>1, <3>2, FlatTail
    <3>4. Flat((p \o b) \o q)
      BY <2>4, <2>20, <3>3, FlatBehind
    <3> QED
      BY <2>4, <3>4
  <2>25. Len(r) < n
    <3>1. Len(r) = Len(p \o b) + Len(q)
      <4>1. Len((p \o b) \o q) = Len(p \o b) + Len(q)
        BY ONLY <2>6, <2>21, TextsBehind
      <4> QED
        BY <2>4, <4>1
    <3>2. Len(b) \in Nat
      BY <2>14
    <3> QED
      BY <1>1, <2>1, <2>4, <2>14, <2>20, <3>1, <3>2
  <2> QED
    BY <2>22, <2>23, <2>24, <2>25 DEF r, n
<1> QED
  BY <1>2, <1>3

\* As many steps as the list is long.
AfterSteps(t, o) == FoldLeft(ProcessFirst, t, o)

\* No step leaves the template as it is.
LEMMA ChosenNothing == \A t : AfterSteps(t, << >>) = t
<1>1. \A t, o : AfterSteps(t, o) = Choosing!Folded(t, o)
  BY DEF AfterSteps, FoldLeft, MapThenFoldSet, Max, Choosing!Folded, Choosing!Greatest
<1> QED
  BY <1>1, Choosing!FoldEmpty

\* One more step comes last.
LEMMA ChosenAppend ==
  ASSUME NEW t, NEW S, NEW o \in Seq(S), NEW v \in S
  PROVE  AfterSteps(t, Append(o, v)) = ProcessFirst(AfterSteps(t, o), v)
<1>1. \A u, q : AfterSteps(u, q) = Choosing!Folded(u, q)
  BY DEF AfterSteps, FoldLeft, MapThenFoldSet, Max, Choosing!Folded, Choosing!Greatest
<1>2. Choosing!Folded(t, Append(o, v)) = ProcessFirst(Choosing!Folded(t, o), v)
  BY Choosing!FoldAppend
<1> QED
  BY <1>1, <1>2

\* The steps on a template are as many as it has tokens.
LEMMA ManyTimes ==
  ASSUME NEW T, NEW t \in Seq(T), NEW v
  PROVE  [i \in DOMAIN t |-> v] \in Seq({v}) /\ Len([i \in DOMAIN t |-> v]) = Len(t)
<1>1. DOMAIN t = 1 .. Len(t) /\ Len(t) \in Nat
  OBVIOUS
<1> QED
  BY <1>1

\* The conditionals of a text taken away, it is a text.
LEMMA ConditionalsTyped ==
  ASSUME NEW t \in Seq(Writable), NEW vars
  PROVE  ProcessConditionals(t, vars) \in Seq(Writable)
<1> DEFINE G == {o \in Seq({vars}) : AfterSteps(t, o) \in Seq(Writable)}
<1>1. << >> \in G
  BY EmptyText, ChosenNothing
<1>2. ASSUME NEW o \in Seq({vars}), NEW v \in {vars}, o \in G PROVE Append(o, v) \in G
  <2>1. AfterSteps(t, Append(o, v)) = ProcessFirst(AfterSteps(t, o), v)
    BY ChosenAppend
  <2>2. Append(o, v) \in Seq({vars})
    BY TokenAdded
  <2>3. AfterSteps(t, o) \in Seq(Writable)
    BY <1>2
  <2>4. ProcessFirst(AfterSteps(t, o), v) \in Seq(Writable)
    BY <2>3, FirstTyped
  <2> QED
    BY <2>1, <2>2, <2>4
<1> HIDE DEF G
<1>3. Seq({vars}) \subseteq G
  BY <1>1, <1>2, Joining!SequencesGrow
<1>4. [i \in DOMAIN t |-> vars] \in Seq({vars})
  BY ManyTimes
<1> QED
  BY <1>3, <1>4 DEF G, ProcessConditionals, AfterSteps

\* What is left of a template whose conditionals do not nest.
LEMMA ConditionalsAre ==
  ASSUME NEW t \in Seq(Writable), Flat(t), NEW vars
  PROVE  ProcessConditionals(t, vars) = KeptTokens(t, vars)
<1> DEFINE P(o) == /\ AfterSteps(t, o) \in Seq(Writable) /\ Flat(AfterSteps(t, o))
                   /\ KeptTokens(AfterSteps(t, o), vars) = KeptTokens(t, vars)
                   /\ Unmarked(AfterSteps(t, o)) \/ Len(AfterSteps(t, o)) + Len(o) <= Len(t)
           G == {o \in Seq({vars}) : P(o)}
<1>1. Len(t) \in Nat
  OBVIOUS
<1>2. << >> \in G
  <2>1. << >> \in Seq({vars}) /\ Len(<< >>) = 0
    BY EmptyText
  <2> QED
    BY <1>1, <2>1, ChosenNothing
<1>3. ASSUME NEW o \in Seq({vars}), NEW v \in {vars}, o \in G PROVE Append(o, v) \in G
  <2> DEFINE c == AfterSteps(t, o)
             r == ProcessFirst(c, vars)
  <2>1. AfterSteps(t, Append(o, v)) = r
    BY ChosenAppend
  <2>2. Append(o, v) \in Seq({vars}) /\ Len(Append(o, v)) = Len(o) + 1 /\ Len(o) \in Nat
    BY TokenAdded
  <2>3. /\ c \in Seq(Writable) /\ Flat(c) /\ KeptTokens(c, vars) = KeptTokens(t, vars)
        /\ Unmarked(c) \/ Len(c) + Len(o) <= Len(t)
    BY <1>3
  <2> HIDE DEF c
  <2>4. /\ Flat(r) /\ KeptTokens(r, vars) = KeptTokens(c, vars)
        /\ (Unmarked(c) /\ r = c) \/ Len(r) < Len(c)
    BY <2>3, FirstKeeps
  <2>5. r \in Seq(Writable)
    BY <2>3, FirstTyped
  <2>6. Unmarked(c) => r = c
    <3> SUFFICES ASSUME Unmarked(c) PROVE r = c
      OBVIOUS
    <3>1. \A k \in 1 .. Len(c) : c[k].kind # "if"
      BY <2>3 DEF Unmarked
    <3>2. IndexOf(c, "if", 1) = 0
      BY <2>3, <3>1, IndexIs
    <3> QED
      BY <3>2 DEF ProcessFirst
  <2> HIDE DEF r
  <2>7. Unmarked(r) \/ Len(r) + (Len(o) + 1) <= Len(t)
    <3>1. CASE Unmarked(c)
      BY <2>6, <3>1
    <3>2. CASE ~Unmarked(c)
      <4>1. Len(r) < Len(c) /\ Len(c) + Len(o) <= Len(t) /\ Len(r) \in Nat /\ Len(c) \in Nat
        BY <2>3, <2>4, <2>5, <3>2
      <4> QED
        BY <1>1, <2>2, <4>1
    <3> QED
      BY <3>1, <3>2
  <2> QED
    BY <2>1, <2>2, <2>3, <2>4, <2>5, <2>7
<1> HIDE DEF G, P
<1>4. Seq({vars}) \subseteq G
  BY <1>2, <1>3, Joining!SequencesGrow
<1> DEFINE o == [i \in DOMAIN t |-> vars]
           c == AfterSteps(t, o)
<1>5. o \in Seq({vars}) /\ Len(o) = Len(t)
  BY ManyTimes
<1>6. P(o) /\ ProcessConditionals(t, vars) = c
  BY <1>4, <1>5 DEF G, ProcessConditionals, AfterSteps
<1>7. c \in Seq(Writable) /\ KeptTokens(c, vars) = KeptTokens(t, vars) /\ (Unmarked(c) \/ Len(c) + Len(o) <= Len(t))
  BY <1>6 DEF P
<1> HIDE DEF c, o
<1>8. Unmarked(c)
  <2> SUFFICES ASSUME Len(c) + Len(o) <= Len(t) PROVE Unmarked(c)
    BY <1>7
  <2>1. Len(c) \in Nat /\ DOMAIN c = 1 .. Len(c)
    BY <1>7
  <2>2. Len(c) = 0
    BY <1>1, <1>5, <2>1
  <2> QED
    BY <2>1, <2>2 DEF Unmarked
<1>9. KeptTokens(c, vars) = c
  BY <1>7, <1>8, KeptPlain
<1> QED
  BY <1>6, <1>7, <1>9

\* What the chosen tokens of a text are replaced by.
Given(t, K, f) == Joined([i \in DOMAIN t |-> IF i \in K THEN f[t[i]] ELSE << >>])

\* One more token may be chosen.
LEMMA GivenAppend ==
  ASSUME NEW T, NEW V, NEW f \in [T -> Seq(V)], NEW t \in Seq(T), NEW x \in T, NEW K
  PROVE  Given(Append(t, x), K, f) = Given(t, K, f) \o (IF Len(t) + 1 \in K THEN f[x] ELSE << >>)
<1> DEFINE S == Seq(V)
           n == Len(t)
           r == Append(t, x)
           p == [i \in DOMAIN r |-> IF i \in K THEN f[r[i]] ELSE << >>]
           q == [i \in DOMAIN t |-> IF i \in K THEN f[t[i]] ELSE << >>]
           e == IF n + 1 \in K THEN f[x] ELSE << >>
           m == Append(q, e)
<1>1. /\ r \in Seq(T) /\ n \in Nat /\ DOMAIN t = 1 .. n /\ DOMAIN r = 1 .. n + 1 /\ Len(r) = n + 1
      /\ r[n + 1] = x /\ (\A i \in 1 .. n : r[i] = t[i])
  BY TokenAdded
<1>2. /\ (\A i \in 1 .. n : t[i] \in T) /\ << >> \in S /\ \A y \in T : f[y] \in S
  BY EmptyText
<1>3. \A i \in 1 .. n + 1 : r[i] \in T
  <2> HIDE DEF r
  <2> QED
    BY <1>1
<1> HIDE DEF S, r, n
<1>4. p \in Seq(S) /\ Len(p) = n + 1 /\ \A i \in 1 .. n + 1 : p[i] = IF i \in K THEN f[r[i]] ELSE << >>
  <2>1. p = [i \in 1 .. n + 1 |-> IF i \in K THEN f[r[i]] ELSE << >>]
    BY <1>1
  <2>2. n + 1 \in Nat /\ \A i \in 1 .. n + 1 : (IF i \in K THEN f[r[i]] ELSE << >>) \in S
    BY <1>1, <1>2, <1>3
  <2> QED
    BY <2>1, <2>2
<1>5. q \in Seq(S) /\ Len(q) = n /\ \A i \in 1 .. n : q[i] = IF i \in K THEN f[t[i]] ELSE << >>
  <2>1. q = [i \in 1 .. n |-> IF i \in K THEN f[t[i]] ELSE << >>]
    BY <1>1
  <2>2. n \in Nat /\ \A i \in 1 .. n : (IF i \in K THEN f[t[i]] ELSE << >>) \in S
    BY <1>1, <1>2
  <2> QED
    BY <2>1, <2>2
<1>6. e \in S
  BY <1>2
<1>7. Given(r, K, f) = Joined(p) /\ Given(t, K, f) = Joined(q)
  BY DEF Given
<1> HIDE DEF p, q
<1>8. m \in Seq(S) /\ Len(m) = n + 1 /\ m[n + 1] = e /\ \A i \in 1 .. n : m[i] = q[i]
  <2> HIDE DEF e
  <2>1. m \in Seq(S) /\ Len(m) = Len(q) + 1 /\ m[Len(q) + 1] = e /\ \A i \in 1 .. Len(q) : m[i] = q[i]
    <3>1. q \in Seq(S)
      BY <1>5
    <3> QED
      BY ONLY <1>6, <3>1, TokenAdded
  <2> QED
    BY <1>5, <2>1
<1>9. \A i \in 1 .. n + 1 : i \in 1 .. n \/ i = n + 1
  BY <1>1
<1>10. p = m
  <2>1. \A i \in 1 .. n + 1 : p[i] = m[i]
    <3> SUFFICES ASSUME NEW i \in 1 .. n + 1 PROVE p[i] = m[i]
      OBVIOUS
    <3> HIDE DEF m
    <3>1. CASE i \in 1 .. n
      <4>1. r[i] = t[i] /\ m[i] = q[i] /\ q[i] = IF i \in K THEN f[t[i]] ELSE << >>
        BY <1>1, <1>5, <1>8, <3>1
      <4> QED
        BY <1>4, <4>1
    <3>2. CASE i = n + 1
      <4>1. p[i] = e
        BY <1>1, <1>4, <3>2
      <4> HIDE DEF e
      <4> QED
        BY <1>8, <3>2, <4>1
    <3> QED
      BY <1>9, <3>1, <3>2
  <2> HIDE DEF m, e
  <2>2. p \in Seq(S) /\ m \in Seq(S) /\ Len(p) = Len(m) /\ \A i \in 1 .. Len(p) : p[i] = m[i]
    BY <1>4, <1>8, <2>1
  <2> QED
    BY ONLY <2>2, SameLines
<1>11. Joined(Append(q, e)) = Joined(q) \o e
  <2> HIDE DEF e
  <2>1. q \in Seq(Seq(V)) /\ e \in Seq(V)
    BY <1>5, <1>6 DEF S
  <2> QED
    BY <2>1, JoinedAppend
<1> QED
  BY <1>7, <1>10, <1>11 DEF r, n

\* The same, of a replacement that is not looked into.
LEMMA GivenBehind ==
  ASSUME NEW T, NEW V, NEW f, Replaces(f, T, V), NEW t \in Seq(T), NEW x \in T, NEW K
  PROVE  Given(Append(t, x), K, f) = Given(t, K, f) \o (IF Len(t) + 1 \in K THEN f[x] ELSE << >>)
  BY GivenAppend DEF Replaces

\* Chosen as they are.
LEMMA OnlyGiven ==
  ASSUME NEW T, NEW t \in Seq(T), NEW K
  PROVE  Only(t, K) = Given(t, K, [x \in T |-> << x >>])
<1>1. \A i \in DOMAIN t : t[i] \in T
  OBVIOUS
<1> QED
  BY <1>1 DEF Only, Given

\* To choose tokens and then replace them is to replace the tokens chosen.
LEMMA SpreadOnly ==
  ASSUME NEW T, NEW V, NEW f \in [T -> Seq(V)], NEW K
  PROVE  \A t \in Seq(T) : Spread(Only(t, K), f) = Given(t, K, f)
<1> DEFINE G == {t \in Seq(T) : Spread(Only(t, K), f) = Given(t, K, f)}
           id == [x \in T |-> << x >>]
<1>1. id \in [T -> Seq(T)] /\ \A x \in T : id[x] = << x >>
  <2> DEFINE S == Seq(T)
  <2>1. \A x \in T : << x >> \in S
    OBVIOUS
  <2> HIDE DEF S
  <2>2. id \in [T -> S]
    BY <2>1
  <2> QED
    BY <2>2 DEF S
<1>2. << >> \in G
  <2>1. Only(<< >>, K) = << >> /\ Given(<< >>, K, f) = << >>
    BY JoinedNothing DEF Only, Given
  <2> QED
    BY <2>1, SpreadNothing, EmptyText
<1>3. ASSUME NEW t \in Seq(T), NEW x \in T, t \in G PROVE Append(t, x) \in G
  <2> DEFINE a == Only(t, K)
             r == Append(t, x)
             b == IF Len(t) + 1 \in K THEN << x >> ELSE << >>
             y == IF Len(t) + 1 \in K THEN f[x] ELSE << >>
  <2>1. Only(r, K) = a \o b
    <3>1. r \in Seq(T)
      BY TokenAdded
    <3>2. Only(r, K) = Given(r, K, id) /\ a = Given(t, K, id)
      BY <3>1, OnlyGiven
    <3> HIDE DEF id, a
    <3>3. id \in [T -> Seq(T)]
      BY <1>1
    <3>4. Given(r, K, id) = Given(t, K, id) \o (IF Len(t) + 1 \in K THEN id[x] ELSE << >>)
      <4>1. Replaces(id, T, T)
        BY <3>3 DEF Replaces
      <4> QED
        BY <4>1, GivenBehind
    <3> QED
      BY <1>1, <3>2, <3>4
  <2>2. a \in Seq(T) /\ b \in Seq(T)
    <3>1. a \in Seq(T)
      BY OnlyTyped
    <3>2. << x >> \in Seq(T) /\ << >> \in Seq(T)
      OBVIOUS
    <3> QED
      BY <3>1, <3>2
  <2>3. Spread(b, f) = y
    <3>1. Spread(<< x >>, f) = f[x]
      BY SpreadOne
    <3> QED
      BY <3>1, SpreadNothing
  <2>4. Given(r, K, f) = Given(t, K, f) \o y
    BY GivenAppend
  <2>5. Spread(a, f) = Given(t, K, f)
    BY <1>3
  <2> HIDE DEF a, b, y
  <2>6. Spread(a \o b, f) = Spread(a, f) \o Spread(b, f)
    BY <2>2, SpreadBehind
  <2>7. r \in Seq(T)
    BY TokenAdded
  <2> QED
    BY <2>1, <2>3, <2>4, <2>5, <2>6, <2>7
<1> HIDE DEF G
<1>4. Seq(T) \subseteq G
  BY <1>2, <1>3, Joining!SequencesGrow
<1> QED
  BY <1>4 DEF G

\* What a template expands to: conditionals first, then the values.
LEMMA ExpandedIs ==
  ASSUME NEW vars, Valued(vars), NEW o \in Seq(DOMAIN vars), ToSet(o) = DOMAIN vars, NEW t \in Seq(Writable)
  PROVE  /\ ExpandTemplate(t, vars, o) = Spread(ProcessConditionals(t, vars), Fill(vars))
         /\ Flat(t) => ExpandTemplate(t, vars, o) =
                         Joined([i \in DOMAIN t |-> IF Stays(t, i, vars) THEN Fill(vars)[t[i]] ELSE << >>])
<1> DEFINE u == ProcessConditionals(t, vars)
<1>1. u \in Seq(Writable)
  BY ConditionalsTyped
<1>2. ExpandTemplate(t, vars, o) = Spread(u, Fill(vars))
  BY <1>1, ReplacedIs DEF ExpandTemplate
<1> HIDE DEF u
<1>3. ASSUME Flat(t)
      PROVE  Spread(u, Fill(vars)) = Joined([i \in DOMAIN t |-> IF Stays(t, i, vars) THEN Fill(vars)[t[i]] ELSE << >>])
  <2> DEFINE K == {i \in DOMAIN t : Stays(t, i, vars)}
             f == Fill(vars)
  <2>1. u = Only(t, K)
    BY <1>3, ConditionalsAre DEF KeptTokens, u
  <2>2. f \in [Writable -> Seq(Writable)]
    BY FillTyped
  <2>3. \A i \in DOMAIN t : i \in K <=> Stays(t, i, vars)
    OBVIOUS
  <2> HIDE DEF K, f
  <2>4. Spread(Only(t, K), f) = Given(t, K, f)
    BY <2>2, SpreadOnly
  <2>5. [i \in DOMAIN t |-> IF i \in K THEN f[t[i]] ELSE << >>] = [i \in DOMAIN t |-> IF Stays(t, i, vars) THEN f[t[i]] ELSE << >>]
    BY <2>3
  <2>6. Given(t, K, f) = Joined([i \in DOMAIN t |-> IF Stays(t, i, vars) THEN f[t[i]] ELSE << >>])
    BY <2>5 DEF Given
  <2> QED
    BY <2>1, <2>4, <2>6 DEF f
<1> QED
  BY <1>2, <1>3 DEF u

\* The tokens of the model are what a text may hold.
LEMMA TokensWritten == Token \subseteq Writable /\ Seq(Token) \subseteq Seq(Writable)
<1>1. Token \subseteq Writable
  BY DEF Token, Writable, Name
<1> HIDE DEF Token, Writable
<1> QED
  BY <1>1

\* The values of a template, in any order of their names.
LEMMA OrdersEnumerate ==
  ASSUME NEW v \in PrValue, NEW o \in Orders(v)
  PROVE  Valued(v) /\ o \in Seq(DOMAIN v) /\ ToSet(o) = DOMAIN v
<1>1. v \in [{"k", "j"} -> Seq(Token)]
  BY PrAssumption
<1>2. DOMAIN v = {"k", "j"} /\ Valued(v)
  <2> DEFINE S == Seq(Token)
             N == {"k", "j"}
  <2>1. N \subseteq Name
    BY DEF Name, Literal
  <2>2. v \in [N -> S]
    BY <1>1
  <2> HIDE DEF N, S
  <2>3. DOMAIN v = N /\ \A k \in N : v[k] \in S
    BY <2>2
  <2>4. S \subseteq Seq(Writable)
    BY TokensWritten DEF S
  <2> DEFINE R == Seq(Writable)
  <2> HIDE DEF R
  <2>5. v \in [DOMAIN v -> R]
    <3>1. \A k \in N : v[k] \in R
      BY <2>3, <2>4 DEF R
    <3> QED
      BY <2>2, <2>3, <3>1
  <2> QED
    BY <2>1, <2>3, <2>5 DEF Valued, N, R
<1>3. Cardinality(DOMAIN v) = 2
  <2>1. IsFiniteSet({"k"}) /\ Cardinality({"k"}) = 1
    BY FS_Singleton
  <2>2. {"k", "j"} = {"k"} \union {"j"} /\ "j" \notin {"k"}
    OBVIOUS
  <2>3. Cardinality({"k"} \union {"j"}) = Cardinality({"k"}) + 1
    BY <2>1, <2>2, FS_AddElement
  <2> QED
    BY <1>2, <2>1, <2>2, <2>3
<1>4. o \in [1 .. 2 -> {"k", "j"}] /\ \A i, j \in 1 .. 2 : o[i] = o[j] => i = j
  BY <1>2, <1>3 DEF Orders
<1>5. o \in Seq({"k", "j"}) /\ DOMAIN o = {1, 2}
  <2> DEFINE N == {"k", "j"}
  <2>1. 1 .. 2 = {1, 2}
    OBVIOUS
  <2>2. o \in [1 .. 2 -> N] /\ 2 \in Nat
    BY <1>4
  <2> HIDE DEF N
  <2>3. o \in Seq(N) /\ DOMAIN o = 1 .. 2
    <3>1. o = [i \in 1 .. 2 |-> o[i]] /\ \A i \in 1 .. 2 : o[i] \in N
      BY <2>2
    <3> QED
      BY <2>2, <3>1
  <2> QED
    BY <2>1, <2>3 DEF N
<1>6. o[1] \in {"k", "j"} /\ o[2] \in {"k", "j"} /\ o[1] # o[2]
  BY <1>4
<1>7. ToSet(o) = {o[1], o[2]}
  BY <1>5 DEF ToSet
<1> QED
  BY <1>2, <1>5, <1>6, <1>7

\* The variables have an order.
LEMMA SomeOrder ==
  ASSUME NEW v \in PrValue
  PROVE  Orders(v) # {}
<1>1. DOMAIN v = {"k", "j"}
  BY PrAssumption
<1>2. Cardinality(DOMAIN v) = 2
  <2>1. IsFiniteSet({"k"}) /\ Cardinality({"k"}) = 1
    BY FS_Singleton
  <2>2. {"k", "j"} = {"k"} \union {"j"} /\ "j" \notin {"k"}
    OBVIOUS
  <2>3. Cardinality({"k"} \union {"j"}) = Cardinality({"k"}) + 1
    BY <2>1, <2>2, FS_AddElement
  <2> QED
    BY <1>1, <2>1, <2>2, <2>3
<1> DEFINE o == [i \in 1 .. 2 |-> IF i = 1 THEN "k" ELSE "j"]
<1>3. o \in [1 .. 2 -> {"k", "j"}] /\ DOMAIN o = 1 .. 2 /\ \A i, j \in 1 .. 2 : o[i] = o[j] => i = j
  <2>1. 1 .. 2 = {1, 2}
    OBVIOUS
  <2> QED
    BY <2>1
<1> HIDE DEF o
<1>4. o \in Orders(v)
  BY <1>1, <1>2, <1>3 DEF Orders
<1> QED
  BY <1>4

\* What a template becomes is what its tokens become.
LEMMA FillIs ==
  ASSUME NEW v, Valued(v), NEW x \in Writable
  PROVE  Fill(v)[x] = IF x.kind = "var" /\ x.name \in DOMAIN v THEN v[x.name] ELSE << x >>
<1>1. (\E k \in DOMAIN v : x = Var(k)) <=> (x.kind = "var" /\ x.name \in DOMAIN v)
  <2>1. ASSUME NEW k \in DOMAIN v, x = Var(k) PROVE x.kind = "var" /\ x.name \in DOMAIN v
    BY <2>1 DEF Var
  <2>2. ASSUME x.kind = "var", x.name \in DOMAIN v PROVE x = Var(x.name)
    BY <2>2 DEF Var, Writable
  <2> QED
    BY <2>1, <2>2
<1> QED
  BY <1>1 DEF Fill

\* Whatever the order of the variables, the expansion is the same.
LEMMA AllOrdersAgree ==
  ASSUME NEW t \in Seq(Writable), NEW v \in PrValue
  PROVE  LET rs == {ExpandTemplate(t, v, o) : o \in Orders(v)}
         IN  /\ rs = {Spread(ProcessConditionals(t, v), Fill(v))}
             /\ Flat(t) => rs = {Joined([i \in DOMAIN t |->
                  IF ~Stays(t, i, v) THEN << >>
                  ELSE IF t[i].kind = "var" /\ t[i].name \in DOMAIN v THEN v[t[i].name] ELSE << t[i] >>])}
<1> DEFINE rs == {ExpandTemplate(t, v, o) : o \in Orders(v)}
           r == Spread(ProcessConditionals(t, v), Fill(v))
           p == [i \in DOMAIN t |-> IF Stays(t, i, v) THEN Fill(v)[t[i]] ELSE << >>]
           q == [i \in DOMAIN t |->
                  IF ~Stays(t, i, v) THEN << >>
                  ELSE IF t[i].kind = "var" /\ t[i].name \in DOMAIN v THEN v[t[i].name] ELSE << t[i] >>]
<1>1. PICK u \in Orders(v) : TRUE
  BY SomeOrder
<1>2. Valued(v)
  BY <1>1, OrdersEnumerate
<1>3. ASSUME NEW o \in Orders(v) PROVE ExpandTemplate(t, v, o) = r /\ (Flat(t) => ExpandTemplate(t, v, o) = Joined(p))
  <2>1. o \in Seq(DOMAIN v) /\ ToSet(o) = DOMAIN v
    BY OrdersEnumerate
  <2> QED
    BY <1>2, <2>1, ExpandedIs
<1>4. p = q
  <2>1. \A i \in DOMAIN t : t[i] \in Writable
    OBVIOUS
  <2>2. \A i \in DOMAIN t : Fill(v)[t[i]] = IF t[i].kind = "var" /\ t[i].name \in DOMAIN v THEN v[t[i].name] ELSE << t[i] >>
    BY <1>2, <2>1, FillIs
  <2> QED
    BY <2>2
<1> HIDE DEF r, p
<1>5. rs = {r}
  BY <1>1, <1>3
<1>6. Flat(t) => rs = {Joined(p)}
  BY <1>1, <1>3
<1> QED
  BY <1>4, <1>5, <1>6 DEF r

\* The parts of a joined text.
LEMMA JoinedHas ==
  ASSUME NEW V
  PROVE  \A ps \in Seq(Seq(V)) : \A x : x \in ToSet(Joined(ps)) <=> \E i \in 1 .. Len(ps) : x \in ToSet(ps[i])
<1> DEFINE S == Seq(V)
           P(ps) == \A x : x \in ToSet(Joined(ps)) <=> \E i \in 1 .. Len(ps) : x \in ToSet(ps[i])
           G == {ps \in Seq(S) : P(ps)}
<1>1. << >> \in G
  <2>1. << >> \in Seq(S) /\ Len(<< >>) = 0
    BY EmptyText
  <2>2. ToSet(Joined(<< >>)) = {}
    BY JoinedNothing DEF ToSet
  <2> QED
    BY <2>1, <2>2
<1>2. ASSUME NEW ps \in Seq(S), NEW p \in S, ps \in G PROVE Append(ps, p) \in G
  <2> DEFINE r == Append(ps, p)
             a == Joined(ps)
             c == a \o p
  <2>1. Joined(r) = c /\ a \in Seq(V) /\ p \in Seq(V)
    BY JoinedAppend, JoinedTyped
  <2>2. ToSet(c) = ToSet(a) \union ToSet(p)
    <3> HIDE DEF a
    <3>1. /\ Len(a) \in Nat /\ Len(p) \in Nat
          /\ DOMAIN a = 1 .. Len(a) /\ DOMAIN p = 1 .. Len(p) /\ DOMAIN c = 1 .. Len(a) + Len(p)
          /\ \A i \in 1 .. Len(a) : c[i] = a[i]
          /\ \A i \in 1 .. Len(p) : c[Len(a) + i] = p[i]
      BY <2>1, TextsBehind
    <3> HIDE DEF c
    <3>2. ASSUME NEW x \in ToSet(c) PROVE x \in ToSet(a) \union ToSet(p)
      <4>1. PICK i \in 1 .. Len(a) + Len(p) : x = c[i]
        BY <3>1 DEF ToSet
      <4>2. CASE i \in 1 .. Len(a)
        BY <3>1, <4>1, <4>2 DEF ToSet
      <4>3. CASE i \notin 1 .. Len(a)
        <5>1. i - Len(a) \in 1 .. Len(p) /\ Len(a) + (i - Len(a)) = i
          BY <3>1, <4>3
        <5>2. x = p[i - Len(a)]
          BY <3>1, <4>1, <5>1
        <5> QED
          BY <3>1, <5>1, <5>2 DEF ToSet
      <4> QED
        BY <4>2, <4>3
    <3>3. ASSUME NEW x \in ToSet(a) PROVE x \in ToSet(c)
      <4>1. PICK i \in 1 .. Len(a) : x = a[i]
        BY <3>1, <3>3 DEF ToSet
      <4>2. i \in 1 .. Len(a) + Len(p)
        BY <3>1
      <4> QED
        BY <3>1, <4>1, <4>2 DEF ToSet
    <3>4. ASSUME NEW x \in ToSet(p) PROVE x \in ToSet(c)
      <4>1. PICK i \in 1 .. Len(p) : x = p[i]
        BY <3>1, <3>4 DEF ToSet
      <4>2. Len(a) + i \in 1 .. Len(a) + Len(p)
        BY <3>1
      <4> QED
        BY <3>1, <4>1, <4>2 DEF ToSet
    <3> QED
      BY <3>2, <3>3, <3>4
  <2>3. P(ps)
    BY <1>2
  <2> HIDE DEF S
  <2>4. /\ r \in Seq(S) /\ Len(ps) \in Nat /\ Len(r) = Len(ps) + 1 /\ r[Len(ps) + 1] = p
        /\ \A i \in 1 .. Len(ps) : r[i] = ps[i]
    BY TokenAdded
  <2> HIDE DEF r, c, a
  <2>5. ASSUME NEW x PROVE x \in ToSet(Joined(r)) <=> \E i \in 1 .. Len(r) : x \in ToSet(r[i])
    <3>1. x \in ToSet(Joined(r)) <=> (x \in ToSet(a) \/ x \in ToSet(p))
      BY <2>1, <2>2
    <3>2. x \in ToSet(a) <=> \E i \in 1 .. Len(ps) : x \in ToSet(ps[i])
      BY <2>3 DEF a
    <3>3. \A i \in 1 .. Len(ps) : i \in 1 .. Len(r)
      BY <2>4
    <3>4. Len(ps) + 1 \in 1 .. Len(r)
      BY <2>4
    <3>5. \A i \in 1 .. Len(r) : i \in 1 .. Len(ps) \/ i = Len(ps) + 1
      BY <2>4
    <3> QED
      BY <2>4, <3>1, <3>2, <3>3, <3>4, <3>5
  <2> QED
    BY <2>4, <2>5 DEF r
<1> HIDE DEF G, P, S
<1>3. Seq(S) \subseteq G
  BY <1>1, <1>2, Joining!SequencesGrow
<1> QED
  BY <1>3 DEF G, P, S

\* A text stands somewhere in another.
Within(j, y, V) == \E a, b \in Seq(V) : j = (a \o y) \o b

\* Behind a longer text it still does.
LEMMA StillWithin ==
  ASSUME NEW V, NEW y \in Seq(V), NEW p \in Seq(V), NEW j, Within(j, y, V)
  PROVE  Within(j \o p, y, V)
<1>1. ASSUME NEW a, NEW b, a \in Seq(V), b \in Seq(V), j = (a \o y) \o b
      PROVE  \E c, d \in Seq(V) : j \o p = (c \o y) \o d
  <2> DEFINE z == a \o y
             w == b \o p
  <2>1. z \in Seq(V) /\ w \in Seq(V) /\ b \in Seq(V) /\ j = z \o b
    BY <1>1
  <2> HIDE DEF z
  <2>2. (z \o b) \o p = z \o w
    BY <2>1, BehindThree
  <2>3. j \o p = (a \o y) \o w
    BY <2>1, <2>2 DEF z
  <2> QED
    BY <1>1, <2>1, <2>3
<1> QED
  BY <1>1, Zenon DEF Within

\* Each part stands in what the parts are joined to.
LEMMA JoinedWhere ==
  ASSUME NEW V
  PROVE  \A ps \in Seq(Seq(V)) : \A i \in 1 .. Len(ps) : Within(Joined(ps), ps[i], V)
<1> DEFINE S == Seq(V)
           P(ps) == \A i \in 1 .. Len(ps) : Within(Joined(ps), ps[i], V)
           G == {ps \in Seq(S) : P(ps)}
<1>1. << >> \in G
  <2>1. << >> \in Seq(S) /\ Len(<< >>) = 0
    BY EmptyText
  <2> QED
    BY <2>1
<1>2. ASSUME NEW ps \in Seq(S), NEW p \in S, ps \in G PROVE Append(ps, p) \in G
  <2> DEFINE r == Append(ps, p)
  <2>1. Joined(r) = Joined(ps) \o p /\ Joined(ps) \in Seq(V) /\ p \in Seq(V) /\ << >> \in Seq(V)
    BY JoinedAppend, JoinedTyped, EmptyText
  <2>2. P(ps)
    BY <1>2
  <2>3. /\ r \in Seq(S) /\ Len(ps) \in Nat /\ Len(r) = Len(ps) + 1 /\ r[Len(ps) + 1] = p
        /\ \A i \in 1 .. Len(ps) : r[i] = ps[i] /\ ps[i] \in S
    <3> HIDE DEF S
    <3> QED
      BY TokenAdded
  <2> HIDE DEF r
  <2>4. ASSUME NEW i \in 1 .. Len(r) PROVE Within(Joined(r), r[i], V)
    <3>1. CASE i = Len(ps) + 1
      <4>1. (Joined(ps) \o p) \o << >> = Joined(ps) \o p
        <5>1. Joined(ps) \o p \in Seq(V)
          BY <2>1
        <5> QED
          BY <5>1, BehindNothing
      <4>2. Joined(r) = (Joined(ps) \o r[i]) \o << >>
        BY <2>1, <2>3, <3>1, <4>1
      <4> QED
        BY <2>1, <4>2 DEF Within
    <3>2. CASE i # Len(ps) + 1
      <4>1. i \in 1 .. Len(ps)
        BY <2>3, <3>2
      <4>2. Within(Joined(ps), ps[i], V)
        BY <2>2, <4>1
      <4>3. r[i] = ps[i] /\ ps[i] \in Seq(V) /\ p \in Seq(V)
        BY <2>1, <2>3, <4>1
      <4>4. Within(Joined(ps) \o p, ps[i], V)
        BY <4>2, <4>3, StillWithin
      <4> QED
        BY <2>1, <4>3, <4>4
    <3> QED
      BY <3>1, <3>2
  <2> QED
    BY <2>3, <2>4 DEF r
<1> HIDE DEF G, P, S
<1>3. Seq(S) \subseteq G
  BY <1>1, <1>2, Joining!SequencesGrow
<1> QED
  BY <1>3 DEF G, P, S

\* The names of the variables of an expedition, in any of the orders.
LEMMA NamesAre ==
  /\ Len(Names) = 9 /\ Names \in Seq(ToSet(Names))
  /\ ToSet(Names) = {"lumina_section", "gradient_section", "scope_section", "environment_section", "context_section",
                     "inbox_section", "mission_section", "is_wave_mode", "has_event_sourced_contract"}
<1>1. Len(Names) = 9 /\ DOMAIN Names = 1 .. 9
  BY DEF Names
<1>2. 1 .. 9 = {1, 2, 3, 4, 5, 6, 7, 8, 9}
  OBVIOUS
<1>3. /\ Names[1] = "lumina_section" /\ Names[2] = "gradient_section" /\ Names[3] = "scope_section"
      /\ Names[4] = "environment_section" /\ Names[5] = "context_section" /\ Names[6] = "inbox_section"
      /\ Names[7] = "mission_section" /\ Names[8] = "is_wave_mode" /\ Names[9] = "has_event_sourced_contract"
  BY DEF Names
<1>4. ToSet(Names) = {Names[i] : i \in {1, 2, 3, 4, 5, 6, 7, 8, 9}}
  BY <1>1, <1>2 DEF ToSet
<1>5. ToSet(Names) = {"lumina_section", "gradient_section", "scope_section", "environment_section", "context_section",
                     "inbox_section", "mission_section", "is_wave_mode", "has_event_sourced_contract"}
  BY <1>3, <1>4
<1>6. Names \in Seq(ToSet(Names))
  <2> DEFINE N == ToSet(Names)
  <2>1. \A i \in 1 .. 9 : Names[i] \in N
    BY <1>1 DEF ToSet
  <2>2. Names = [i \in 1 .. 9 |-> Names[i]]
    BY <1>1 DEF Names
  <2> HIDE DEF N
  <2> QED
    BY <2>1, <2>2 DEF N
<1> QED
  BY <1>1, <1>5, <1>6

\* Nine names from the last to the first, or from the fifth on, are the same names.
LEMMA OtherOrders ==
  ASSUME NEW V, NEW s \in Seq(V), Len(s) = 9
  PROVE  /\ Reverse(s) \in Seq(V) /\ ToSet(Reverse(s)) = ToSet(s)
         /\ SubSeq(s, 5, 9) \o SubSeq(s, 1, 4) \in Seq(V) /\ ToSet(SubSeq(s, 5, 9) \o SubSeq(s, 1, 4)) = ToSet(s)
<1>1. \A i \in 1 .. 9 : s[i] \in V
  <2>1. \A i \in 1 .. Len(s) : s[i] \in V
    BY ONLY s \in Seq(V)
  <2> QED
    BY ONLY <2>1, Len(s) = 9
<1>2. DOMAIN s = 1 .. 9 /\ ToSet(s) = {s[i] : i \in 1 .. 9}
  BY DEF ToSet
<1>3. Reverse(s) \in Seq(V) /\ ToSet(Reverse(s)) = ToSet(s)
  <2> DEFINE r == [i \in 1 .. 9 |-> s[(9 - i) + 1]]
  <2>1. Reverse(s) = r
    BY DEF Reverse
  <2>2. \A i \in 1 .. 9 : (9 - i) + 1 \in 1 .. 9 /\ (9 - ((9 - i) + 1)) + 1 = i
    OBVIOUS
  <2>3. r \in Seq(V) /\ DOMAIN r = 1 .. 9 /\ \A i \in 1 .. 9 : r[i] = s[(9 - i) + 1]
    <3>1. ASSUME NEW i \in 1 .. 9 PROVE s[(9 - i) + 1] \in V
      <4>1. PICK m \in 1 .. 9 : m = (9 - i) + 1
        BY <2>2
      <4>2. s[m] \in V
        BY <1>1
      <4> QED
        BY <4>1, <4>2
    <3>2. DOMAIN r = 1 .. 9 /\ (\A i \in 1 .. 9 : r[i] = s[(9 - i) + 1]) /\ r = [i \in 1 .. 9 |-> r[i]]
      OBVIOUS
    <3> HIDE DEF r
    <3>3. \A i \in 1 .. 9 : r[i] \in V
      BY <3>1, <3>2
    <3>4. r \in Seq(V)
      BY <3>2, <3>3
    <3> QED
      BY <3>2, <3>4
  <2> HIDE DEF r
  <2>4. ToSet(r) = {r[i] : i \in 1 .. 9}
    BY <2>3 DEF ToSet
  <2>5. ASSUME NEW i \in 1 .. 9 PROVE r[i] \in {s[j] : j \in 1 .. 9} /\ s[i] \in {r[j] : j \in 1 .. 9}
    <3>1. (9 - i) + 1 \in 1 .. 9 /\ r[(9 - i) + 1] = s[i] /\ r[i] = s[(9 - i) + 1]
      BY <2>3, <2>2
    <3> QED
      BY <3>1
  <2> QED
    BY <1>2, <2>1, <2>3, <2>4, <2>5
<1>4. SubSeq(s, 5, 9) \o SubSeq(s, 1, 4) \in Seq(V) /\ ToSet(SubSeq(s, 5, 9) \o SubSeq(s, 1, 4)) = ToSet(s)
  <2> DEFINE a == SubSeq(s, 5, 9)
             b == SubSeq(s, 1, 4)
             r == a \o b
  <2>1. a \in Seq(V) /\ Len(a) = 5 /\ \A i \in 1 .. 5 : a[i] = s[5 + i - 1]
    <3>1. 5 \in 1 .. Len(s) + 1 /\ 9 \in 0 .. Len(s) /\ 5 <= 9 + 1 /\ 9 + 1 - 5 = 5
      OBVIOUS
    <3>2. a \in Seq(V) /\ Len(a) = 9 + 1 - 5 /\ \A i \in 1 .. 9 + 1 - 5 : a[i] = s[5 + i - 1]
      BY ONLY <3>1, WithinText, s \in Seq(V)
    <3> QED
      BY <3>1, <3>2
  <2>2. b \in Seq(V) /\ Len(b) = 4 /\ \A i \in 1 .. 4 : b[i] = s[1 + i - 1]
    <3>1. 1 \in 1 .. Len(s) + 1 /\ 4 \in 0 .. Len(s) /\ 1 <= 4 + 1 /\ 4 + 1 - 1 = 4
      OBVIOUS
    <3>2. b \in Seq(V) /\ Len(b) = 4 + 1 - 1 /\ \A i \in 1 .. 4 + 1 - 1 : b[i] = s[1 + i - 1]
      BY ONLY <3>1, WithinText, s \in Seq(V)
    <3> QED
      BY <3>1, <3>2
  <2> HIDE DEF a, b
  <2>3. r \in Seq(V) /\ DOMAIN r = 1 .. 9 /\ (\A i \in 1 .. 5 : r[i] = a[i]) /\ \A i \in 1 .. 4 : r[5 + i] = b[i]
    <3>1. a \in Seq(V) /\ b \in Seq(V)
      BY <2>1, <2>2
    <3>2. /\ r \in Seq(V) /\ DOMAIN r = 1 .. Len(a) + Len(b)
          /\ \A i \in 1 .. Len(a) : r[i] = a[i]
          /\ \A i \in 1 .. Len(b) : r[Len(a) + i] = b[i]
      BY <3>1, TextsBehind
    <3> HIDE DEF r
    <3> QED
      BY <2>1, <2>2, <3>2
  <2> HIDE DEF r
  <2>4. ToSet(r) = {r[i] : i \in 1 .. 9}
    BY <2>3 DEF ToSet
  <2>5. ASSUME NEW i \in 1 .. 9 PROVE r[i] \in {s[j] : j \in 1 .. 9} /\ s[i] \in {r[j] : j \in 1 .. 9}
    <3>1. r[i] \in {s[j] : j \in 1 .. 9}
      <4>1. CASE i <= 5
        <5>1. i \in 1 .. 5 /\ 5 + i - 1 \in 1 .. 9
          BY <4>1
        <5>2. r[i] = s[5 + i - 1]
          BY <2>1, <2>3, <5>1
        <5> QED
          BY <5>1, <5>2
      <4>2. CASE ~ (i <= 5)
        <5>1. i - 5 \in 1 .. 4 /\ 5 + (i - 5) = i /\ 1 + (i - 5) - 1 \in 1 .. 9
          BY <4>2
        <5>2. r[i] = s[1 + (i - 5) - 1]
          BY <2>2, <2>3, <5>1
        <5> QED
          BY <5>1, <5>2
      <4> QED
        BY <4>1, <4>2
    <3>2. s[i] \in {r[j] : j \in 1 .. 9}
      <4>1. CASE i <= 4
        <5>1. i \in 1 .. 4 /\ 5 + i \in 1 .. 9 /\ 1 + i - 1 = i
          BY <4>1
        <5>2. r[5 + i] = s[i]
          BY <2>2, <2>3, <5>1
        <5> QED
          BY <5>1, <5>2
      <4>2. CASE ~ (i <= 4)
        <5>1. i - 4 \in 1 .. 5 /\ 5 + (i - 4) - 1 = i /\ i - 4 \in 1 .. 9
          BY <4>2
        <5>2. r[i - 4] = s[i]
          BY <2>1, <2>3, <5>1
        <5> QED
          BY <5>1, <5>2
      <4> QED
        BY <4>1, <4>2
    <3> QED
      BY <3>1, <3>2
  <2>6. ToSet(r) = ToSet(s)
    BY <1>2, <2>4, <2>5
  <2> QED
    BY <2>3, <2>6 DEF r, a, b
<1> QED
  BY <1>3, <1>4

\* The orders of the model hold every variable.
LEMMA SomeOrdersEnumerate ==
  ASSUME NEW o \in SomeOrders
  PROVE  o \in Seq(ToSet(Names)) /\ ToSet(o) = ToSet(Names)
<1>1. Reverse(Names) \in Seq(ToSet(Names)) /\ ToSet(Reverse(Names)) = ToSet(Names)
  BY NamesAre, OtherOrders
<1>2. SubSeq(Names, 5, 9) \o SubSeq(Names, 1, 4) \in Seq(ToSet(Names)) /\ ToSet(SubSeq(Names, 5, 9) \o SubSeq(Names, 1, 4)) = ToSet(Names)
  BY NamesAre, OtherOrders
<1>3. o = Names \/ o = Reverse(Names) \/ o = SubSeq(Names, 5, 9) \o SubSeq(Names, 1, 4)
  BY DEF SomeOrders
<1> QED
  BY <1>1, <1>2, <1>3, NamesAre

\* The data of an expedition are texts.
LEMMA DataTyped ==
  ASSUME NEW d \in PrData
  PROVE  /\ d.lumina \in Seq(Writable) /\ d.context \in Seq(Writable) /\ d.inbox \in Seq(Writable) /\ d.team \in Name
         /\ d.wave \in BOOLEAN /\ d.contract \in BOOLEAN
         /\ ({Word(d.team)} \union ToSet(d.lumina) \union ToSet(d.context) \union ToSet(d.inbox)) \intersect OfTemplates = {}
<1>1. d \in [wave : BOOLEAN, team : STRING, contract : BOOLEAN, lumina : Seq(Token), context : Seq(Token), inbox : Seq(Token)]
  BY PrAssumption
<1>2. ({Word(d.team)} \union ToSet(d.lumina) \union ToSet(d.context) \union ToSet(d.inbox)) \intersect OfTemplates = {}
  BY PrAssumption
<1> DEFINE S == Seq(Token)
<1> HIDE DEF S
<1>3. d \in [wave : BOOLEAN, team : STRING, contract : BOOLEAN, lumina : S, context : S, inbox : S]
  BY <1>1 DEF S
<1>4. d.lumina \in S /\ d.context \in S /\ d.inbox \in S /\ d.team \in STRING /\ d.wave \in BOOLEAN /\ d.contract \in BOOLEAN
  BY <1>3
<1>5. S \subseteq Seq(Writable)
  BY TokensWritten DEF S
<1> QED
  BY <1>2, <1>4, <1>5 DEF Name

\* Words and placeholders may stand in a text.
LEMMA WordsWritten ==
  ASSUME NEW n \in Name
  PROVE  /\ Word(n) \in Writable /\ Var(n) \in Writable /\ << Word(n) >> \in Seq(Writable)
         /\ \A u \in Seq(Writable) : << Word(n) >> \o u \in Seq(Writable)
<1>1. Word(n) \in Writable /\ Var(n) \in Writable
  BY DEF Word, Var, Writable
<1>2. << Word(n) >> \in Seq(Writable)
  <2> HIDE DEF Writable
  <2> QED
    BY <1>1
<1> QED
  BY <1>1, <1>2, TextsBehind

\* The template of an expedition, token by token.
LEMMA TemplateIs ==
  /\ ExpeditionTemplate \in Seq(Writable) /\ Len(ExpeditionTemplate) = 10 /\ DOMAIN ExpeditionTemplate = 1 .. 10
  /\ ExpeditionTemplate[1] = Var("lumina_section") /\ ExpeditionTemplate[2] = Var("gradient_section")
  /\ ExpeditionTemplate[3] = Var("scope_section") /\ ExpeditionTemplate[4] = Var("environment_section")
  /\ ExpeditionTemplate[5] = Var("context_section") /\ ExpeditionTemplate[6] = Var("inbox_section")
  /\ ExpeditionTemplate[7] = [kind |-> "if", name |-> "has_event_sourced_contract"]
  /\ ExpeditionTemplate[8] = Word("glossary") /\ ExpeditionTemplate[9] = [kind |-> "end", name |-> ""]
  /\ ExpeditionTemplate[10] = Var("mission_section")
<1> DEFINE t == ExpeditionTemplate
<1>1. Len(t) = 10 /\ DOMAIN t = 1 .. 10
  BY DEF ExpeditionTemplate
<1>2. /\ t[1] = Var("lumina_section") /\ t[2] = Var("gradient_section")
      /\ t[3] = Var("scope_section") /\ t[4] = Var("environment_section")
      /\ t[5] = Var("context_section") /\ t[6] = Var("inbox_section")
      /\ t[7] = [kind |-> "if", name |-> "has_event_sourced_contract"]
      /\ t[8] = Word("glossary") /\ t[9] = [kind |-> "end", name |-> ""]
      /\ t[10] = Var("mission_section")
  BY DEF ExpeditionTemplate
<1>3. ToSet(Names) \subseteq Name /\ "" \in Name /\ "glossary" \in Name
  BY DEF Name, Literal
<1>4. \A n \in Name : Var(n) \in Writable /\ Word(n) \in Writable
  BY WordsWritten
<1>5. /\ t[1] \in Writable /\ t[2] \in Writable /\ t[3] \in Writable /\ t[4] \in Writable /\ t[5] \in Writable
      /\ t[6] \in Writable /\ t[8] \in Writable /\ t[10] \in Writable
  <2> HIDE DEF t, Name, Writable, Var, Word
  <2> QED
    BY <1>2, <1>3, <1>4, NamesAre
<1>6. t[7] \in Writable /\ t[9] \in Writable
  <2>1. "has_event_sourced_contract" \in Name
    <3> HIDE DEF Name
    <3> QED
      BY <1>3, NamesAre
  <2>2. t[7] = [kind |-> "if", name |-> "has_event_sourced_contract"] /\ t[9] = [kind |-> "end", name |-> ""]
    BY <1>2
  <2> HIDE DEF t, Name
  <2>3. \A n \in Name : [kind |-> "if", name |-> n] \in Writable /\ [kind |-> "end", name |-> n] \in Writable
    BY DEF Writable
  <2> QED
    BY <1>3, <2>1, <2>2, <2>3
<1>7. t \in Seq(Writable)
  <2>1. t = [i \in 1 .. 10 |-> t[i]]
    BY DEF ExpeditionTemplate
  <2> HIDE DEF t, Writable
  <2>2. \A i \in 1 .. 10 : t[i] \in Writable
    <3>1. \A i \in 1 .. 10 : i = 1 \/ i = 2 \/ i = 3 \/ i = 4 \/ i = 5 \/ i = 6 \/ i = 7 \/ i = 8 \/ i = 9 \/ i = 10
      OBVIOUS
    <3> QED
      BY <1>5, <1>6, <3>1
  <2> QED
    BY <2>1, <2>2
<1> QED
  BY <1>1, <1>2, <1>7

\* Its one conditional, from the seventh token to the ninth.
LEMMA TemplateKinds ==
  \A i \in 1 .. 10 :
    /\ ExpeditionTemplate[i].kind = "if" <=> i = 7
    /\ ExpeditionTemplate[i].kind = "end" <=> i = 9
    /\ ExpeditionTemplate[i].kind # "else"
    /\ ExpeditionTemplate[i].kind \in {"text", "var"} <=> i \notin {7, 9}
<1>1. \A i \in 1 .. 10 : i = 1 \/ i = 2 \/ i = 3 \/ i = 4 \/ i = 5 \/ i = 6 \/ i = 7 \/ i = 8 \/ i = 9 \/ i = 10
  OBVIOUS
<1> DEFINE k == [i \in 1 .. 10 |-> ExpeditionTemplate[i].kind]
<1>2. \A i \in 1 .. 10 : k[i] = ExpeditionTemplate[i].kind
  OBVIOUS
<1>3. /\ k[1] = "var" /\ k[2] = "var" /\ k[3] = "var" /\ k[4] = "var" /\ k[5] = "var" /\ k[6] = "var"
      /\ k[7] = "if" /\ k[8] = "text" /\ k[9] = "end" /\ k[10] = "var"
  <2> HIDE DEF k
  <2> DEFINE t == ExpeditionTemplate
  <2>1. /\ t[1].kind = "var" /\ t[2].kind = "var" /\ t[3].kind = "var" /\ t[4].kind = "var"
        /\ t[5].kind = "var" /\ t[6].kind = "var" /\ t[8].kind = "text" /\ t[10].kind = "var"
    <3>1. \A n : Var(n).kind = "var" /\ Word(n).kind = "text"
      BY DEF Var, Word
    <3> QED
      BY <3>1, TemplateIs
  <2>2. t[7].kind = "if" /\ t[9].kind = "end"
    <3>1. \A n : [kind |-> "if", name |-> n].kind = "if" /\ [kind |-> "end", name |-> n].kind = "end"
      OBVIOUS
    <3>2. t[7] = [kind |-> "if", name |-> "has_event_sourced_contract"] /\ t[9] = [kind |-> "end", name |-> ""]
      BY TemplateIs
    <3> HIDE DEF t
    <3> QED
      BY <3>2, <3>1
  <2> QED
    BY <1>2, <2>1, <2>2
<1> HIDE DEF k
<1>4. \A i \in 1 .. 10 :
        /\ k[i] = "if" <=> i = 7
        /\ k[i] = "end" <=> i = 9
        /\ k[i] # "else"
        /\ k[i] \in {"text", "var"} <=> i \notin {7, 9}
  BY <1>1, <1>3
<1> QED
  BY <1>2, <1>4

\* So the template is flat.
LEMMA TemplateFlat == Flat(ExpeditionTemplate)
<1> DEFINE t == ExpeditionTemplate
<1>1. DOMAIN t = 1 .. 10 /\ Len(t) = 10
  BY TemplateIs
<1>2. \A i \in 1 .. 10 :
        (t[i].kind = "if" <=> i = 7) /\ (t[i].kind = "end" <=> i = 9) /\ t[i].kind # "else"
  BY TemplateKinds
<1> HIDE DEF t
<1>3. ASSUME NEW i \in DOMAIN t, t[i].kind = "if"
      PROVE  \E j \in i + 1 .. Len(t) : t[j].kind = "end" /\ \A k \in i + 1 .. j - 1 : t[k].kind \notin {"if", "end"}
  <2>1. i = 7 /\ 9 \in i + 1 .. Len(t) /\ t[9].kind = "end"
    BY <1>1, <1>2, <1>3
  <2>2. \A k \in i + 1 .. 9 - 1 : t[k].kind \notin {"if", "end"}
    BY <1>2, <2>1
  <2> QED
    BY <2>1, <2>2
<1>4. ASSUME NEW i \in DOMAIN t, t[i].kind \in {"else", "end"}
      PROVE  \E j \in 1 .. i - 1 :
                t[j].kind = "if" /\ \A k \in j + 1 .. i - 1 : t[k].kind # "end" /\ (t[i].kind = "else" => t[k].kind # "else")
  <2>1. i = 9 /\ 7 \in 1 .. i - 1 /\ t[7].kind = "if"
    BY <1>1, <1>2, <1>4
  <2>2. \A k \in 7 + 1 .. i - 1 : t[k].kind # "end" /\ t[k].kind # "else"
    BY <1>2, <2>1
  <2> QED
    BY <2>1, <2>2
<1> QED
  BY <1>3, <1>4 DEF Flat, t

\* Of the template the glossary stays where its condition says so.
LEMMA TemplateStays ==
  ASSUME NEW vars
  PROVE  \A i \in 1 .. 10 : Stays(ExpeditionTemplate, i, vars) <=>
            (i \notin {7, 9} /\ (i = 8 => Truthy("has_event_sourced_contract", vars)))
<1> DEFINE t == ExpeditionTemplate
           T == Truthy("has_event_sourced_contract", vars)
<1>1. \A i \in 1 .. 10 :
        /\ t[i].kind = "if" <=> i = 7
        /\ t[i].kind = "end" <=> i = 9
        /\ t[i].kind # "else"
        /\ t[i].kind \in {"text", "var"} <=> i \notin {7, 9}
  BY TemplateKinds
<1>2. Truthy(t[7].name, vars) <=> T
  <2>1. t[7].name = "has_event_sourced_contract"
    <3>1. t[7] = [kind |-> "if", name |-> "has_event_sourced_contract"]
      BY TemplateIs
    <3> HIDE DEF t
    <3> QED
      BY <3>1
  <2> QED
    BY <2>1
<1>3. T \in BOOLEAN /\ Truthy(t[7].name, vars) \in BOOLEAN
  BY DEF Truthy
<1> HIDE DEF t, T
<1>4. ASSUME NEW i \in 1 .. 10
      PROVE  Stays(t, i, vars) <=> (i \notin {7, 9} /\ (i = 8 => T))
  <2> DEFINE opened == {j \in 1 .. i : t[j].kind = "if" /\ \A k \in j .. i : t[k].kind # "end"}
  <2>1. Stays(t, i, vars) <=> (t[i].kind \in {"text", "var"} /\
            \A j \in opened : Truthy(t[j].name, vars) <=> \A k \in j .. i : t[k].kind # "else")
    BY DEF Stays
  <2>2. opened = IF i \in {7, 8} THEN {7} ELSE {}
    <3>1. ASSUME NEW j \in opened PROVE j = 7 /\ i \in {7, 8}
      <4>1. j \in 1 .. i /\ j \in 1 .. 10 /\ t[j].kind = "if"
        OBVIOUS
      <4>2. j = 7
        BY <1>1, <4>1
      <4>3. i < 9
        <5>1. CASE 9 <= i
          <6>1. 9 \in 7 .. i /\ t[9].kind = "end"
            BY <1>1, <5>1
          <6> QED
            BY <4>2, <6>1
        <5> QED
          BY <5>1
      <4> QED
        BY <4>1, <4>2, <4>3
    <3>2. ASSUME i \in {7, 8} PROVE 7 \in opened
      <4>1. 7 \in 1 .. i /\ t[7].kind = "if"
        BY <1>1, <3>2
      <4>2. \A k \in 7 .. i : k \in 1 .. 10 /\ k # 9
        BY <3>2
      <4> QED
        BY <1>1, <4>1, <4>2
    <3> HIDE DEF opened
    <3> QED
      BY <3>1, <3>2
  <2> HIDE DEF opened
  <2>3. i \in {7, 8} => \A k \in 7 .. i : t[k].kind # "else"
    BY <1>1
  <2>4. CASE i \notin {7, 8}
    BY <1>1, <2>1, <2>2, <2>4
  <2>5. CASE i \in {7, 8}
    <3>1. (\A j \in opened : Truthy(t[j].name, vars) <=> \A k \in j .. i : t[k].kind # "else") <=> T
      <4>1. opened = {7}
        BY <2>2, <2>5
      <4> QED
        BY <1>3, <1>2, <2>3, <2>5, <4>1
    <3> QED
      BY <1>1, <2>1, <2>5, <3>1
  <2> QED
    BY <2>4, <2>5
<1> QED
  BY <1>4 DEF t, T

\* Two words, one behind the other.
LEMMA TwoWords ==
  ASSUME NEW x, NEW y
  PROVE  << x >> \o << y >> = << x, y >>
<1> DEFINE V == {x, y}
<1>1. << x >> \in Seq(V) /\ y \in V
  OBVIOUS
<1>2. << x >> \o << y >> = Append(<< x >>, y)
  <2> HIDE DEF V
  <2> QED
    BY <1>1, BehindAppend
<1>3. Append(<< x >>, y) = << x, y >>
  <2> DEFINE s == Append(<< x >>, y)
             t == << x, y >>
  <2>1. s \in Seq(V) /\ Len(s) = 2 /\ s[1] = x /\ s[2] = y
    <3>1. Len(<< x >>) = 1 /\ << x >>[1] = x
      OBVIOUS
    <3> DEFINE u == << x >>
    <3> HIDE DEF V, u
    <3>2. u \in Seq(V) /\ Len(u) = 1 /\ u[1] = x
      BY <1>1, <3>1 DEF u
    <3>3. Append(u, y) \in Seq(V) /\ Len(Append(u, y)) = 2 /\ Append(u, y)[1] = x /\ Append(u, y)[2] = y
      <4>1. /\ Append(u, y) \in Seq(V) /\ Len(Append(u, y)) = Len(u) + 1 /\ Append(u, y)[Len(u) + 1] = y
            /\ \A i \in 1 .. Len(u) : Append(u, y)[i] = u[i]
        <5>1. u \in Seq(V) /\ y \in V
          BY <1>1, <3>2
        <5> QED
          BY ONLY <5>1, TokenAdded
      <4> QED
        BY <3>2, <4>1
    <3> QED
      BY <3>3 DEF u
  <2>2. t \in Seq(V) /\ Len(t) = 2 /\ t[1] = x /\ t[2] = y
    OBVIOUS
  <2>3. \A i \in 1 .. 2 : i = 1 \/ i = 2
    OBVIOUS
  <2> HIDE DEF s, t, V
  <2>4. \A i \in 1 .. Len(s) : s[i] = t[i]
    BY <2>1, <2>2, <2>3
  <2>5. s = t
    BY <2>1, <2>2, <2>4, SameLines
  <2> QED
    BY <2>5 DEF s, t
<1> QED
  BY <1>2, <1>3

\* The sections of an expedition are texts.
LEMMA SectionsWritten ==
  ASSUME NEW d \in PrData
  PROVE  /\ RenderScopeSection(d) \in Seq(Writable) /\ RenderEnvironmentSection(d) \in Seq(Writable)
         /\ WithHeader("context", d.context) \in Seq(Writable) /\ WithHeader("inbox", d.inbox) \in Seq(Writable)
         /\ << Word(MissionPromptName(d)) >> \in Seq(Writable) /\ << Word("gradient") >> \in Seq(Writable)
         /\ BoolFlag(d.wave) \in Seq(Writable) /\ BoolFlag(d.contract) \in Seq(Writable)
         /\ << Word("glossary") >> \in Seq(Writable) /\ << >> \in Seq(Writable)
<1>1. /\ d.lumina \in Seq(Writable) /\ d.context \in Seq(Writable) /\ d.inbox \in Seq(Writable) /\ d.team \in Name
      /\ d.wave \in BOOLEAN /\ d.contract \in BOOLEAN
  BY DataTyped
<1>2. \A n \in Name : << Word(n) >> \in Seq(Writable) /\ \A u \in Seq(Writable) : << Word(n) >> \o u \in Seq(Writable)
  BY WordsWritten
<1>3. /\ "wave target" \in Name /\ "linear scope" \in Name /\ "issues on github" \in Name /\ "issues on linear" \in Name
      /\ "tools" \in Name /\ "context" \in Name /\ "inbox" \in Name /\ "mission wave" \in Name /\ "mission linear" \in Name
      /\ "gradient" \in Name /\ "true" \in Name /\ "false" \in Name /\ "glossary" \in Name
  BY DEF Name, Literal
<1>4. << >> \in Seq(Writable)
  BY EmptyText
<1>5. RenderScopeSection(d) \in Seq(Writable)
  <2>1. << Word("wave target") >> \in Seq(Writable)
    BY <1>2, <1>3
  <2>2. << Word("linear scope"), Word(d.team) >> \in Seq(Writable)
    <3>1. << Word(d.team) >> \in Seq(Writable)
      BY <1>1, <1>2
    <3>2. << Word("linear scope") >> \o << Word(d.team) >> \in Seq(Writable)
      BY <1>2, <1>3, <3>1
    <3>3. << Word("linear scope") >> \o << Word(d.team) >> = << Word("linear scope"), Word(d.team) >>
      BY TwoWords
    <3> QED
      BY <3>2, <3>3
  <2> HIDE DEF Writable
  <2> QED
    BY <1>4, <2>1, <2>2 DEF RenderScopeSection
<1>6. RenderEnvironmentSection(d) \in Seq(Writable)
  <2>1. << Word("issues on github") >> \in Seq(Writable) /\ << Word("issues on linear") >> \in Seq(Writable)
        /\ << Word("tools") >> \in Seq(Writable)
    BY <1>2, <1>3
  <2>2. << Word("issues on github") >> \o << Word("tools") >> \in Seq(Writable)
        /\ << Word("issues on linear") >> \o << Word("tools") >> \in Seq(Writable)
    BY <1>2, <1>3, <2>1
  <2> QED
    BY <2>2 DEF RenderEnvironmentSection
<1>7. WithHeader("context", d.context) \in Seq(Writable) /\ WithHeader("inbox", d.inbox) \in Seq(Writable)
  <2>1. << Word("context") >> \o d.context \in Seq(Writable) /\ << Word("inbox") >> \o d.inbox \in Seq(Writable)
    BY <1>1, <1>2, <1>3
  <2> QED
    BY <1>4, <2>1 DEF WithHeader
<1>8. << Word(MissionPromptName(d)) >> \in Seq(Writable)
  <2>1. MissionPromptName(d) \in Name
    BY <1>3 DEF MissionPromptName
  <2> QED
    BY <1>2, <2>1
<1>9. BoolFlag(d.wave) \in Seq(Writable) /\ BoolFlag(d.contract) \in Seq(Writable)
  <2>1. << Word("true") >> \in Seq(Writable) /\ << Word("false") >> \in Seq(Writable)
    BY <1>2, <1>3
  <2> QED
    BY <2>1 DEF BoolFlag
<1>10. << Word("gradient") >> \in Seq(Writable) /\ << Word("glossary") >> \in Seq(Writable)
  BY <1>2, <1>3
<1> QED
  BY <1>4, <1>5, <1>6, <1>7, <1>8, <1>9, <1>10

\* The variables of an expedition and their values.
LEMMA VariablesAre ==
  ASSUME NEW d \in PrData
  PROVE  /\ Valued(ExpeditionVars(d)) /\ DOMAIN ExpeditionVars(d) = ToSet(Names)
         /\ ExpeditionVars(d)["lumina_section"] = d.lumina
         /\ ExpeditionVars(d)["gradient_section"] = << Word("gradient") >>
         /\ ExpeditionVars(d)["scope_section"] = RenderScopeSection(d)
         /\ ExpeditionVars(d)["environment_section"] = RenderEnvironmentSection(d)
         /\ ExpeditionVars(d)["context_section"] = WithHeader("context", d.context)
         /\ ExpeditionVars(d)["inbox_section"] = WithHeader("inbox", d.inbox)
         /\ ExpeditionVars(d)["mission_section"] = << Word(MissionPromptName(d)) >>
         /\ ExpeditionVars(d)["has_event_sourced_contract"] = BoolFlag(d.contract)
<1> DEFINE v == ExpeditionVars(d)
           S == Seq(Writable)
           a == d.lumina
           b == << Word("gradient") >>
           c == RenderScopeSection(d)
           e == RenderEnvironmentSection(d)
           f == WithHeader("context", d.context)
           g == WithHeader("inbox", d.inbox)
           h == << Word(MissionPromptName(d)) >>
           i == BoolFlag(d.wave)
           k == BoolFlag(d.contract)
<1>1. v = [lumina_section |-> a, gradient_section |-> b, scope_section |-> c, environment_section |-> e,
           context_section |-> f, inbox_section |-> g, mission_section |-> h, is_wave_mode |-> i,
           has_event_sourced_contract |-> k]
  BY DEF ExpeditionVars
<1>2. a \in S /\ b \in S /\ c \in S /\ e \in S /\ f \in S /\ g \in S /\ h \in S /\ i \in S /\ k \in S
  BY SectionsWritten, DataTyped
<1> HIDE DEF v, S, a, b, c, e, f, g, h, i, k
<1>3. /\ v["lumina_section"] = a /\ v["gradient_section"] = b /\ v["scope_section"] = c /\ v["environment_section"] = e
      /\ v["context_section"] = f /\ v["inbox_section"] = g /\ v["mission_section"] = h /\ v["is_wave_mode"] = i
      /\ v["has_event_sourced_contract"] = k
  BY <1>1
<1>4. DOMAIN v = {"lumina_section", "gradient_section", "scope_section", "environment_section", "context_section",
                  "inbox_section", "mission_section", "is_wave_mode", "has_event_sourced_contract"}
  BY <1>1
<1>5. DOMAIN v = ToSet(Names) /\ DOMAIN v \subseteq Name
  <2>1. DOMAIN v = ToSet(Names)
    BY <1>4, NamesAre
  <2>2. DOMAIN v \subseteq Name
    BY <2>1 DEF Name, Literal
  <2> QED
    BY <2>1, <2>2
<1>6. v \in [DOMAIN v -> S]
  <2>1. v = [n \in DOMAIN v |-> v[n]]
    BY <1>1
  <2>2. \A n \in DOMAIN v : v[n] \in S
    BY <1>2, <1>3, <1>4
  <2> QED
    BY <2>1, <2>2
<1> QED
  BY <1>3, <1>5, <1>6 DEF Valued, v, S, a, b, c, e, f, g, h, i, k

\* The contract's glossary is asked for as a word.
LEMMA GlossaryAsked ==
  ASSUME NEW d \in PrData
  PROVE  Truthy("has_event_sourced_contract", ExpeditionVars(d)) <=> d.contract
<1>1. "has_event_sourced_contract" \in DOMAIN ExpeditionVars(d)
      /\ ExpeditionVars(d)["has_event_sourced_contract"] = BoolFlag(d.contract)
  BY VariablesAre, NamesAre
<1>2. d.contract \in BOOLEAN
  BY DataTyped
<1>3. BoolFlag(d.contract) # << >>
  BY DEF BoolFlag
<1>4. BoolFlag(d.contract) = << Word("false") >> <=> ~d.contract
  <2>1. Word("true") # Word("false")
    BY DEF Word
  <2>2. \A x, y : << x >> = << y >> => x = y
    OBVIOUS
  <2>3. << Word("true") >> # << Word("false") >>
    BY <2>1, <2>2
  <2> HIDE DEF Word
  <2>4. CASE d.contract = TRUE
    BY <2>3, <2>4 DEF BoolFlag
  <2>5. CASE d.contract = FALSE
    BY <2>3, <2>5 DEF BoolFlag
  <2> QED
    BY <1>2, <2>4, <2>5
<1>5. Truthy("has_event_sourced_contract", ExpeditionVars(d)) <=> ~(BoolFlag(d.contract) = << Word("false") >>)
  BY <1>1, <1>3 DEF Truthy
<1> QED
  BY <1>2, <1>4, <1>5

\* What the tokens of the template become.
Pieces(d) == << d.lumina, << Word("gradient") >>, RenderScopeSection(d), RenderEnvironmentSection(d),
                WithHeader("context", d.context), WithHeader("inbox", d.inbox), << >>,
                IF d.contract THEN << Word("glossary") >> ELSE << >>, << >>, << Word(MissionPromptName(d)) >> >>

\* Ten parts, one for each token of the template.
LEMMA PiecesAre ==
  ASSUME NEW d \in PrData
  PROVE  /\ Pieces(d) \in Seq(Seq(Writable)) /\ Len(Pieces(d)) = 10 /\ Pieces(d) = [i \in 1 .. 10 |-> Pieces(d)[i]]
         /\ Pieces(d)[1] = d.lumina /\ Pieces(d)[2] = << Word("gradient") >> /\ Pieces(d)[3] = RenderScopeSection(d)
         /\ Pieces(d)[4] = RenderEnvironmentSection(d) /\ Pieces(d)[5] = WithHeader("context", d.context)
         /\ Pieces(d)[6] = WithHeader("inbox", d.inbox) /\ Pieces(d)[7] = << >>
         /\ Pieces(d)[8] = (IF d.contract THEN << Word("glossary") >> ELSE << >>) /\ Pieces(d)[9] = << >>
         /\ Pieces(d)[10] = << Word(MissionPromptName(d)) >>
<1> DEFINE S == Seq(Writable)
           a == d.lumina
           b == << Word("gradient") >>
           c == RenderScopeSection(d)
           e == RenderEnvironmentSection(d)
           f == WithHeader("context", d.context)
           g == WithHeader("inbox", d.inbox)
           h == IF d.contract THEN << Word("glossary") >> ELSE << >>
           k == << Word(MissionPromptName(d)) >>
           n == << >>
           p == Pieces(d)
<1>1. a \in S /\ b \in S /\ c \in S /\ e \in S /\ f \in S /\ g \in S /\ h \in S /\ k \in S /\ n \in S
  <2>1. h \in S
    <3> HIDE DEF Writable, Word
    <3> QED
      BY SectionsWritten
  <2> QED
    BY <2>1, SectionsWritten, DataTyped
<1>2. p = << a, b, c, e, f, g, n, h, n, k >>
  BY DEF Pieces
<1> HIDE DEF S, a, b, c, e, f, g, h, k, n, p
<1>3. p \in Seq(S) /\ Len(p) = 10 /\ p = [i \in 1 .. 10 |-> p[i]]
  BY <1>1, <1>2
<1>4. /\ p[1] = a /\ p[2] = b /\ p[3] = c /\ p[4] = e /\ p[5] = f /\ p[6] = g /\ p[7] = n /\ p[8] = h /\ p[9] = n
      /\ p[10] = k
  BY <1>2
<1> QED
  BY <1>3, <1>4 DEF S, a, b, c, e, f, g, h, k, n, p

\* A placeholder becomes the value of its variable.
LEMMA PlaceFilled ==
  ASSUME NEW v, Valued(v), NEW n \in DOMAIN v
  PROVE  Fill(v)[Var(n)] = v[n]
<1>1. n \in Name
  BY DEF Valued
<1>2. Var(n) \in Writable
  BY <1>1, WordsWritten
<1>3. Var(n).kind = "var" /\ Var(n).name = n
  BY DEF Var
<1> QED
  BY <1>2, <1>3, FillIs

\* The prompt of an expedition is its sections, one behind the other.
LEMMA ExpansionIs ==
  ASSUME NEW d \in PrData, NEW o \in SomeOrders
  PROVE  ExpandTemplate(ExpeditionTemplate, ExpeditionVars(d), o) = Joined(Pieces(d))
<1> DEFINE t == ExpeditionTemplate
           v == ExpeditionVars(d)
           p == [i \in DOMAIN t |-> IF Stays(t, i, v) THEN Fill(v)[t[i]] ELSE << >>]
           q == Pieces(d)
<1>1. Valued(v) /\ DOMAIN v = ToSet(Names) /\ o \in Seq(DOMAIN v) /\ ToSet(o) = DOMAIN v
  BY VariablesAre, SomeOrdersEnumerate
<1>2. t \in Seq(Writable) /\ Flat(t) /\ DOMAIN t = 1 .. 10
  BY TemplateIs, TemplateFlat
<1>3. ExpandTemplate(t, v, o) = Joined(p)
  BY <1>1, <1>2, ExpandedIs
<1>4. \A i \in 1 .. 10 : Stays(t, i, v) <=> (i \notin {7, 9} /\ (i = 8 => d.contract))
  BY GlossaryAsked, TemplateStays
<1>5. \A n \in DOMAIN v : Fill(v)[Var(n)] = v[n]
  BY <1>1, PlaceFilled
<1>6. /\ t[1] = Var("lumina_section") /\ t[2] = Var("gradient_section")
      /\ t[3] = Var("scope_section") /\ t[4] = Var("environment_section")
      /\ t[5] = Var("context_section") /\ t[6] = Var("inbox_section")
      /\ t[8] = Word("glossary") /\ t[10] = Var("mission_section")
  BY TemplateIs
<1>7. Fill(v)[Word("glossary")] = << Word("glossary") >>
  <2>1. Word("glossary") \in Writable
    BY WordsWritten DEF Name, Literal
  <2>2. Word("glossary").kind = "text"
    BY DEF Word
  <2> QED
    BY <1>1, <2>1, <2>2, FillIs
<1>8. /\ v["lumina_section"] = q[1] /\ v["gradient_section"] = q[2] /\ v["scope_section"] = q[3]
      /\ v["environment_section"] = q[4] /\ v["context_section"] = q[5] /\ v["inbox_section"] = q[6]
      /\ v["mission_section"] = q[10]
  BY VariablesAre, PiecesAre
<1>9. q[7] = << >> /\ q[9] = << >> /\ q[8] = (IF d.contract THEN << Word("glossary") >> ELSE << >>)
      /\ q = [i \in 1 .. 10 |-> q[i]]
  BY PiecesAre
<1>10. /\ "lumina_section" \in DOMAIN v /\ "gradient_section" \in DOMAIN v /\ "scope_section" \in DOMAIN v
       /\ "environment_section" \in DOMAIN v /\ "context_section" \in DOMAIN v /\ "inbox_section" \in DOMAIN v
       /\ "mission_section" \in DOMAIN v
  BY <1>1, NamesAre
<1>11. /\ Fill(v)[t[1]] = q[1] /\ Fill(v)[t[2]] = q[2] /\ Fill(v)[t[3]] = q[3] /\ Fill(v)[t[4]] = q[4]
       /\ Fill(v)[t[5]] = q[5] /\ Fill(v)[t[6]] = q[6] /\ Fill(v)[t[10]] = q[10]
  <2> HIDE DEF t, v, q
  <2> QED
    BY <1>5, <1>6, <1>8, <1>10
<1>12. d.contract \in BOOLEAN
  BY DataTyped
<1> DEFINE F == Fill(v)
           g == << Word("glossary") >>
           St(i) == Stays(t, i, v)
<1>13. F[t[8]] = g /\ (q[8] = IF d.contract THEN g ELSE << >>)
  BY <1>6, <1>7, <1>9
<1>14. \A i \in 1 .. 10 : (IF St(i) THEN F[t[i]] ELSE << >>) = q[i]
  <2>1. \A i \in 1 .. 10 : i = 1 \/ i = 2 \/ i = 3 \/ i = 4 \/ i = 5 \/ i = 6 \/ i = 7 \/ i = 8 \/ i = 9 \/ i = 10
    OBVIOUS
  <2>2. \A i \in 1 .. 10 : St(i) <=> (i \notin {7, 9} /\ (i = 8 => d.contract))
    BY <1>4
  <2>3. /\ F[t[1]] = q[1] /\ F[t[2]] = q[2] /\ F[t[3]] = q[3] /\ F[t[4]] = q[4]
        /\ F[t[5]] = q[5] /\ F[t[6]] = q[6] /\ F[t[10]] = q[10]
    BY <1>11
  <2>4. q[7] = << >> /\ q[9] = << >>
    BY <1>9
  <2> HIDE DEF St, F, t, q, g, v
  <2> QED
    BY <1>12, <1>13, <2>1, <2>2, <2>3, <2>4
<1>15. p = [i \in 1 .. 10 |-> q[i]]
  <2> DEFINE D == DOMAIN t
  <2>1. D = 1 .. 10
    BY <1>2
  <2>2. p = [i \in D |-> IF St(i) THEN F[t[i]] ELSE << >>]
    OBVIOUS
  <2> HIDE DEF St, F, t, q, v, p, D
  <2> QED
    BY <1>14, <2>1, <2>2
<1>16. p = q
  <2> HIDE DEF p, q
  <2> QED
    BY <1>9, <1>15
<1> HIDE DEF p
<1> QED
  BY <1>3, <1>16

\* A part of a text stands somewhere in it.
LEMMA PartStands ==
  ASSUME NEW V, NEW p \in Seq(V), NEW t, Within(t, p, V)
  PROVE  \E k \in 0 .. Len(t) : IsPrefix(p, SubSeq(t, k + 1, Len(t)))
<1>1. ASSUME NEW a, NEW b, a \in Seq(V), b \in Seq(V), t = (a \o p) \o b
      PROVE  \E k \in 0 .. Len(t) : IsPrefix(p, SubSeq(t, k + 1, Len(t)))
  <2> DEFINE c == a \o p
  <2>1. /\ c \in Seq(V) /\ Len(c) = Len(a) + Len(p) /\ Len(a) \in Nat /\ Len(p) \in Nat
        /\ \A i \in 1 .. Len(p) : c[Len(a) + i] = p[i]
    BY <1>1, TextsBehind
  <2>2. t = c \o b
    BY <1>1
  <2> HIDE DEF c
  <2>3. /\ t \in Seq(V) /\ Len(t) = Len(c) + Len(b) /\ Len(b) \in Nat
        /\ \A i \in 1 .. Len(c) : t[i] = c[i]
    <3>1. c \in Seq(V) /\ b \in Seq(V)
      BY <1>1, <2>1
    <3>2. /\ c \o b \in Seq(V) /\ Len(c \o b) = Len(c) + Len(b) /\ Len(b) \in Nat
          /\ \A i \in 1 .. Len(c) : (c \o b)[i] = c[i]
      BY ONLY <3>1, TextsBehind
    <3> QED
      BY <2>2, <3>2
  <2> DEFINE k == Len(a)
             n == Len(t)
             u == SubSeq(t, k + 1, n)
  <2>4. k + 1 \in 1 .. Len(t) + 1 /\ n \in 0 .. Len(t) /\ k + 1 <= n + 1 /\ k \in 0 .. Len(t) /\ n + 1 - (k + 1) = Len(p) + Len(b)
    BY <2>1, <2>3
  <2>5. u \in Seq(V) /\ Len(u) = n + 1 - (k + 1) /\ \A i \in 1 .. n + 1 - (k + 1) : u[i] = t[(k + 1) + i - 1]
    <3> DEFINE m == k + 1
    <3>1. m \in 1 .. Len(t) + 1 /\ n \in 0 .. Len(t) /\ m <= n + 1 /\ t \in Seq(V)
      BY <2>3, <2>4
    <3> HIDE DEF m, n
    <3>2. SubSeq(t, m, n) \in Seq(V) /\ Len(SubSeq(t, m, n)) = n + 1 - m
          /\ \A i \in 1 .. n + 1 - m : SubSeq(t, m, n)[i] = t[m + i - 1]
      BY ONLY <3>1, WithinText
    <3> QED
      BY <3>2 DEF m, n
  <2> HIDE DEF u, n, k
  <2>6. Len(u) = Len(p) + Len(b) /\ \A i \in 1 .. Len(p) : u[i] = p[i]
    <3>1. ASSUME NEW i \in 1 .. Len(p) PROVE u[i] = p[i]
      <4>1. i \in 1 .. n + 1 - (k + 1) /\ (k + 1) + i - 1 = k + i /\ k + i \in 1 .. Len(c)
        BY <2>1, <2>3, <2>4 DEF k
      <4>2. u[i] = t[k + i]
        BY <2>5, <4>1
      <4>3. t[k + i] = c[k + i]
        BY <2>3, <4>1
      <4>4. c[k + i] = p[i]
        BY <2>1 DEF k
      <4> QED
        BY <4>2, <4>3, <4>4
    <3> QED
      BY <2>4, <2>5, <3>1
  <2>7. IsPrefix(p, u)
    <3> DEFINE l == Len(p)
    <3>1. l \in Nat /\ l <= Len(u) /\ 1 \in 1 .. Len(p) + 1 /\ 1 \in 1 .. Len(u) + 1 /\ l \in 0 .. Len(p) /\ l \in 0 .. Len(u) /\ 1 <= l + 1
          /\ l + 1 - 1 = l
      BY <2>1, <2>3, <2>6
    <3>2. p \in Seq(V) /\ u \in Seq(V)
      BY <2>5
    <3>3. SubSeq(p, 1, l) \in Seq(V) /\ Len(SubSeq(p, 1, l)) = l /\ \A i \in 1 .. l : SubSeq(p, 1, l)[i] = p[i]
      <4> HIDE DEF l
      <4>1. SubSeq(p, 1, l) \in Seq(V) /\ Len(SubSeq(p, 1, l)) = l + 1 - 1 /\ \A i \in 1 .. l + 1 - 1 : SubSeq(p, 1, l)[i] = p[1 + i - 1]
        BY ONLY <3>1, <3>2, WithinText
      <4> QED
        BY <3>1, <4>1
    <3>4. SubSeq(u, 1, l) \in Seq(V) /\ Len(SubSeq(u, 1, l)) = l /\ \A i \in 1 .. l : SubSeq(u, 1, l)[i] = u[i]
      <4> HIDE DEF l
      <4>1. SubSeq(u, 1, l) \in Seq(V) /\ Len(SubSeq(u, 1, l)) = l + 1 - 1 /\ \A i \in 1 .. l + 1 - 1 : SubSeq(u, 1, l)[i] = u[1 + i - 1]
        BY ONLY <3>1, <3>2, WithinText
      <4> QED
        BY <3>1, <4>1
    <3> DEFINE x == SubSeq(p, 1, l)
               y == SubSeq(u, 1, l)
    <3>5. x \in Seq(V) /\ y \in Seq(V) /\ Len(x) = Len(y) /\ \A i \in 1 .. Len(x) : x[i] = y[i]
      BY <2>6, <3>3, <3>4
    <3>6. x = y
      <4> HIDE DEF x, y
      <4> QED
        BY <3>5, SameLines
    <3> QED
      BY <3>1, <3>6 DEF IsPrefix
  <2> QED
    BY <2>4, <2>7 DEF u, n
<1> QED
  BY <1>1, Zenon DEF Within

\* What stands behind a word stands in the text too.
LEMMA BehindWithin ==
  ASSUME NEW V, NEW w \in Seq(V), NEW p \in Seq(V), NEW t, Within(t, w \o p, V)
  PROVE  Within(t, p, V)
<1>1. ASSUME NEW a, NEW b, a \in Seq(V), b \in Seq(V), t = (a \o (w \o p)) \o b
      PROVE  \E c, d \in Seq(V) : t = (c \o p) \o d
  <2> DEFINE c == a \o w
  <2>1. c \in Seq(V) /\ c \o p = a \o (w \o p)
    <3>1. a \in Seq(V) /\ w \in Seq(V) /\ p \in Seq(V)
      BY <1>1
    <3>2. a \o w \in Seq(V) /\ (a \o w) \o p = a \o (w \o p)
      BY ONLY <3>1, BehindThree, TextsBehind
    <3> QED
      BY <3>2
  <2> HIDE DEF c
  <2> QED
    BY <1>1, <2>1
<1> QED
  BY <1>1, Zenon DEF Within

\* A section with a header stands in the prompt without its header too.
LEMMA HeadedStands ==
  ASSUME NEW n \in Name, NEW p \in Seq(Writable), NEW t, Within(t, WithHeader(n, p), Writable)
  PROVE  \E k \in 0 .. Len(t) : IsPrefix(p, SubSeq(t, k + 1, Len(t)))
<1>1. << Word(n) >> \in Seq(Writable)
  BY WordsWritten
<1>2. Within(t, p, Writable)
  <2>1. CASE p = << >>
    <3>1. WithHeader(n, p) = p
      BY <2>1 DEF WithHeader
    <3> QED
      BY <3>1
  <2>2. CASE p # << >>
    <3> DEFINE w == << Word(n) >>
    <3>1. WithHeader(n, p) = w \o p
      BY <2>2 DEF WithHeader
    <3>2. Within(t, w \o p, Writable) /\ w \in Seq(Writable)
      BY <1>1, <3>1
    <3> HIDE DEF w, Writable
    <3> QED
      BY <3>2, BehindWithin
  <2> QED
    BY <2>1, <2>2
<1> QED
  BY <1>2, PartStands

\* The tokens of a word and a text behind it.
LEMMA HeadSet ==
  ASSUME NEW V, NEW x \in V, NEW s \in Seq(V)
  PROVE  ToSet(<< x >>) = {x} /\ ToSet(<< x >> \o s) = {x} \union ToSet(s) /\ ToSet(<< >>) = {}
<1> DEFINE h == << x >>
           r == h \o s
<1>1. h \in Seq(V) /\ Len(h) = 1 /\ h[1] = x /\ DOMAIN h = {1} /\ s \in Seq(V)
  <2>1. 1 .. 1 = {1}
    OBVIOUS
  <2> QED
    BY <2>1
<1>2. ToSet(h) = {x}
  BY <1>1 DEF ToSet
<1>3. ToSet(<< >>) = {}
  BY DEF ToSet
<1> HIDE DEF h
<1>4. /\ Len(s) \in Nat /\ DOMAIN s = 1 .. Len(s) /\ DOMAIN r = 1 .. Len(h) + Len(s)
      /\ \A i \in 1 .. Len(h) : r[i] = h[i]
      /\ \A i \in 1 .. Len(s) : r[Len(h) + i] = s[i]
  <2>1. h \in Seq(V) /\ s \in Seq(V)
    BY <1>1
  <2> QED
    BY ONLY <2>1, TextsBehind DEF r
<1> HIDE DEF r
<1>5. DOMAIN r = 1 .. 1 + Len(s) /\ r[1] = x /\ \A i \in 1 .. Len(s) : 1 + i \in DOMAIN r /\ r[1 + i] = s[i]
  BY <1>1, <1>4
<1>6. ASSUME NEW y \in ToSet(r) PROVE y \in {x} \union ToSet(s)
  <2>1. PICK i \in 1 .. 1 + Len(s) : y = r[i]
    BY <1>5 DEF ToSet
  <2>2. CASE i = 1
    BY <1>5, <2>1, <2>2
  <2>3. CASE i # 1
    <3>1. i - 1 \in 1 .. Len(s) /\ 1 + (i - 1) = i
      BY <1>4, <2>3
    <3>2. y = s[i - 1]
      BY <1>5, <2>1, <3>1
    <3> QED
      BY <1>4, <3>1, <3>2 DEF ToSet
  <2> QED
    BY <2>2, <2>3
<1>7. ASSUME NEW y \in ToSet(s) PROVE y \in ToSet(r)
  <2>1. PICK i \in 1 .. Len(s) : y = s[i]
    BY <1>4, <1>7 DEF ToSet
  <2> QED
    BY <1>5, <2>1 DEF ToSet
<1>8. x \in ToSet(r)
  <2>1. 1 \in DOMAIN r
    BY <1>4, <1>5
  <2> QED
    BY <1>5, <2>1 DEF ToSet
<1>9. ToSet(r) = {x} \union ToSet(s)
  BY <1>6, <1>7, <1>8
<1> QED
  BY <1>2, <1>3, <1>9 DEF r, h

\* The words of the sections.
LEMMA SectionWords ==
  ASSUME NEW d \in PrData
  PROVE  /\ ToSet(RenderScopeSection(d)) \subseteq {Word(d.team)} \union (IF d.wave THEN OfWave ELSE OfLinear)
         /\ ToSet(RenderEnvironmentSection(d)) \subseteq {Word("tools")} \union (IF d.wave THEN OfWave ELSE OfLinear)
         /\ ToSet(WithHeader("context", d.context)) \subseteq {Word("context")} \union ToSet(d.context)
         /\ ToSet(WithHeader("inbox", d.inbox)) \subseteq {Word("inbox")} \union ToSet(d.inbox)
         /\ ToSet(<< Word(MissionPromptName(d)) >>) \subseteq (IF d.wave THEN OfWave ELSE OfLinear)
         /\ ToSet(<< Word("gradient") >>) = {Word("gradient")} /\ ToSet(<< Word("glossary") >>) = {Word("glossary")}
         /\ ToSet(<< >>) = {}
<1>1. /\ d.context \in Seq(Writable) /\ d.inbox \in Seq(Writable) /\ d.team \in Name
      /\ d.wave \in BOOLEAN
  BY DataTyped
<1>2. /\ "wave target" \in Name /\ "linear scope" \in Name /\ "issues on github" \in Name /\ "issues on linear" \in Name
      /\ "tools" \in Name /\ "context" \in Name /\ "inbox" \in Name /\ "mission wave" \in Name /\ "mission linear" \in Name
      /\ "gradient" \in Name /\ "glossary" \in Name
  BY DEF Name, Literal
<1>3. \A n \in Name : Word(n) \in Writable /\ << Word(n) >> \in Seq(Writable)
  BY WordsWritten
<1>4. \A x \in Writable : \A s \in Seq(Writable) :
        ToSet(<< x >>) = {x} /\ ToSet(<< x >> \o s) = {x} \union ToSet(s) /\ ToSet(<< >>) = {}
  BY HeadSet
<1>5. \A n \in Name : \A s \in Seq(Writable) :
        ToSet(<< Word(n) >>) = {Word(n)} /\ ToSet(<< Word(n) >> \o s) = {Word(n)} \union ToSet(s) /\ ToSet(<< >>) = {}
  BY <1>3, <1>4
<1>6. \A n \in Name : ToSet(<< Word(n) >>) = {Word(n)}
  BY <1>3, <1>5
<1>7. << >> \in Seq(Writable) /\ ToSet(<< >>) = {}
  BY <1>1, <1>2, <1>5, EmptyText
<1>8. \A n, m \in Name : ToSet(<< Word(n) >> \o << Word(m) >>) = {Word(n)} \union {Word(m)}
  <2>1. ASSUME NEW n \in Name, NEW m \in Name
        PROVE  ToSet(<< Word(n) >> \o << Word(m) >>) = {Word(n)} \union {Word(m)}
    <3> DEFINE s == << Word(m) >>
    <3>1. s \in Seq(Writable) /\ ToSet(s) = {Word(m)}
      BY <1>3, <1>6
    <3> HIDE DEF s
    <3>2. ToSet(<< Word(n) >> \o s) = {Word(n)} \union ToSet(s)
      BY <1>5, <3>1
    <3> QED
      BY <3>1, <3>2 DEF s
  <2> QED
    BY <2>1
<1> HIDE DEF Name, Writable, Word, ToSet
<1>9. ToSet(RenderScopeSection(d)) \subseteq {Word(d.team)} \union (IF d.wave THEN OfWave ELSE OfLinear)
  <2>1. CASE d.wave
    <3>1. RenderScopeSection(d) = << Word("wave target") >>
      BY <2>1 DEF RenderScopeSection
    <3>2. ToSet(RenderScopeSection(d)) = {Word("wave target")}
      BY <1>2, <1>6, <3>1
    <3> QED
      BY <2>1, <3>2 DEF OfWave
  <2>2. CASE ~d.wave /\ d.team # "none"
    <3>1. RenderScopeSection(d) = << Word("linear scope"), Word(d.team) >>
      BY <2>2 DEF RenderScopeSection
    <3>2. << Word("linear scope"), Word(d.team) >> = << Word("linear scope") >> \o << Word(d.team) >>
      BY TwoWords
    <3>3. ToSet(<< Word("linear scope") >> \o << Word(d.team) >>) = {Word("linear scope")} \union {Word(d.team)}
      BY ONLY <1>1, <1>2, <1>8
    <3>4. ToSet(RenderScopeSection(d)) = {Word("linear scope")} \union {Word(d.team)}
      BY <3>1, <3>2, <3>3
    <3> QED
      BY <2>2, <3>4 DEF OfLinear
  <2>3. CASE ~d.wave /\ d.team = "none"
    BY <1>7, <2>3 DEF RenderScopeSection
  <2> QED
    BY <1>1, <2>1, <2>2, <2>3
<1>10. ToSet(RenderEnvironmentSection(d)) \subseteq {Word("tools")} \union (IF d.wave THEN OfWave ELSE OfLinear)
  <2>1. CASE d.wave
    <3>1. RenderEnvironmentSection(d) = << Word("issues on github") >> \o << Word("tools") >>
      BY <2>1 DEF RenderEnvironmentSection
    <3>2. ToSet(<< Word("issues on github") >> \o << Word("tools") >>) = {Word("issues on github")} \union {Word("tools")}
      BY ONLY <1>2, <1>8
    <3> QED
      BY <2>1, <3>1, <3>2 DEF OfWave
  <2>2. CASE ~d.wave
    <3>1. RenderEnvironmentSection(d) = << Word("issues on linear") >> \o << Word("tools") >>
      BY <2>2 DEF RenderEnvironmentSection
    <3>2. ToSet(<< Word("issues on linear") >> \o << Word("tools") >>) = {Word("issues on linear")} \union {Word("tools")}
      BY ONLY <1>2, <1>8
    <3> QED
      BY <2>2, <3>1, <3>2 DEF OfLinear
  <2> QED
    BY <2>1, <2>2
<1>11. /\ ToSet(WithHeader("context", d.context)) \subseteq {Word("context")} \union ToSet(d.context)
       /\ ToSet(WithHeader("inbox", d.inbox)) \subseteq {Word("inbox")} \union ToSet(d.inbox)
  <2>1. /\ ToSet(<< Word("context") >> \o d.context) = {Word("context")} \union ToSet(d.context)
        /\ ToSet(<< Word("inbox") >> \o d.inbox) = {Word("inbox")} \union ToSet(d.inbox)
    BY <1>1, <1>2, <1>5
  <2> QED
    BY <1>7, <2>1 DEF WithHeader
<1>12. ToSet(<< Word(MissionPromptName(d)) >>) \subseteq (IF d.wave THEN OfWave ELSE OfLinear)
  <2>1. CASE d.wave
    <3>1. MissionPromptName(d) = "mission wave"
      BY <2>1 DEF MissionPromptName
    <3> QED
      BY <1>2, <1>6, <2>1, <3>1 DEF OfWave
  <2>2. CASE ~d.wave
    <3>1. MissionPromptName(d) = "mission linear"
      BY <2>2 DEF MissionPromptName
    <3> QED
      BY <1>2, <1>6, <2>2, <3>1 DEF OfLinear
  <2> QED
    BY <2>1, <2>2
<1> QED
  BY <1>2, <1>6, <1>7, <1>9, <1>10, <1>11, <1>12

\* The words of a prompt.
LEMMA PromptWords ==
  ASSUME NEW d \in PrData, NEW x \in ToSet(Joined(Pieces(d)))
  PROVE  \/ x \in {Word(d.team)} \union ToSet(d.lumina) \union ToSet(d.context) \union ToSet(d.inbox)
         \/ x \in {Word("gradient"), Word("tools"), Word("context"), Word("inbox")}
         \/ x \in (IF d.wave THEN OfWave ELSE OfLinear)
         \/ d.contract /\ x = Word("glossary")
<1> DEFINE q == Pieces(d)
<1>1. q \in Seq(Seq(Writable)) /\ Len(q) = 10
  BY PiecesAre
<1>2. PICK i \in 1 .. 10 : x \in ToSet(q[i])
  <2>1. x \in ToSet(Joined(q)) <=> \E i \in 1 .. Len(q) : x \in ToSet(q[i])
    <3> DEFINE P == \A p \in Seq(Seq(Writable)) : \A y : y \in ToSet(Joined(p)) <=> \E i \in 1 .. Len(p) : y \in ToSet(p[i])
    <3>1. P
      BY JoinedHas
    <3> HIDE DEF q, Writable
    <3> QED
      BY <1>1, <3>1
  <2> QED
    BY <1>1, <2>1
<1>3. i = 1 \/ i = 2 \/ i = 3 \/ i = 4 \/ i = 5 \/ i = 6 \/ i = 7 \/ i = 8 \/ i = 9 \/ i = 10
  OBVIOUS
<1>4. /\ q[1] = d.lumina /\ q[2] = << Word("gradient") >> /\ q[3] = RenderScopeSection(d)
      /\ q[4] = RenderEnvironmentSection(d) /\ q[5] = WithHeader("context", d.context)
      /\ q[6] = WithHeader("inbox", d.inbox) /\ q[7] = << >>
      /\ q[8] = (IF d.contract THEN << Word("glossary") >> ELSE << >>) /\ q[9] = << >>
      /\ q[10] = << Word(MissionPromptName(d)) >>
  BY PiecesAre
<1> HIDE DEF q, Word, ToSet, Writable
<1>5. CASE i \in {1, 2, 7, 9}
  BY <1>2, <1>4, <1>5, SectionWords
<1>6. CASE i \in {3, 4, 10}
  BY <1>2, <1>4, <1>6, SectionWords
<1>7. CASE i \in {5, 6}
  BY <1>2, <1>4, <1>7, SectionWords
<1>8. CASE i = 8
  BY <1>2, <1>4, <1>8, SectionWords
<1> QED
  BY <1>3, <1>5, <1>6, <1>7, <1>8

\* The prompt holds what it must hold, and nothing it must not.
LEMMA PromptComplete ==
  ASSUME NEW d \in PrData, NEW text, text = Joined(Pieces(d))
  PROVE  /\ \E k \in 0 .. Len(text) : IsPrefix(d.inbox, SubSeq(text, k + 1, Len(text)))
         /\ \E k \in 0 .. Len(text) : IsPrefix(d.context, SubSeq(text, k + 1, Len(text)))
         /\ d.contract <=> Word("glossary") \in ToSet(text)
         /\ d.wave => ToSet(text) \intersect OfLinear = {}
         /\ ~d.wave => ToSet(text) \intersect OfWave = {}
<1> DEFINE q == Pieces(d)
<1>1. q \in Seq(Seq(Writable)) /\ Len(q) = 10
  BY PiecesAre
<1>2. \A i \in 1 .. 10 : Within(text, q[i], Writable)
  <2> DEFINE P == \A p \in Seq(Seq(Writable)) : \A i \in 1 .. Len(p) : Within(Joined(p), p[i], Writable)
  <2>1. P
    BY JoinedWhere
  <2> HIDE DEF q, Writable
  <2> QED
    BY <1>1, <2>1 DEF q
<1>3. Within(text, WithHeader("context", d.context), Writable) /\ Within(text, WithHeader("inbox", d.inbox), Writable)
  <2>1. q[5] = WithHeader("context", d.context) /\ q[6] = WithHeader("inbox", d.inbox)
    BY PiecesAre
  <2> HIDE DEF q
  <2> QED
    BY <1>2, <2>1
<1>4. d.context \in Seq(Writable) /\ d.inbox \in Seq(Writable) /\ "context" \in Name /\ "inbox" \in Name
  BY DataTyped DEF Name, Literal
<1>5. /\ \E k \in 0 .. Len(text) : IsPrefix(d.inbox, SubSeq(text, k + 1, Len(text)))
      /\ \E k \in 0 .. Len(text) : IsPrefix(d.context, SubSeq(text, k + 1, Len(text)))
  BY <1>3, <1>4, HeadedStands
<1>6. ASSUME NEW x \in ToSet(text)
      PROVE  \/ x \in {Word(d.team)} \union ToSet(d.lumina) \union ToSet(d.context) \union ToSet(d.inbox)
             \/ x \in {Word("gradient"), Word("tools"), Word("context"), Word("inbox")}
             \/ x \in (IF d.wave THEN OfWave ELSE OfLinear)
             \/ d.contract /\ x = Word("glossary")
  BY PromptWords
<1> DEFINE U == {Word(d.team)} \union ToSet(d.lumina) \union ToSet(d.context) \union ToSet(d.inbox)
           H == {Word("gradient"), Word("tools"), Word("context"), Word("inbox")}
           g == Word("glossary")
<1>7. U \intersect OfTemplates = {}
  BY DataTyped
<1>8. \A m, n : Word(m) = Word(n) => m = n
  BY DEF Word
<1>9. H \intersect OfTemplates = {} /\ OfWave \intersect OfLinear = {} /\ g \notin OfWave /\ g \notin OfLinear
  <2> HIDE DEF Word
  <2> QED
    BY <1>8 DEF OfTemplates, OfWave, OfLinear
<1>10. OfTemplates = {g} \union OfWave \union OfLinear
  BY DEF OfTemplates
<1>11. d.contract => g \in ToSet(text)
  <2>1. ASSUME d.contract PROVE g \in ToSet(Joined(q))
    <3>1. q[8] = << g >>
      BY <2>1, PiecesAre
    <3>2. g \in ToSet(q[8])
      BY <3>1, SectionWords
    <3>3. g \in ToSet(Joined(q)) <=> \E i \in 1 .. Len(q) : g \in ToSet(q[i])
      <4> DEFINE P == \A p \in Seq(Seq(Writable)) : \A y : y \in ToSet(Joined(p)) <=> \E i \in 1 .. Len(p) : y \in ToSet(p[i])
      <4>1. P
        BY JoinedHas
      <4> HIDE DEF q, Writable, g
      <4> QED
        BY <1>1, <4>1
    <3> QED
      BY <1>1, <3>2, <3>3
  <2> QED
    BY <2>1
<1>12. d.wave \in BOOLEAN /\ d.contract \in BOOLEAN
  BY DataTyped
<1> DEFINE T == ToSet(text)
<1>13. \A x \in T : x \in U \/ x \in H \/ x \in (IF d.wave THEN OfWave ELSE OfLinear) \/ (d.contract /\ x = g)
  BY <1>6
<1> HIDE DEF T, U, H, g, Word
<1>14. /\ d.contract <=> g \in T
       /\ d.wave => T \intersect OfLinear = {}
       /\ ~d.wave => T \intersect OfWave = {}
  <2> HIDE DEF OfWave, OfLinear
  <2>1. g \in T => d.contract
    BY <1>7, <1>9, <1>10, <1>13
  <2>2. d.wave => T \intersect OfLinear = {}
    BY <1>7, <1>9, <1>10, <1>13
  <2>3. ~d.wave => T \intersect OfWave = {}
    BY <1>7, <1>9, <1>10, <1>13
  <2> QED
    BY <1>11, <1>12, <2>1, <2>2, <2>3 DEF T
<1> QED
  BY <1>5, <1>14 DEF T, g

\* Prompts: templates, values and prompts have their types (registry.go).
THEOREM PromptTypes == PrSpec => []PrTypeOK
<1>1. PrInit => PrTypeOK
  <2> SUFFICES ASSUME PrInit PROVE PrTypeOK
    OBVIOUS
  <2>1. prTemplate = << >> /\ prPrompts = << >> /\ prValues = CHOOSE v \in PrValue : TRUE
    BY DEF PrInit
  <2>2. prValues \in PrValue
    BY <2>1, PrAssumption
  <2> QED
    BY <2>1, <2>2, EmptyText, PrAssumption DEF PrTypeOK
<1>2. PrTypeOK /\ [PrNext]_prVars => PrTypeOK'
  <2> SUFFICES ASSUME PrTypeOK, [PrNext]_prVars PROVE PrTypeOK'
    OBVIOUS
  <2>1. prTemplate \in Seq(PrToken) /\ PrTokens \in Nat
    BY PrAssumption DEF PrTypeOK
  <2>2. CASE WriteToken
    <3>1. PICK x \in PrToken : prTemplate' = Append(prTemplate, x)
      BY <2>2, Zenon DEF WriteToken
    <3>2. Len(prTemplate) < PrTokens /\ UNCHANGED << prOrders, prValues, prPrompts >>
      BY <2>2 DEF WriteToken
    <3>3. prTemplate' \in Seq(PrToken) /\ Len(prTemplate') <= PrTokens
      BY <2>1, <3>1, <3>2, TextGrows
    <3> QED
      BY <3>2, <3>3 DEF PrTypeOK
  <2>3. CASE Expand
    <3>1. prValues' \in PrValue /\ UNCHANGED << prTemplate, prPrompts >>
      BY <2>3, Zenon DEF Expand
    <3> QED
      BY <3>1 DEF PrTypeOK
  <2>4. CASE RenderExpeditionPrompt
    <3>1. \E p : prPrompts' = << p >>
      BY <2>4, Zenon DEF RenderExpeditionPrompt
    <3>2. Len(prPrompts') <= 1
      BY <3>1
    <3>3. UNCHANGED << prTemplate, prOrders, prValues >>
      BY <2>4, Zenon DEF RenderExpeditionPrompt
    <3> QED
      BY <3>2, <3>3 DEF PrTypeOK
  <2>5. CASE UNCHANGED prVars
    BY <2>5 DEF prVars, PrTypeOK
  <2> QED
    BY <2>2, <2>3, <2>4, <2>5 DEF PrNext
<1> QED
  BY <1>1, <1>2, PTL DEF PrSpec

\* What was expanded and rendered, and from what.
Expanded == prOrders # {} => prOrders = {ExpandTemplate(prTemplate, prValues, o) : o \in Orders(prValues)}

\* A prompt is rendered of data, with the variables in one of the orders.
Rendered ==
    prPrompts = << >> \/ \E d \in PrData : \E o \in SomeOrders :
        prPrompts = << [data |-> d, text |-> ExpandTemplate(ExpeditionTemplate, ExpeditionVars(d), o)] >>

\* Both are kept by every step.
LEMMA PromptsKept == PrSpec => [](Expanded /\ Rendered)
<1>1. PrInit => Expanded /\ Rendered
  BY DEF PrInit, Expanded, Rendered
<1>2. Expanded /\ Rendered /\ [PrNext]_prVars => (Expanded /\ Rendered)'
  <2> SUFFICES ASSUME Expanded, Rendered, [PrNext]_prVars PROVE Expanded' /\ Rendered'
    OBVIOUS
  <2>1. CASE WriteToken
    <3>1. prOrders = {} /\ UNCHANGED << prOrders, prValues, prPrompts >>
      BY <2>1, Zenon DEF WriteToken
    <3>2. Expanded'
      BY <3>1 DEF Expanded
    <3>3. Rendered'
      <4> HIDE DEF ExpandTemplate, ExpeditionTemplate, ExpeditionVars, SomeOrders
      <4> QED
        BY <3>1, Zenon DEF Rendered
    <3> QED
      BY <3>2, <3>3
  <2>2. CASE Expand
    <3>1. \E v \in PrValue : prValues' = v /\ prOrders' = {ExpandTemplate(prTemplate, v, o) : o \in Orders(v)}
      BY <2>2, Zenon DEF Expand
    <3>2. UNCHANGED << prTemplate, prPrompts >>
      BY <2>2, Zenon DEF Expand
    <3>3. prTemplate' = prTemplate /\ prPrompts' = prPrompts
      BY <3>2
    <3>4. Expanded'
      BY <3>1, <3>3, Zenon DEF Expanded
    <3>5. Rendered'
      BY <3>3, Zenon DEF Rendered
    <3> QED
      BY <3>4, <3>5
  <2>3. CASE RenderExpeditionPrompt
    <3>1. \E d \in PrData : \E o \in SomeOrders :
             prPrompts' = << [data |-> d, text |-> ExpandTemplate(ExpeditionTemplate, ExpeditionVars(d), o)] >>
      BY <2>3, Zenon DEF RenderExpeditionPrompt
    <3>2. UNCHANGED << prTemplate, prOrders, prValues >>
      BY <2>3, Zenon DEF RenderExpeditionPrompt
    <3>3. prTemplate' = prTemplate /\ prOrders' = prOrders /\ prValues' = prValues
      BY <3>2
    <3>4. Expanded'
      BY <3>3, Zenon DEF Expanded
    <3>5. Rendered'
      BY <3>1, Zenon DEF Rendered
    <3> QED
      BY <3>4, <3>5
  <2>4. CASE UNCHANGED prVars
    <3>1. prTemplate' = prTemplate /\ prOrders' = prOrders /\ prValues' = prValues /\ prPrompts' = prPrompts
      BY <2>4 DEF prVars
    <3> QED
      BY <3>1, Zenon DEF Expanded, Rendered
  <2> QED
    BY <2>1, <2>2, <2>3, <2>4 DEF PrNext
<1> QED
  BY <1>1, <1>2, PTL DEF PrSpec

\* So an expansion is what the values say, and the order is no matter.
LEMMA ExpansionsSound ==
  ASSUME PrTypeOK, Expanded
  PROVE  ExpandsToValues /\ OrderIsNoMatter
<1>1. prTemplate \in Seq(Writable) /\ prValues \in PrValue
  <2>1. PrToken \subseteq Writable
    BY PrAssumption, TokensWritten
  <2>2. prTemplate \in Seq(PrToken) /\ prValues \in PrValue
    BY DEF PrTypeOK
  <2> HIDE DEF Writable
  <2> QED
    BY <2>1, <2>2
<1> DEFINE t == prTemplate
           v == prValues
           rs == {ExpandTemplate(t, v, o) : o \in Orders(v)}
           r == Spread(ProcessConditionals(t, v), Fill(v))
           q == Joined([i \in DOMAIN t |->
                  IF ~Stays(t, i, v) THEN << >>
                  ELSE IF t[i].kind = "var" /\ t[i].name \in DOMAIN v THEN v[t[i].name] ELSE << t[i] >>])
<1>2. rs = {r} /\ (Flat(t) => rs = {q})
  BY <1>1, AllOrdersAgree
<1>3. prOrders = {} \/ prOrders = rs
  BY DEF Expanded
<1>4. ExpandsToValues <=> ((prOrders # {} /\ Flat(t)) => prOrders = {q})
  BY DEF ExpandsToValues
<1> HIDE DEF rs, r, q
<1>5. ExpandsToValues
  BY <1>2, <1>3, <1>4
<1>6. OrderIsNoMatter
  <2>1. Cardinality({}) = 0 /\ Cardinality({r}) = 1
    BY FS_EmptySet, FS_Singleton
  <2>2. prOrders = {} \/ prOrders = {r}
    BY <1>2, <1>3
  <2> QED
    BY <2>1, <2>2 DEF OrderIsNoMatter
<1> QED
  BY <1>5, <1>6

\* So a prompt is complete.
LEMMA RenderedSound ==
  ASSUME Rendered
  PROVE  PromptIsComplete
<1>1. CASE prPrompts = << >>
  BY <1>1 DEF PromptIsComplete
<1>2. ASSUME NEW d \in PrData, NEW o \in SomeOrders,
             prPrompts = << [data |-> d, text |-> ExpandTemplate(ExpeditionTemplate, ExpeditionVars(d), o)] >>
      PROVE  PromptIsComplete
  <2> DEFINE x == ExpandTemplate(ExpeditionTemplate, ExpeditionVars(d), o)
  <2>1. x = Joined(Pieces(d))
    BY ExpansionIs
  <2>2. /\ \E k \in 0 .. Len(x) : IsPrefix(d.inbox, SubSeq(x, k + 1, Len(x)))
        /\ \E k \in 0 .. Len(x) : IsPrefix(d.context, SubSeq(x, k + 1, Len(x)))
        /\ d.contract <=> Word("glossary") \in ToSet(x)
        /\ d.wave => ToSet(x) \intersect OfLinear = {}
        /\ ~d.wave => ToSet(x) \intersect OfWave = {}
    BY <2>1, PromptComplete
  <2>3. prPrompts = << [data |-> d, text |-> x] >>
    BY <1>2
  <2> HIDE DEF x
  <2>4. DOMAIN prPrompts = {1} /\ prPrompts[1].data = d /\ prPrompts[1].text = x
    <3>1. 1 .. 1 = {1}
      OBVIOUS
    <3> QED
      BY <2>3, <3>1
  <2> HIDE DEF OfLinear, OfWave, Word, ToSet, IsPrefix
  <2> QED
    BY <2>2, <2>4 DEF PromptIsComplete
<1> QED
  BY <1>1, <1>2 DEF Rendered

\* A template expands to the tokens of the branches taken, every placeholder
\* replaced by its value as it is, whatever the order of the variables; and an
\* expedition's prompt holds its mails and its context word for word, the
\* glossary exactly when a contract asks for it, and nothing of the other
\* tracker (registry.go, expedition.go).
THEOREM PromptsAreSound == PrSpec => []PromptsSound
<1>1. PrTypeOK /\ Expanded /\ Rendered => PromptsSound
  BY ExpansionsSound, RenderedSound DEF PromptsSound
<1> QED
  BY <1>1, PromptTypes, PromptsKept, PTL

=============================================================================
