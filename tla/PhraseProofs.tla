---------------------------- MODULE PhraseProofs ----------------------------
(***************************************************************************)
(* The phrases, for any documents of numbered terms.  A candidate is       *)
(* counted at least as often as it occurs in each document, and just as    *)
(* often when what n-grams share are n-grams (CountsCoverOccurrences); and *)
(* once the counts are joined each has those of its own parts              *)
(* (PartsAreCounted).                                                      *)
(***************************************************************************)
EXTENDS Parts, FoldLemmas

-----------------------------------------------------------------------------
(* The order of the files of phrases: the terms at the first place that    *)
(* differs, or a beginning before what it is the beginning of.             *)
LexLess(s, t) ==
  \E n \in 1 .. Len(t) :
    /\ n <= Len(s) + 1 /\ \A m \in 1 .. n - 1 : s[m] = t[m]
    /\ n = Len(s) + 1 \/ s[n] < t[n]

(* It is a strict order of the sequences of numbers.                       *)
LEMMA LexOrders ==
  ASSUME NEW s \in Seq(Nat), NEW t \in Seq(Nat)
  PROVE  /\ ~LexLess(s, s)
         /\ s = t \/ LexLess(s, t) \/ LexLess(t, s)
         /\ \A r \in Seq(Nat) : LexLess(s, t) /\ LexLess(t, r) => LexLess(s, r)
<1>1. Len(s) \in Nat /\ Len(t) \in Nat
  OBVIOUS
<1>2. ASSUME NEW r \in Seq(Nat) PROVE \A n \in 1 .. Len(r) : r[n] \in Nat
  OBVIOUS
<1>3. ~LexLess(s, s)
  BY <1>1, <1>2 DEF LexLess
<1>4. ASSUME s # t PROVE LexLess(s, t) \/ LexLess(t, s)
  <2> DEFINE T == {n \in Nat \ {0} : n > Len(s) \/ n > Len(t) \/ s[n] # t[n]}
  <2>1. PICK n \in T : \A m \in T : n <= m
    <3>1. Len(s) + 1 \in T
      BY <1>1
    <3>2. T \in SUBSET Nat /\ T # {}
      BY <3>1
    <3> HIDE DEF T
    <3> QED BY <3>2, MinNat
  <2>2. \A m \in 1 .. n - 1 : m <= Len(s) /\ m <= Len(t) /\ s[m] = t[m]
    BY <1>1, <2>1
  <2>3. n <= Len(s) + 1 /\ n <= Len(t) + 1 /\ n \in Nat \ {0}
    <3>1. Len(s) + 1 \in T /\ Len(t) + 1 \in T
      BY <1>1
    <3> QED BY <2>1, <3>1
  <2>4. n <= Len(s) \/ n <= Len(t)
    <3> SUFFICES ASSUME n = Len(s) + 1, n = Len(t) + 1 PROVE FALSE
      BY <1>1, <2>3
    <3>1. Len(s) = Len(t) /\ \A m \in 1 .. Len(s) : s[m] = t[m]
      BY <1>1, <2>2
    <3> QED BY <1>4, <3>1
  <2>5. CASE n <= Len(s) /\ n <= Len(t)
    <3>1. s[n] # t[n] /\ s[n] \in Nat /\ t[n] \in Nat
      BY <1>1, <1>2, <2>1, <2>3, <2>5
    <3>2. s[n] < t[n] \/ t[n] < s[n]
      BY <3>1
    <3>3. n \in 1 .. Len(s) /\ n \in 1 .. Len(t)
      BY <1>1, <2>3, <2>5
    <3> QED BY <1>1, <2>2, <2>3, <3>2, <3>3 DEF LexLess
  <2>6. CASE n = Len(s) + 1 /\ n <= Len(t)
    BY <1>1, <2>2, <2>3, <2>6 DEF LexLess
  <2>7. CASE n = Len(t) + 1 /\ n <= Len(s)
    <3>1. n \in 1 .. Len(s) /\ n <= Len(t) + 1 /\ \A m \in 1 .. n - 1 : t[m] = s[m]
      BY <1>1, <2>2, <2>3, <2>7
    <3> QED BY <2>7, <3>1 DEF LexLess
  <2> HIDE DEF T
  <2>8. \/ n <= Len(s) /\ n <= Len(t)
        \/ n = Len(s) + 1 /\ n <= Len(t)
        \/ n = Len(t) + 1 /\ n <= Len(s)
    BY <1>1, <2>3, <2>4
  <2> QED BY <2>5, <2>6, <2>7, <2>8
<1>5. ASSUME NEW r \in Seq(Nat), LexLess(s, t), LexLess(t, r) PROVE LexLess(s, r)
  <2>1. PICK n \in 1 .. Len(t) :
          /\ n <= Len(s) + 1 /\ \A m \in 1 .. n - 1 : s[m] = t[m]
          /\ n = Len(s) + 1 \/ s[n] < t[n]
    BY <1>5 DEF LexLess
  <2>2. PICK k2 \in 1 .. Len(r) :
          /\ k2 <= Len(t) + 1 /\ \A m \in 1 .. k2 - 1 : t[m] = r[m]
          /\ k2 = Len(t) + 1 \/ t[k2] < r[k2]
    BY <1>5 DEF LexLess
  <2>3. Len(r) \in Nat
    OBVIOUS
  <2> DEFINE Differ(x) == x = Len(s) + 1 \/ s[x] < r[x]
             Same(x) == \A m \in 1 .. x - 1 : s[m] = r[m]
  <2>4. CASE n < k2
    <3>1. t[n] = r[n] /\ n \in 1 .. Len(r)
      BY <1>1, <2>1, <2>2, <2>3, <2>4
    <3>2. Same(n) /\ Differ(n)
      BY <1>1, <2>1, <2>2, <2>3, <2>4, <3>1
    <3> QED BY <2>1, <3>1, <3>2 DEF LexLess
  <2>5. CASE k2 < n
    <3>1. s[k2] = t[k2] /\ k2 \in 1 .. Len(t) /\ k2 <= Len(s) + 1 /\ k2 # Len(t) + 1
      BY <1>1, <2>1, <2>2, <2>3, <2>5
    <3>2. Same(k2) /\ Differ(k2)
      BY <1>1, <2>1, <2>2, <2>3, <2>5, <3>1
    <3> QED BY <2>1, <3>1, <3>2 DEF LexLess
  <2>6. CASE n = k2
    <3>1. t[n] < r[n] /\ n \in 1 .. Len(r)
      BY <1>1, <2>1, <2>2, <2>6
    <3>2. Same(n)
      BY <1>1, <2>1, <2>2, <2>6
    <3>3. Differ(n)
      <4>1. CASE n = Len(s) + 1
        BY <4>1
      <4>2. CASE n # Len(s) + 1
        <5>1. n \in 1 .. Len(s) /\ s[n] < t[n]
          <6>1. n \in Nat \ {0} /\ n <= Len(s) + 1
            BY <1>1, <2>1
          <6>2. n \in 1 .. Len(s)
            BY <1>1, <4>2, <6>1
          <6> QED BY <2>1, <4>2, <6>2
        <5>2. s[n] \in Nat /\ t[n] \in Nat /\ r[n] \in Nat
          BY <1>2, <3>1, <5>1
        <5>3. s[n] < r[n]
          <6>1. \A a, b, d \in Nat : a < b /\ b < d => a < d
            OBVIOUS
          <6> QED BY <3>1, <5>1, <5>2, <6>1
        <5> QED BY <5>3
      <4> QED BY <4>1, <4>2
    <3> QED BY <2>1, <3>1, <3>2, <3>3 DEF LexLess
  <2> QED BY <2>1, <2>2, <2>4, <2>5, <2>6
<1> QED BY <1>3, <1>4, <1>5

(* That is what the comparison of n-grams does (Before).                   *)
LEMMA BeforeIs ==
  ASSUME NEW x, NEW y, x.terms \in Seq(Nat), y.terms \in Seq(Nat)
  PROVE  Kpe!Before(x, y) <=> LexLess(x.terms, y.terms) \/ (x.terms = y.terms /\ x.docid < y.docid)
<1> DEFINE s == x.terms
           t == y.terms
           IsStart == Len(s) <= Len(t) /\ SubSeq(s, 1, Len(s)) = SubSeq(t, 1, Len(s)) /\ s # t
           Differs == \E n \in DOMAIN s \cap DOMAIN t :
                        SubSeq(s, 1, n - 1) = SubSeq(t, 1, n - 1) /\ s[n] < t[n]
<1>1. Kpe!Before(x, y) <=> (IsStart \/ Differs) \/ (s = t /\ x.docid < y.docid)
  BY DEF Kpe!Before, Kpe!IsStrictPrefix, Kpe!IsPrefix
<1>2. Len(s) \in Nat /\ Len(t) \in Nat /\ DOMAIN s = 1 .. Len(s) /\ DOMAIN t = 1 .. Len(t)
  OBVIOUS
<1>3. ASSUME NEW n \in Nat, n <= Len(s), n <= Len(t)
      PROVE  SubSeq(s, 1, n) = SubSeq(t, 1, n) <=> \A m \in 1 .. n : s[m] = t[m]
  <2>1. SubSeq(s, 1, n) = [m \in 1 .. n |-> s[m]] /\ SubSeq(t, 1, n) = [m \in 1 .. n |-> t[m]]
    BY <1>2, <1>3
  <2> HIDE DEF s, t
  <2> QED BY <2>1
<1>4. ASSUME IsStart PROVE LexLess(s, t)
  <2>1. \A m \in 1 .. Len(s) : s[m] = t[m]
    BY <1>2, <1>3, <1>4
  <2>2. Len(s) # Len(t)
    <3> SUFFICES ASSUME Len(s) = Len(t) PROVE FALSE
      OBVIOUS
    <3>1. s # t /\ s \in Seq(Nat) /\ t \in Seq(Nat)
      BY <1>4
    <3> HIDE DEF s, t
    <3>2. s = [m \in 1 .. Len(s) |-> s[m]] /\ t = [m \in 1 .. Len(t) |-> t[m]]
      BY <3>1
    <3> QED BY <2>1, <3>1, <3>2
  <2>3. Len(s) + 1 \in 1 .. Len(t)
    BY <1>2, <1>4, <2>2
  <2> HIDE DEF s, t
  <2> QED BY <1>2, <2>1, <2>3 DEF LexLess
<1>5. ASSUME Differs PROVE LexLess(s, t)
  <2>1. PICK n \in DOMAIN s \cap DOMAIN t :
          SubSeq(s, 1, n - 1) = SubSeq(t, 1, n - 1) /\ s[n] < t[n]
    BY <1>5
  <2> HIDE DEF s, t
  <2>2. n - 1 \in Nat /\ n - 1 <= Len(s) /\ n - 1 <= Len(t) /\ n \in 1 .. Len(t) /\ n <= Len(s) + 1
    BY <1>2
  <2>3. \A m \in 1 .. n - 1 : s[m] = t[m]
    BY <1>3, <2>1, <2>2
  <2> QED BY <2>1, <2>2, <2>3 DEF LexLess
<1>6. ASSUME LexLess(s, t) PROVE IsStart \/ Differs
  <2>1. PICK n \in 1 .. Len(t) :
          /\ n <= Len(s) + 1 /\ \A m \in 1 .. n - 1 : s[m] = t[m]
          /\ n = Len(s) + 1 \/ s[n] < t[n]
    BY <1>6 DEF LexLess
  <2> HIDE DEF s, t
  <2>2. SubSeq(s, 1, n - 1) = SubSeq(t, 1, n - 1)
    <3>1. n - 1 \in Nat /\ n - 1 <= Len(s) /\ n - 1 <= Len(t)
      BY <1>2, <2>1
    <3> QED BY <1>3, <2>1, <3>1
  <2>3. CASE n = Len(s) + 1
    <3>1. Len(s) < Len(t) /\ n - 1 = Len(s)
      BY <1>2, <2>1, <2>3
    <3>2. s # t
      BY <1>2, <3>1
    <3> QED BY <1>2, <2>2, <3>1, <3>2
  <2>4. CASE n # Len(s) + 1
    <3>1. n \in DOMAIN s \cap DOMAIN t /\ s[n] < t[n]
      BY <1>2, <2>1, <2>4
    <3> QED BY <2>2, <3>1
  <2> QED BY <2>3, <2>4
<1> QED BY <1>1, <1>4, <1>5, <1>6

LEMMA KpeCounts == \A S : Kpe!Cardinality(S) = Cardinality(S)
BY DEF Kpe!Cardinality, Cardinality

RankedBy(S, above) == [n \in 1 .. Kpe!Cardinality(S) |-> CHOOSE x \in S : above[x] = n - 1]
RanksOf(above, S, R) == \A x \in S : above[x] = Kpe!Cardinality({y \in S : <<y, x>> \in R})

(* What is sorted is listed in the order (Sorted).                         *)
LEMMA SortedIsRanked ==
  ASSUME NEW S, IsFiniteSet(S), NEW R, Orders(R, S), NEW above, RanksOf(above, S, R)
  PROVE  Ranked(RankedBy(S, above), R, S) /\ Cardinality(S) \in Nat
<1> DEFINE r == RankedBy(S, above)
           P(n, x) == above[x] = n - 1
           Q(n, x) == Cardinality(Below(R, S, x)) = n - 1
<1>1. \A n, x : x \in S => (P(n, x) <=> Q(n, x))
  <2>1. \A x \in S : {y \in S : <<y, x>> \in R} = Below(R, S, x)
    BY DEF Below
  <2> QED BY <2>1, KpeCounts DEF RanksOf
<1>2. \A n : (CHOOSE x \in S : P(n, x)) = (CHOOSE x \in S : Q(n, x))
  <2> HIDE DEF P, Q
  <2> QED BY <1>1
<1>3. r = [n \in 1 .. Cardinality(S) |-> CHOOSE x \in S : P(n, x)]
  BY KpeCounts, Zenon DEF RankedBy
<1> HIDE DEF P, r
<1>4. r = [n \in 1 .. Cardinality(S) |-> CHOOSE x \in S : Q(n, x)]
  <2> HIDE DEF Q
  <2> QED BY <1>2, <1>3
<1>5. Ranked(r, R, S)
  BY <1>4, RanksOrder
<1> QED BY <1>5, FS_CardinalityType DEF r

(* The least of a set of numbers.                                          *)
LEMMA LeastIs ==
  ASSUME NEW T \in SUBSET Nat, T # {}
  PROVE  Kpe!Min(T) \in T /\ \A n \in T : Kpe!Min(T) <= n
BY MinNat DEF Kpe!Min

(* The n-grams of a text are stretches of it.                              *)
Ngrams == [terms : Seq(Nat) \ {<<>>}, docid : Nat]

LEMMA NgramsAre ==
  ASSUME NEW text \in Seq(Nat), NEW docid \in Nat
  PROVE  Kpe!NgramsOf(text, docid) \in Seq(Ngrams)
<1> DEFINE Edge(n) == n \notin DOMAIN text \/ text[n] = 0
           Split(n) == text[n] \in SplitTerms
           starts == {n \in DOMAIN text : ~Edge(n) /\ (Edge(n - 1) \/ Split(n))}
           Ends(s) == {n \in s .. Len(text) : Edge(n + 1) \/ (n > s /\ Split(n))}
           Begin(fr) == IF text[fr[1]] \in SplitTerms THEN fr[1] + 1 ELSE fr[1]
           End(fr) == IF text[fr[2]] \in SplitTerms THEN fr[2] - 1 ELSE fr[2]
           Cut(fr, i) == Kpe!Min({End(fr), i + max_phrase_len_})
           suffixes == UNION {{<<i, Cut(fr, i)>> : i \in Begin(fr) .. End(fr)}
                                : fr \in Kpe!Fragments(text)}
           D == 1 .. Len(text)
           First(x, y) == x[1] < y[1] \/ (x[1] = y[1] /\ x[2] < y[2])
           R == {p \in suffixes \X suffixes : First(p[1], p[2])}
           above == [x \in suffixes |-> Kpe!Cardinality({y \in suffixes : First(y, x)})]
           order == [n \in 1 .. Kpe!Cardinality(suffixes) |-> CHOOSE x \in suffixes : above[x] = n - 1]
<1>1. Kpe!NgramsOf(text, docid) =
        [n \in DOMAIN order |-> [terms |-> SubSeq(text, order[n][1], order[n][2]), docid |-> docid]]
  BY DEF Kpe!NgramsOf, Kpe!Sorted
<1>2. Kpe!Fragments(text) = {<<s, Kpe!Min(Ends(s))>> : s \in starts}
  BY DEF Kpe!Fragments
<1>3. Len(text) \in Nat /\ DOMAIN text = D
  OBVIOUS
<1>4. ASSUME NEW s \in starts PROVE Kpe!Min(Ends(s)) \in s .. Len(text)
  <2>1. s \in D
    BY <1>3
  <2>2. Len(text) \in Ends(s)
    BY <1>3, <2>1
  <2>3. Ends(s) \in SUBSET Nat /\ Ends(s) \in SUBSET (s .. Len(text)) /\ Ends(s) # {}
    BY <1>3, <2>1, <2>2
  <2> HIDE DEF Ends
  <2>4. Kpe!Min(Ends(s)) \in Ends(s)
    BY <2>3, LeastIs
  <2> QED BY <2>3, <2>4
<1>5. ASSUME NEW fr \in Kpe!Fragments(text) PROVE fr[1] \in D /\ fr[2] \in D
  <2>1. PICK s \in starts : fr = <<s, Kpe!Min(Ends(s))>>
    BY <1>2
  <2>2. s \in D /\ Kpe!Min(Ends(s)) \in s .. Len(text)
    BY <1>3, <1>4
  <2> HIDE DEF Ends, starts
  <2> QED BY <1>3, <2>1, <2>2
<1>6. ASSUME NEW fr \in Kpe!Fragments(text), NEW i \in Begin(fr) .. End(fr)
      PROVE  i \in D /\ Cut(fr, i) \in D /\ i <= Cut(fr, i)
  <2>1. fr[1] \in D /\ fr[2] \in D
    BY <1>5
  <2>2. Begin(fr) \in Nat \ {0} /\ End(fr) \in Nat /\ End(fr) <= Len(text)
    <3>1. \A n \in D : n \in Nat \ {0} /\ n + 1 \in Nat \ {0} /\ n - 1 \in Nat /\ n <= Len(text) /\ n - 1 <= Len(text)
      BY <1>3
    <3>2. Begin(fr) \in {fr[1], fr[1] + 1} /\ End(fr) \in {fr[2], fr[2] - 1}
      OBVIOUS
    <3> HIDE DEF Begin, End, D
    <3> QED BY <2>1, <3>1, <3>2
  <2> HIDE DEF Begin, End
  <2>3. i \in Nat \ {0} /\ i <= End(fr)
    BY <2>2
  <2> DEFINE T == {End(fr), i + max_phrase_len_}
  <2>4. T \in SUBSET Nat /\ T # {} /\ \A n \in T : n >= i
    BY <2>2, <2>3, PhrasesAssumption
  <2>5. Cut(fr, i) \in T /\ Cut(fr, i) <= End(fr)
    BY <2>4, LeastIs
  <2>6. Cut(fr, i) \in Nat /\ Cut(fr, i) >= i
    <3> HIDE DEF T, Cut
    <3> QED BY <2>4, <2>5
  <2> HIDE DEF T, Cut
  <2> QED BY <1>3, <2>2, <2>3, <2>5, <2>6
<1> DEFINE Stretches == {x \in D \X D : x[1] <= x[2]}
<1>7. suffixes \in SUBSET Stretches
  <2> HIDE DEF Begin, End, Cut, D
  <2>1. \A fr \in Kpe!Fragments(text) : \A i \in Begin(fr) .. End(fr) : <<i, Cut(fr, i)>> \in Stretches
    BY <1>6
  <2> HIDE DEF Stretches
  <2> QED BY <2>1
<1>8. IsFiniteSet(suffixes)
  <2>1. IsFiniteSet(D)
    BY <1>3, FS_Interval
  <2> HIDE DEF D, suffixes
  <2>2. IsFiniteSet(D \X D)
    BY <2>1, FS_Product
  <2>3. suffixes \subseteq D \X D
    BY <1>7
  <2> QED BY <2>2, <2>3, FS_Subset
<1>9. Orders(R, suffixes)
  <2>1. \A x \in suffixes : x = <<x[1], x[2]>> /\ x[1] \in Int /\ x[2] \in Int
    <3> HIDE DEF suffixes
    <3> QED BY <1>7
  <2> HIDE DEF suffixes
  <2>2. \A x, y \in suffixes : <<x, y>> \in R <=> First(x, y)
    OBVIOUS
  <2>3. \A x \in suffixes : ~First(x, x)
    BY <2>1
  <2>4. \A x, y \in suffixes : x = y \/ First(x, y) \/ First(y, x)
    BY <2>1
  <2>5. \A x, y, z \in suffixes : First(x, y) /\ First(y, z) => First(x, z)
    BY <2>1
  <2> HIDE DEF R, First
  <2> QED BY <2>2, <2>3, <2>4, <2>5 DEF Orders
<1>10. Ranked(order, R, suffixes) /\ Cardinality(suffixes) \in Nat
  <2> HIDE DEF suffixes
  <2>1. \A x \in suffixes : {y \in suffixes : <<y, x>> \in R} = {y \in suffixes : First(y, x)}
    OBVIOUS
  <2>2. \A x \in suffixes : above[x] = Kpe!Cardinality({y \in suffixes : <<y, x>> \in R})
    <3> HIDE DEF R, First
    <3> QED BY <2>1
  <2> HIDE DEF R, above
  <2>3. RanksOf(above, suffixes, R)
    BY <2>2 DEF RanksOf
  <2>4. order = RankedBy(suffixes, above)
    BY DEF RankedBy
  <2> HIDE DEF order
  <2> QED BY <1>8, <1>9, <2>3, <2>4, SortedIsRanked
<1>11. order \in [1 .. Cardinality(suffixes) -> Stretches]
  <2> HIDE DEF order, suffixes, R, Stretches
  <2> QED BY <1>7, <1>10 DEF Ranked
<1> HIDE DEF order, suffixes
<1>12. ASSUME NEW n \in 1 .. Cardinality(suffixes)
       PROVE  [terms |-> SubSeq(text, order[n][1], order[n][2]), docid |-> docid] \in Ngrams
  <2>1. order[n][1] \in D /\ order[n][2] \in D /\ order[n][1] <= order[n][2]
    BY <1>11
  <2>2. ASSUME NEW a \in D, NEW b \in D, a <= b
        PROVE  SubSeq(text, a, b) \in Seq(Nat) /\ Len(SubSeq(text, a, b)) > 0
    BY <1>3, <2>2
  <2>3. \A t \in Seq(Nat) : Len(t) > 0 => t # <<>>
    OBVIOUS
  <2>4. SubSeq(text, order[n][1], order[n][2]) \in Seq(Nat) \ {<<>>}
    BY <2>1, <2>2, <2>3
  <2> QED BY <2>4 DEF Ngrams
<1>13. DOMAIN order = 1 .. Cardinality(suffixes)
  BY <1>11
<1> QED BY <1>1, <1>10, <1>12, <1>13

-----------------------------------------------------------------------------
(* Reading the file.                                                       *)
FileOrder(s) == {p \in (DOMAIN s) \X (DOMAIN s) :
                   Kpe!Before(s[p[1]], s[p[2]]) \/ (s[p[1]] = s[p[2]] /\ p[1] < p[2])}

LEMMA FileOrderIs ==
  ASSUME NEW s, NEW m \in DOMAIN s, NEW n \in DOMAIN s
  PROVE  <<m, n>> \in FileOrder(s) <=> Kpe!Before(s[m], s[n]) \/ (s[m] = s[n] /\ m < n)
<1> DEFINE D == DOMAIN s
           P(p) == Kpe!Before(s[p[1]], s[p[2]]) \/ (s[p[1]] = s[p[2]] /\ p[1] < p[2])
           q == <<m, n>>
<1>1. q \in D \X D /\ q[1] = m /\ q[2] = n
  OBVIOUS
<1>2. q \in FileOrder(s) <=> q \in D \X D /\ P(q)
  BY Zenon DEF FileOrder
<1> HIDE DEF q, D
<1>3. P(q) <=> Kpe!Before(s[m], s[n]) \/ (s[m] = s[n] /\ m < n)
  BY <1>1, Zenon
<1> QED BY <1>1, <1>2, <1>3 DEF q

(* N-grams in the order of the file, equal ones by position.               *)
LEMMA FileOrders ==
  ASSUME NEW s \in Seq(Ngrams)
  PROVE  Orders(FileOrder(s), DOMAIN s)
<1> DEFINE D == DOMAIN s
           First(m, n) == Kpe!Before(s[m], s[n]) \/ (s[m] = s[n] /\ m < n)
<1>1. \A n \in D : s[n] \in Ngrams /\ n \in Int
  OBVIOUS
<1>2. \A x \in Ngrams : x.terms \in Seq(Nat) /\ x.docid \in Nat /\ x = [terms |-> x.terms, docid |-> x.docid]
  BY DEF Ngrams
<1>3. \A x, y \in Ngrams : Kpe!Before(x, y) <=> LexLess(x.terms, y.terms) \/ (x.terms = y.terms /\ x.docid < y.docid)
  BY <1>2, BeforeIs
<1>4. \A x \in Ngrams : ~Kpe!Before(x, x)
  BY <1>2, <1>3, LexOrders
<1>5. \A x, y \in Ngrams : x = y \/ Kpe!Before(x, y) \/ Kpe!Before(y, x)
  <2> SUFFICES ASSUME NEW x \in Ngrams, NEW y \in Ngrams
               PROVE  x = y \/ Kpe!Before(x, y) \/ Kpe!Before(y, x)
    OBVIOUS
  <2>1. CASE x.terms # y.terms
    BY <1>2, <1>3, <2>1, LexOrders
  <2>2. CASE x.terms = y.terms
    <3>1. x.docid < y.docid \/ y.docid < x.docid \/ x.docid = y.docid
      BY <1>2
    <3> QED BY <1>2, <1>3, <2>2, <3>1
  <2> QED BY <2>1, <2>2
<1>6. \A x, y, z \in Ngrams : Kpe!Before(x, y) /\ Kpe!Before(y, z) => Kpe!Before(x, z)
  <2> SUFFICES ASSUME NEW x \in Ngrams, NEW y \in Ngrams, NEW z \in Ngrams,
                      Kpe!Before(x, y), Kpe!Before(y, z)
               PROVE  Kpe!Before(x, z)
    OBVIOUS
  <2>1. /\ LexLess(x.terms, y.terms) \/ (x.terms = y.terms /\ x.docid < y.docid)
        /\ LexLess(y.terms, z.terms) \/ (y.terms = z.terms /\ y.docid < z.docid)
    BY <1>3
  <2>2. LexLess(x.terms, y.terms) /\ LexLess(y.terms, z.terms) => LexLess(x.terms, z.terms)
    BY <1>2, LexOrders
  <2>3. x.docid < y.docid /\ y.docid < z.docid => x.docid < z.docid
    BY <1>2
  <2>4. LexLess(x.terms, z.terms) \/ (x.terms = z.terms /\ x.docid < z.docid)
    BY <2>1, <2>2, <2>3
  <2> QED BY <1>3, <2>4
<1>7. \A m, n \in D : <<m, n>> \in FileOrder(s) <=> First(m, n)
  BY FileOrderIs
<1>8. \A m \in D : ~First(m, m)
  BY <1>1, <1>4
<1>9. \A m, n \in D : m = n \/ First(m, n) \/ First(n, m)
  BY <1>1, <1>5
<1>10. \A l, m, n \in D : First(l, m) /\ First(m, n) => First(l, n)
  BY <1>1, <1>6
<1> HIDE DEF First, D
<1>11. Orders(FileOrder(s), D)
  BY <1>7, <1>8, <1>9, <1>10 DEF Orders
<1> QED BY <1>11 DEF D

Ascending(s) ==
  \A m, n \in DOMAIN s : m < n => LexLess(s[m].terms, s[n].terms) \/ s[m].terms = s[n].terms

(* The sorted file has the n-grams that were written.                      *)
LEMMA ClosedFile ==
  ASSUME ngrams \in Seq(Ngrams), Kpe!Close
  PROVE  ngrams' \in Seq(Ngrams) /\ Len(ngrams') = Len(ngrams) /\ Ascending(ngrams')
<1> DEFINE D == DOMAIN ngrams
           R == FileOrder(ngrams)
           above == [n \in D |-> Kpe!Cardinality({m \in D :
                       Kpe!Before(ngrams[m], ngrams[n]) \/ (ngrams[m] = ngrams[n] /\ m < n)})]
           order == [n \in 1 .. Kpe!Cardinality(D) |-> CHOOSE m \in D : above[m] = n - 1]
<1>1. ngrams' = [n \in D |-> ngrams[order[n]]]
  BY DEF Kpe!Close, Kpe!Sorted
<1>2. D = 1 .. Len(ngrams) /\ Len(ngrams) \in Nat
  OBVIOUS
<1>3. IsFiniteSet(D) /\ Cardinality(D) = Len(ngrams)
  BY <1>2, FS_Interval
<1>4. \A n \in D : above[n] = Kpe!Cardinality({m \in D : <<m, n>> \in R})
  <2>1. \A n \in D : {m \in D : <<m, n>> \in R} = {m \in D :
                       Kpe!Before(ngrams[m], ngrams[n]) \/ (ngrams[m] = ngrams[n] /\ m < n)}
    <3>1. \A m, n \in D : <<m, n>> \in R <=>
            Kpe!Before(ngrams[m], ngrams[n]) \/ (ngrams[m] = ngrams[n] /\ m < n)
      BY FileOrderIs
    <3> HIDE DEF D, R
    <3> QED BY <3>1
  <2> HIDE DEF D, R
  <2> QED BY <2>1
<1> HIDE DEF above, R
<1>5. Ranked(order, R, D)
  <2>1. Orders(R, D)
    BY FileOrders DEF R
  <2> HIDE DEF D
  <2>2. order = RankedBy(D, above)
    BY DEF RankedBy
  <2>3. RanksOf(above, D, R) /\ IsFiniteSet(D)
    BY <1>3, <1>4 DEF RanksOf
  <2> HIDE DEF order
  <2> QED BY <2>1, <2>2, <2>3, SortedIsRanked
<1>6. order \in [D -> D]
  BY <1>2, <1>3, <1>5 DEF Ranked
<1> HIDE DEF order
<1>7. ngrams' \in [D -> Ngrams]
  <2>1. \A n \in D : ngrams[order[n]] \in Ngrams
    BY <1>6
  <2> HIDE DEF D
  <2> QED BY <1>1, <2>1
<1>8. Ascending(ngrams')
  <2> SUFFICES ASSUME NEW m \in D, NEW n \in D, m < n
               PROVE  \/ LexLess(ngrams'[m].terms, ngrams'[n].terms)
                      \/ ngrams'[m].terms = ngrams'[n].terms
    BY <1>7 DEF Ascending
  <2> DEFINE a == order[m]
             b == order[n]
  <2>1. a \in D /\ b \in D /\ ngrams'[m] = ngrams[a] /\ ngrams'[n] = ngrams[b]
    BY <1>1, <1>6
  <2>2. <<a, b>> \in R
    BY <1>2, <1>3, <1>5 DEF Ranked
  <2> HIDE DEF a, b
  <2>3. Kpe!Before(ngrams[a], ngrams[b]) \/ ngrams[a] = ngrams[b]
    BY <2>1, <2>2, FileOrderIs DEF R
  <2>4. ngrams[a].terms \in Seq(Nat) /\ ngrams[b].terms \in Seq(Nat)
    <3>1. ngrams[a] \in Ngrams /\ ngrams[b] \in Ngrams
      BY <2>1
    <3> QED BY <3>1 DEF Ngrams
  <2> HIDE DEF D
  <2> QED BY <2>1, <2>3, <2>4, BeforeIs
<1> QED BY <1>2, <1>7, <1>8

(* Of the n-grams that are processed together nothing but their own terms  *)
(* get to the candidates (GetCandidate_).                                  *)
LEMMA AccumulatedAre ==
  ASSUME NEW X, NEW s \in Seq(X)
  PROVE  /\ IsFiniteSet(Kpe!Accumulated(s))
         /\ \A item \in Kpe!Accumulated(s) : \E x \in X : item.terms = x.terms
<1> DEFINE D == DOMAIN s
           popped(m) == Kpe!Min({n \in m + 1 .. Len(s) : s[n].inc <= s[m].inc} \cup {Len(s) + 1})
           First(m, n) == popped(m) < popped(n) \/ (popped(m) = popped(n) /\ m > n)
           R == {p \in D \X D : First(p[1], p[2])}
           above == [n \in D |-> Kpe!Cardinality({m \in D : First(m, n)})]
           order == [n \in 1 .. Kpe!Cardinality(D) |-> CHOOSE m \in D : above[m] = n - 1]
<1>1. Kpe!PostOrder(s) = order
  BY DEF Kpe!PostOrder, Kpe!Sorted
<1>2. D = 1 .. Len(s) /\ Len(s) \in Nat /\ \A n \in D : s[n] \in X
  OBVIOUS
<1>3. IsFiniteSet(D) /\ Cardinality(D) = Len(s)
  BY <1>2, FS_Interval
<1>4. \A n \in D : popped(n) \in Nat
  <2> SUFFICES ASSUME NEW m \in D PROVE popped(m) \in Nat
    OBVIOUS
  <2> DEFINE T == {n \in m + 1 .. Len(s) : s[n].inc <= s[m].inc} \cup {Len(s) + 1}
  <2>1. T \in SUBSET Nat /\ T # {}
    BY <1>2
  <2> HIDE DEF T
  <2>2. Kpe!Min(T) \in Nat
    BY <2>1, LeastIs
  <2> QED BY <2>2 DEF T
<1> HIDE DEF popped
<1>5. Orders(R, D)
  <2>1. \A m, n \in D : <<m, n>> \in R <=> First(m, n)
    OBVIOUS
  <2>2. \A m \in D : m \in Int
    BY <1>2
  <2> HIDE DEF D
  <2>3. \A m \in D : ~First(m, m)
    BY <1>4, <2>2
  <2>4. \A m, n \in D : m = n \/ First(m, n) \/ First(n, m)
    BY <1>4, <2>2
  <2>5. \A l, m, n \in D : First(l, m) /\ First(m, n) => First(l, n)
    BY <1>4, <2>2
  <2> HIDE DEF R, First
  <2> QED BY <2>1, <2>3, <2>4, <2>5 DEF Orders
<1> HIDE DEF First
<1>6. \A n \in D : above[n] = Kpe!Cardinality({m \in D : <<m, n>> \in R})
  <2>1. \A n \in D : {m \in D : <<m, n>> \in R} = {m \in D : First(m, n)}
    OBVIOUS
  <2> HIDE DEF D, R
  <2> QED BY <2>1
<1>7. order \in [D -> D]
  <2> HIDE DEF above, R
  <2>1. Ranked(order, R, D)
    <3> HIDE DEF D
    <3>1. order = RankedBy(D, above)
      BY DEF RankedBy
    <3>2. RanksOf(above, D, R) /\ IsFiniteSet(D)
      BY <1>3, <1>6 DEF RanksOf
    <3> HIDE DEF order
    <3> QED BY <1>5, <3>1, <3>2, SortedIsRanked
  <2> HIDE DEF order
  <2> QED BY <1>2, <1>3, <2>1 DEF Ranked
<1> HIDE DEF order
<1>8. \E docs : Kpe!Accumulated(s) = {[terms |-> s[order[m]].terms, docs |-> docs[m]] : m \in D}
  BY <1>1 DEF Kpe!Accumulated
<1>9. PICK docs : Kpe!Accumulated(s) = {[terms |-> s[order[m]].terms, docs |-> docs[m]] : m \in D}
  BY <1>8
<1> HIDE DEF D
<1>10. IsFiniteSet(Kpe!Accumulated(s))
  <2> DEFINE item(m) == [terms |-> s[order[m]].terms, docs |-> docs[m]]
  <2>1. IsFiniteSet({item(m) : m \in D})
    <3> DEFINE fn == [m \in D |-> item(m)]
               Y == {item(m) : m \in D}
    <3>1. fn \in Surjection(D, Y)
      <4> HIDE DEF item
      <4> QED BY DEF Surjection
    <3> HIDE DEF fn, Y
    <3>2. IsFiniteSet(Y)
      BY <1>3, <3>1, FS_Surjection
    <3> QED BY <3>2 DEF Y
  <2> QED BY <1>9, <2>1
<1>11. \A item \in Kpe!Accumulated(s) : \E x \in X : item.terms = x.terms
  <2> SUFFICES ASSUME NEW item \in Kpe!Accumulated(s) PROVE \E x \in X : item.terms = x.terms
    OBVIOUS
  <2>1. PICK m \in D : item = [terms |-> s[order[m]].terms, docs |-> docs[m]]
    BY <1>9
  <2>2. s[order[m]] \in X /\ item.terms = s[order[m]].terms
    BY <1>2, <1>7, <2>1
  <2> QED BY <2>2
<1> QED BY <1>10, <1>11

-----------------------------------------------------------------------------
(* What is merged: for each candidate the counts of its parts, one of each *)
(* kind at most.                                                           *)
PartOf(terms, n) ==
  IF n = 1 THEN Kpe!Front(terms) ELSE IF n = 2 THEN Tail(terms)
  ELSE IF n = 3 THEN <<Head(terms)>> ELSE <<Kpe!Last(terms)>>

Count(c, n) == [key |-> c.terms, n |-> n, count |-> Kpe!CountOf(PartOf(c.terms, n))]

CandidatesOK == IsFiniteSet(candidates) /\ \A c \in candidates : c.terms \in Seq(Nat)

(* Which part a candidate has of each kind.                                *)
LEMMA PartsAre ==
  ASSUME NEW terms, NEW part \in Kpe!Parts(terms)
  PROVE  /\ part[1] \in 1 .. 4 /\ part[2] = PartOf(terms, part[1])
         /\ Len(terms) >= 2 \/ Len(terms) >= 3
<1>1. /\ \/ Len(terms) >= 2 /\ part \in {<<1, Kpe!Front(terms)>>, <<2, Tail(terms)>>}
         \/ Len(terms) >= 3 /\ part \in {<<3, <<Head(terms)>>>>, <<4, <<Kpe!Last(terms)>>>>}
  BY DEF Kpe!Parts
<1> DEFINE P(n) == part = <<n, PartOf(terms, n)>>
<1>2. P(1) \/ P(2) \/ P(3) \/ P(4)
  BY <1>1 DEF PartOf
<1>3. ASSUME NEW n \in 1 .. 4, P(n) PROVE part[1] \in 1 .. 4 /\ part[2] = PartOf(terms, part[1])
  BY <1>3
<1> HIDE DEF P
<1> QED BY <1>1, <1>2, <1>3

(* The counts to merge are finite in number, and one for each key and      *)
(* kind.                                                                   *)
LEMMA MergedAre ==
  ASSUME CandidatesOK
  PROVE  /\ IsFiniteSet(Kpe!hh)
         /\ \A x \in Kpe!hh : /\ x.key \in Seq(Nat) /\ x.key # <<>> /\ x.n \in 1 .. 4
                              /\ x.count = Kpe!CountOf(PartOf(x.key, x.n))
                              /\ x = [key |-> x.key, n |-> x.n, count |-> x.count]
         /\ \A c \in candidates : \A part \in Kpe!Parts(c.terms) :
              \E x \in Kpe!hh : x.key = c.terms /\ x.n = part[1] /\ x.count = Kpe!CountOf(part[2])
<1>1. \A x \in Kpe!hh : \E c \in candidates, n \in 1 .. 4 :
        x = Count(c, n) /\ (Len(c.terms) >= 2 \/ Len(c.terms) >= 3)
  <2> SUFFICES ASSUME NEW x \in Kpe!hh
               PROVE  \E c \in candidates, n \in 1 .. 4 :
                        x = Count(c, n) /\ (Len(c.terms) >= 2 \/ Len(c.terms) >= 3)
    OBVIOUS
  <2>1. PICK c \in candidates : \E part \in Kpe!Parts(c.terms) :
          x = [key |-> c.terms, n |-> part[1], count |-> Kpe!CountOf(part[2])]
    BY DEF Kpe!hh
  <2>2. PICK part \in Kpe!Parts(c.terms) :
          x = [key |-> c.terms, n |-> part[1], count |-> Kpe!CountOf(part[2])]
    BY <2>1
  <2>3. /\ part[1] \in 1 .. 4 /\ part[2] = PartOf(c.terms, part[1])
        /\ Len(c.terms) >= 2 \/ Len(c.terms) >= 3
    BY PartsAre
  <2>4. x = Count(c, part[1])
    BY <2>2, <2>3 DEF Count
  <2> QED BY <2>3, <2>4
<1>2. \A x \in Kpe!hh : /\ x.key \in Seq(Nat) /\ x.key # <<>> /\ x.n \in 1 .. 4
                        /\ x.count = Kpe!CountOf(PartOf(x.key, x.n))
                        /\ x = [key |-> x.key, n |-> x.n, count |-> x.count]
  <2> SUFFICES ASSUME NEW c \in candidates, NEW n \in 1 .. 4, NEW x, x = Count(c, n),
                      Len(c.terms) >= 2 \/ Len(c.terms) >= 3
               PROVE  /\ x.key \in Seq(Nat) /\ x.key # <<>> /\ x.n \in 1 .. 4
                      /\ x.count = Kpe!CountOf(PartOf(x.key, x.n))
                      /\ x = [key |-> x.key, n |-> x.n, count |-> x.count]
    BY <1>1
  <2>1. x.key = c.terms /\ x.n = n /\ x.count = Kpe!CountOf(PartOf(c.terms, n))
        /\ x = [key |-> x.key, n |-> x.n, count |-> x.count]
    BY DEF Count
  <2>2. c.terms \in Seq(Nat)
    BY DEF CandidatesOK
  <2>3. c.terms # <<>>
    <3> SUFFICES ASSUME c.terms = <<>> PROVE FALSE
      OBVIOUS
    <3>1. Len(<<>>) = 0
      OBVIOUS
    <3> QED BY <3>1
  <2> QED BY <2>1, <2>2, <2>3
<1>3. IsFiniteSet(Kpe!hh)
  <2> DEFINE D == candidates \X (1 .. 4)
             fn == [p \in D |-> Count(p[1], p[2])]
             Y == {Count(p[1], p[2]) : p \in D}
  <2>1. IsFiniteSet(D)
    <3>1. IsFiniteSet(1 .. 4)
      <4>1. 1 \in Int /\ 4 \in Int
        OBVIOUS
      <4> QED BY <4>1, FS_Interval, Zenon
    <3> QED BY <3>1, FS_Product DEF CandidatesOK
  <2>2. Kpe!hh \in SUBSET Y
    <3> SUFFICES ASSUME NEW x \in Kpe!hh PROVE x \in Y
      OBVIOUS
    <3>1. PICK c \in candidates, n \in 1 .. 4 : x = Count(c, n)
      BY <1>1
    <3>2. <<c, n>> \in D /\ <<c, n>>[1] = c /\ <<c, n>>[2] = n
      OBVIOUS
    <3> HIDE DEF D
    <3> QED BY <3>1, <3>2
  <2> HIDE DEF D
  <2>3. fn \in Surjection(D, Y)
    BY DEF Surjection
  <2> HIDE DEF fn, Y
  <2>4. IsFiniteSet(Y)
    BY <2>1, <2>3, FS_Surjection
  <2> QED BY <2>2, <2>4, FS_Subset
<1>4. ASSUME NEW c \in candidates, NEW part \in Kpe!Parts(c.terms)
      PROVE  \E x \in Kpe!hh : x.key = c.terms /\ x.n = part[1] /\ x.count = Kpe!CountOf(part[2])
  <2> DEFINE x == [key |-> c.terms, n |-> part[1], count |-> Kpe!CountOf(part[2])]
  <2>1. x \in Kpe!hh
    BY DEF Kpe!hh
  <2>2. x.key = c.terms /\ x.n = part[1] /\ x.count = Kpe!CountOf(part[2])
    OBVIOUS
  <2> QED BY <2>1, <2>2
<1> QED BY <1>2, <1>3, <1>4

(* They are sorted by candidate, so that those of a candidate are together.*)
Together(s, H) ==
  /\ s \in Seq(H) /\ \A x \in H : \E n \in 1 .. Len(s) : s[n] = x
  /\ \A m, n \in 1 .. Len(s) : s[m] = s[n] => m = n
  /\ \A l, m, n \in 1 .. Len(s) : l < m /\ m < n /\ s[l].key = s[n].key => s[m].key = s[l].key

LEMMA MergedTogether ==
  ASSUME CandidatesOK
  PROVE  \E s : /\ Together(s, Kpe!hh)
                /\ Kpe!Sorted(Kpe!hh, LAMBDA x, y :
                     Kpe!Before([terms |-> x.key, docid |-> x.n], [terms |-> y.key, docid |-> y.n])) = s
<1> DEFINE H == Kpe!hh
           First(x, y) == Kpe!Before([terms |-> x.key, docid |-> x.n], [terms |-> y.key, docid |-> y.n])
           R == {p \in H \X H : First(p[1], p[2])}
           above == [x \in H |-> Kpe!Cardinality({y \in H : First(y, x)})]
           s == [n \in 1 .. Kpe!Cardinality(H) |-> CHOOSE x \in H : above[x] = n - 1]
<1>1. Kpe!Sorted(Kpe!hh, LAMBDA x, y :
        Kpe!Before([terms |-> x.key, docid |-> x.n], [terms |-> y.key, docid |-> y.n])) = s
  BY DEF Kpe!Sorted
<1>2. /\ IsFiniteSet(H)
      /\ \A x \in H : /\ x.key \in Seq(Nat) /\ x.key # <<>> /\ x.n \in 1 .. 4
                      /\ x.count = Kpe!CountOf(PartOf(x.key, x.n))
                      /\ x = [key |-> x.key, n |-> x.n, count |-> x.count]
  BY MergedAre
<1>3. \A x, y \in H : First(x, y) <=> LexLess(x.key, y.key) \/ (x.key = y.key /\ x.n < y.n)
  <2> SUFFICES ASSUME NEW x \in H, NEW y \in H
               PROVE  First(x, y) <=> LexLess(x.key, y.key) \/ (x.key = y.key /\ x.n < y.n)
    OBVIOUS
  <2> DEFINE a == [terms |-> x.key, docid |-> x.n]
             b == [terms |-> y.key, docid |-> y.n]
  <2>1. a.terms = x.key /\ b.terms = y.key /\ a.docid = x.n /\ b.docid = y.n
    OBVIOUS
  <2>2. x.key \in Seq(Nat) /\ y.key \in Seq(Nat)
    BY <1>2
  <2> HIDE DEF a, b, H
  <2>3. Kpe!Before(a, b) <=> LexLess(a.terms, b.terms) \/ (a.terms = b.terms /\ a.docid < b.docid)
    BY <2>1, <2>2, BeforeIs
  <2> QED BY <2>1, <2>3 DEF a, b
<1> HIDE DEF First, H
<1>4. \A x, y \in H : <<x, y>> \in R <=> First(x, y)
  OBVIOUS
<1>5. Orders(R, H)
  <2>1. \A x \in H : ~First(x, x)
    BY <1>2, <1>3, LexOrders
  <2>2. \A x, y \in H : x = y \/ First(x, y) \/ First(y, x)
    <3> SUFFICES ASSUME NEW x \in H, NEW y \in H PROVE x = y \/ First(x, y) \/ First(y, x)
      OBVIOUS
    <3>1. CASE x.key # y.key
      BY <1>2, <1>3, <3>1, LexOrders
    <3>2. CASE x.key = y.key
      <4>1. x.n < y.n \/ y.n < x.n \/ x.n = y.n
        BY <1>2
      <4>2. x.n = y.n => x = y
        BY <1>2, <3>2
      <4> QED BY <1>3, <3>2, <4>1, <4>2
    <3> QED BY <3>1, <3>2
  <2>3. \A x, y, z \in H : First(x, y) /\ First(y, z) => First(x, z)
    <3> SUFFICES ASSUME NEW x \in H, NEW y \in H, NEW z \in H, First(x, y), First(y, z)
                 PROVE  First(x, z)
      OBVIOUS
    <3>1. /\ LexLess(x.key, y.key) \/ (x.key = y.key /\ x.n < y.n)
          /\ LexLess(y.key, z.key) \/ (y.key = z.key /\ y.n < z.n)
      BY <1>3
    <3>2. LexLess(x.key, y.key) /\ LexLess(y.key, z.key) => LexLess(x.key, z.key)
      BY <1>2, LexOrders
    <3>3. x.n < y.n /\ y.n < z.n => x.n < z.n
      <4>1. \A v \in H : v.n \in 1 .. 4
        BY <1>2
      <4>2. x.n \in Int /\ y.n \in Int /\ z.n \in Int
        BY <4>1
      <4> QED BY <4>2
    <3> QED BY <1>3, <3>1, <3>2, <3>3
  <2> HIDE DEF R
  <2> QED BY <1>4, <2>1, <2>2, <2>3 DEF Orders
<1>6. \A x \in H : above[x] = Kpe!Cardinality({y \in H : <<y, x>> \in R})
  <2>1. \A x \in H : {y \in H : <<y, x>> \in R} = {y \in H : First(y, x)}
    BY <1>4
  <2> HIDE DEF R
  <2> QED BY <2>1
<1> HIDE DEF above, R
<1>7. Ranked(s, R, H) /\ Cardinality(H) \in Nat
  <2>1. s = RankedBy(H, above)
    BY DEF RankedBy
  <2>2. RanksOf(above, H, R) /\ IsFiniteSet(H)
    BY <1>2, <1>6 DEF RanksOf
  <2> HIDE DEF s
  <2> QED BY <1>5, <2>1, <2>2, SortedIsRanked
<1> HIDE DEF s
<1>8. /\ s \in [1 .. Cardinality(H) -> H]
      /\ \A x \in H : \E n \in 1 .. Cardinality(H) : s[n] = x
      /\ \A m, n \in 1 .. Cardinality(H) : m < n <=> First(s[m], s[n])
  BY <1>4, <1>7 DEF Ranked
<1>9. s \in Seq(H) /\ Len(s) = Cardinality(H)
  BY <1>7, <1>8
<1>10. \A m, n \in 1 .. Len(s) : s[m] = s[n] => m = n
  <2> SUFFICES ASSUME NEW m \in 1 .. Len(s), NEW n \in 1 .. Len(s), s[m] = s[n], m # n PROVE FALSE
    OBVIOUS
  <2>1. m < n \/ n < m
    BY <1>7, <1>9
  <2>2. First(s[m], s[n]) <=> First(s[n], s[m])
    OBVIOUS
  <2> QED BY <1>7, <1>8, <1>9, <2>1, <2>2
<1>11. \A l, m, n \in 1 .. Len(s) : l < m /\ m < n /\ s[l].key = s[n].key => s[m].key = s[l].key
  <2> SUFFICES ASSUME NEW l \in 1 .. Len(s), NEW m \in 1 .. Len(s), NEW n \in 1 .. Len(s),
                      l < m, m < n, s[l].key = s[n].key, s[m].key # s[l].key
               PROVE  FALSE
    OBVIOUS
  <2>1. s[l] \in H /\ s[m] \in H /\ s[n] \in H
    BY <1>8, <1>9
  <2>2. First(s[l], s[m]) /\ First(s[m], s[n])
    BY <1>8, <1>9
  <2>3. LexLess(s[l].key, s[m].key) /\ LexLess(s[m].key, s[l].key)
    BY <1>3, <2>1, <2>2
  <2> QED BY <1>2, <2>1, <2>3, LexOrders
<1>12. Together(s, H)
  BY <1>8, <1>9, <1>10, <1>11 DEF Together
<1> QED BY <1>1, <1>12 DEF H

LEMMA KpeLastIsMax ==
  ASSUME NEW l \in Nat, NEW s \in SUBSET (1 .. l), s # {}
  PROVE  LastOf(l)[s] = Kpe!Max(s) /\ Kpe!Max(s) \in s
<1>1. LastOf(l)[s] \in s
  BY LastIsChoice DEF IsChoice
<1>2. LastOf(l)[s] = Kpe!Max(s)
  BY DEF LastOf, Kpe!Max
<1> QED BY <1>1, <1>2

-----------------------------------------------------------------------------
(* The pass over what is merged (Collected).                               *)
Collect(r, x) ==
  IF r.saveKey \in {<<>>, x.key}
  THEN [r EXCEPT !.saveKey = x.key, !.output[x.n] = x.count]
  ELSE [saveKey |-> x.key, output |-> [Kpe!NoCounts EXCEPT ![x.n] = x.count],
        written |-> r.written \cup {<<r.saveKey, r.output>>}]

NothingCollected == [saveKey |-> <<>>, output |-> Kpe!NoCounts, written |-> {}]

Outputs(H) == [1 .. 4 -> {x.count : x \in H} \cup {0}]
Collections(H) == [saveKey : Seq(Nat), output : Outputs(H), written : SUBSET (Seq(Nat) \X Outputs(H))]

CountsOfKeys(H) == \A x \in H : x.key \in Seq(Nat) /\ x.key # <<>> /\ x.n \in 1 .. 4

LEMMA NoneCollected == \A H : NothingCollected \in Collections(H)
<1> SUFFICES ASSUME NEW H PROVE NothingCollected \in Collections(H)
  OBVIOUS
<1>1. Kpe!NoCounts \in Outputs(H)
  <2>1. Kpe!NoCounts = [n \in 1 .. 4 |-> 0]
    BY DEF Kpe!NoCounts
  <2> QED BY <2>1 DEF Outputs
<1>2. <<>> \in Seq(Nat)
  OBVIOUS
<1> QED BY <1>1, <1>2 DEF NothingCollected, Collections

(* One step of it, by its parts.                                           *)
LEMMA CollectIs ==
  ASSUME NEW H, CountsOfKeys(H), NEW r \in Collections(H), NEW x \in H
  PROVE  LET q == Collect(r, x)
             goes == r.saveKey \in {<<>>, x.key}
         IN  /\ q \in Collections(H)
             /\ q.saveKey = x.key /\ q.output[x.n] = x.count
             /\ goes => q.written = r.written /\ \A n \in 1 .. 4 : n # x.n => q.output[n] = r.output[n]
             /\ ~goes => q.written = r.written \cup {<<r.saveKey, r.output>>}
<1> DEFINE q == Collect(r, x)
           goes == r.saveKey \in {<<>>, x.key}
           O == Outputs(H)
           K == Seq(Nat)
           W == SUBSET (K \X O)
<1>1. x.key \in K /\ x.n \in 1 .. 4 /\ x.count \in {y.count : y \in H}
  BY DEF CountsOfKeys
<1>2. r.saveKey \in K /\ r.output \in O /\ r.written \in W
      /\ r = [saveKey |-> r.saveKey, output |-> r.output, written |-> r.written]
  <2>1. r \in [saveKey : K, output : O, written : W]
    BY DEF Collections
  <2> HIDE DEF K, O, W
  <2> QED BY <2>1
<1>3. \A o \in O : /\ [o EXCEPT ![x.n] = x.count] \in O
                   /\ [o EXCEPT ![x.n] = x.count][x.n] = x.count
                   /\ \A n \in 1 .. 4 : n # x.n => [o EXCEPT ![x.n] = x.count][n] = o[n]
  BY <1>1 DEF Outputs
<1>4. Kpe!NoCounts \in O
  BY NoneCollected DEF NothingCollected, Collections
<1>5. CASE goes
  <2> DEFINE o == [r.output EXCEPT ![x.n] = x.count]
  <2>1. q = [r EXCEPT !.saveKey = x.key, !.output[x.n] = x.count]
    BY <1>5 DEF Collect
  <2>2. q = [saveKey |-> x.key, output |-> o, written |-> r.written]
    BY <1>2, <2>1
  <2>3. o \in O /\ o[x.n] = x.count /\ \A n \in 1 .. 4 : n # x.n => o[n] = r.output[n]
    BY <1>2, <1>3
  <2> HIDE DEF q, o, K, O, W
  <2>4. q \in [saveKey : K, output : O, written : W]
    BY <1>1, <1>2, <2>2, <2>3
  <2>5. q.saveKey = x.key /\ q.output = o /\ q.written = r.written
    BY <2>2
  <2> QED BY <1>5, <2>3, <2>4, <2>5 DEF q, Collections, K, O, W
<1>6. CASE ~goes
  <2> DEFINE o == [Kpe!NoCounts EXCEPT ![x.n] = x.count]
             w == r.written \cup {<<r.saveKey, r.output>>}
  <2>1. q = [saveKey |-> x.key, output |-> o, written |-> w]
    BY <1>6 DEF Collect
  <2>2. o \in O /\ o[x.n] = x.count
    BY <1>3, <1>4
  <2>3. w \in W
    <3> HIDE DEF K, O
    <3> QED BY <1>2
  <2>4. q.saveKey = x.key /\ q.output = o /\ q.written = w
    <3> HIDE DEF q, o, w
    <3> QED BY <2>1
  <2>5. q \in [saveKey : K, output : O, written : W]
    <3> HIDE DEF q, o, w, K, O, W
    <3> QED BY <1>1, <2>1, <2>2, <2>3
  <2> HIDE DEF q, o
  <2> QED BY <1>6, <2>2, <2>4, <2>5 DEF q, Collections, K, O, W
<1> QED BY <1>5, <1>6

(* The pass is a fold, so it goes from one count to the next.              *)
LEMMA CollectedIsFold ==
  ASSUME NEW H, CountsOfKeys(H), NEW s \in Seq(H)
  PROVE  \E it \in [0 .. Len(s) -> Collections(H)] :
           /\ it[0] = NothingCollected
           /\ \A n \in 1 .. Len(s) : it[n] = Collect(it[n - 1], s[n])
           /\ Kpe!Collected(s) = it[Len(s)].written \cup {<<it[Len(s)].saveKey, it[Len(s)].output>>}
<1> DEFINE l == Len(s)
           D == 1 .. l
           c == NothingCollected
           V == Collections(H)
           After(d, n) == Collect(d, s[n])
           Is(it) == it = [t \in SUBSET D |-> IF t = {} THEN c
                             ELSE After(it[t \ {Kpe!Max(t)}], Kpe!Max(t))]
           fold == CHOOSE it : Is(it)
           step == [n \in D |-> [d \in V |-> After(d, n)]]
<1>1. Kpe!Collected(s) = fold[D].written \cup {<<fold[D].saveKey, fold[D].output>>}
  <2>1. DOMAIN s = D
    OBVIOUS
  <2> QED BY <2>1 DEF Kpe!Collected, Kpe!FoldLeft, Kpe!MapThenFoldSet, Collect, NothingCollected
<1>2. c \in V
  BY NoneCollected
<1>3. l \in Nat
  OBVIOUS
<1>4. ASSUME NEW n \in D, NEW d \in V PROVE After(d, n) \in V
  <2>1. s[n] \in H
    OBVIOUS
  <2> QED BY <2>1, CollectIs
<1>5. step \in [D -> [V -> V]] /\ \A n \in D, d \in V : step[n][d] = After(d, n)
  <2> HIDE DEF After, V, D
  <2> QED BY <1>4
<1> HIDE DEF step, After, l, V, c
<1>6. PICK it \in [SUBSET D -> V] : IsFold(it, D, c, step, LastOf(l))
  <2>1. FoldsFromLeft(l, V, c, step)
    BY <1>2, <1>3, <1>5, FoldFromLeft
  <2> QED BY <2>1 DEF FoldsFromLeft
<1>7. \A t \in SUBSET D : t # {} =>
        LastOf(l)[t] = Kpe!Max(t) /\ Kpe!Max(t) \in D
  <2> SUFFICES ASSUME NEW t \in SUBSET D, t # {}
               PROVE  LastOf(l)[t] = Kpe!Max(t) /\ Kpe!Max(t) \in D
    OBVIOUS
  <2>1. LastOf(l)[t] = Kpe!Max(t) /\ Kpe!Max(t) \in t
    BY <1>3, KpeLastIsMax
  <2> QED BY <2>1
<1> HIDE DEF D
<1>8. Is(it)
  <2> SUFFICES ASSUME NEW t \in SUBSET D
               PROVE  it[t] = IF t = {} THEN c ELSE After(it[t \ {Kpe!Max(t)}], Kpe!Max(t))
    BY <1>6
  <2>1. t = {} => it[t] = c
    BY <1>6 DEF IsFold
  <2>2. ASSUME t # {} PROVE it[t] = After(it[t \ {Kpe!Max(t)}], Kpe!Max(t))
    <3> DEFINE m == Kpe!Max(t)
               d == it[t \ {m}]
    <3>1. LastOf(l)[t] = m /\ m \in D
      BY <1>7, <2>2
    <3>2. it[t] = step[m][d]
      BY <1>6, <2>2, <3>1 DEF IsFold
    <3>3. d \in V
      BY <1>6
    <3> HIDE DEF m, d
    <3>4. it[t] = After(d, m)
      BY <1>5, <3>1, <3>2, <3>3
    <3> QED BY <3>4 DEF m, d
  <2> QED BY <2>1, <2>2
<1>9. Is(fold)
  <2> HIDE DEF Is
  <2> QED BY <1>8
<1> HIDE DEF fold
<1>10. IsFoldInto(fold, D, V, c, step, LastOf(l))
  <2>1. fold[{}] = c
    BY <1>9
  <2>2. ASSUME NEW t \in SUBSET D, t # {}, fold[t \ {LastOf(l)[t]}] \in V
        PROVE  fold[t] = step[LastOf(l)[t]][fold[t \ {LastOf(l)[t]}]]
    <3> DEFINE m == LastOf(l)[t]
               d == fold[t \ {m}]
    <3>1. m = Kpe!Max(t) /\ m \in D
      BY <1>7, <2>2
    <3>2. fold[t] = After(fold[t \ {Kpe!Max(t)}], Kpe!Max(t))
      BY <1>9, <2>2
    <3>3. fold[t] = After(d, m) /\ d \in V
      BY <2>2, <3>1, <3>2
    <3> HIDE DEF m, d
    <3>4. fold[t] = step[m][d]
      BY <1>5, <3>1, <3>3
    <3> QED BY <3>4 DEF m, d
  <2> QED BY <2>1, <2>2 DEF IsFoldInto
<1>11. \A t \in SUBSET D : fold[t] \in V
  <2>1. FoldData(D, V, c, step, LastOf(l))
    BY <1>2, <1>3, <1>5, FS_Interval, LastIsChoice DEF FoldData, D
  <2> QED BY <1>10, <2>1, FoldHasType
<1>12. FromLeft(fold, l, V, c, step)
  <2>1. IsFold(fold, D, c, step, LastOf(l))
    <3> SUFFICES ASSUME NEW t \in SUBSET D, t # {}
                 PROVE  fold[t] = step[LastOf(l)[t]][fold[t \ {LastOf(l)[t]}]]
      BY <1>10 DEF IsFold, IsFoldInto
    <3>1. fold[t \ {LastOf(l)[t]}] \in V
      BY <1>11
    <3> QED BY <1>10, <3>1 DEF IsFoldInto
  <2>2. FoldsFromLeft(l, V, c, step)
    BY <1>2, <1>3, <1>5, FoldFromLeft DEF D
  <2> QED BY <2>1, <2>2 DEF FoldsFromLeft, D
<1> DEFINE at == [n \in 0 .. l |-> fold[1 .. n]]
<1>13. at \in [0 .. l -> V] /\ at[0] = c
  <2>1. 1 .. 0 = {}
    OBVIOUS
  <2> QED BY <1>3, <1>12, <2>1 DEF FromLeft
<1>14. ASSUME NEW n \in 1 .. l PROVE at[n] = After(at[n - 1], n)
  <2>1. n \in 0 .. l /\ n - 1 \in 0 .. l /\ n \in D
    BY <1>3 DEF D
  <2>2. at[n] = step[n][at[n - 1]]
    BY <1>12, <2>1 DEF FromLeft
  <2>3. at[n - 1] \in V
    BY <1>13, <2>1
  <2> HIDE DEF at
  <2> QED BY <1>5, <2>1, <2>2, <2>3
<1>15. at[l] = fold[D]
  BY <1>3 DEF D
<1> HIDE DEF at, Is
<1> QED BY <1>1, <1>13, <1>14, <1>15 DEF l, c, V, After

(* What was written is complete: of the first n counts, those of the key   *)
(* under way are in the output, and those of each other key are written,   *)
(* once.                                                                   *)
Tells(out, s, n, key) == \A j \in 1 .. n : s[j].key = key => out[s[j].n] = s[j].count

CollectedTo(r, s, n) ==
  /\ r.saveKey = s[n].key /\ Tells(r.output, s, n, r.saveKey)
  /\ \A j \in 1 .. n : s[j].key # r.saveKey => \E w \in r.written : w[1] = s[j].key
  /\ \A w \in r.written : /\ w[1] # r.saveKey /\ \E j \in 1 .. n : s[j].key = w[1]
                          /\ Tells(w[2], s, n, w[1])
  /\ \A v, w \in r.written : v[1] = w[1] => v = w

(* One more count keeps it so, for it is of the key under way or of a new  *)
(* one.                                                                    *)
LEMMA CollectsOn ==
  ASSUME NEW H, CountsOfKeys(H), \A x, y \in H : x.key = y.key /\ x.n = y.n => x = y,
         NEW s, Together(s, H), NEW n \in 1 .. Len(s),
         NEW r \in Collections(H), n = 1 => r = NothingCollected,
         n > 1 => CollectedTo(r, s, n - 1)
  PROVE  CollectedTo(Collect(r, s[n]), s, n)
<1> DEFINE q == Collect(r, s[n])
           x == s[n]
           goes == r.saveKey \in {<<>>, x.key}
<1>1. Len(s) \in Nat /\ n \in Nat \ {0} /\ \A j \in 1 .. Len(s) : s[j] \in H
  BY DEF Together
<1>2. x \in H /\ x.key # <<>> /\ \A j \in 1 .. n : j \in 1 .. Len(s) /\ s[j] \in H
  BY <1>1 DEF CountsOfKeys
<1>3. /\ q.saveKey = x.key /\ q.output[x.n] = x.count
      /\ goes => q.written = r.written /\ \A i \in 1 .. 4 : i # x.n => q.output[i] = r.output[i]
      /\ ~goes => q.written = r.written \cup {<<r.saveKey, r.output>>}
  BY <1>2, CollectIs
<1>4. \A j \in 1 .. n : s[j].key = x.key /\ j # n => s[j].n # x.n /\ s[j].n \in 1 .. 4
  <2> SUFFICES ASSUME NEW j \in 1 .. n, s[j].key = x.key, j # n PROVE s[j].n # x.n /\ s[j].n \in 1 .. 4
    OBVIOUS
  <2>1. s[j] # x
    BY <1>2 DEF Together
  <2> QED BY <1>2, <2>1 DEF CountsOfKeys
<1> SUFFICES CollectedTo(q, s, n)
  OBVIOUS
<1> HIDE DEF q
<1>5. CASE n = 1
  <2>1. goes /\ r.written = {}
    BY <1>5 DEF NothingCollected
  <2>2. \A j \in 1 .. n : s[j] = x
    BY <1>5
  <2>3. Tells(q.output, s, n, q.saveKey)
    BY <1>3, <2>2 DEF Tells
  <2> HIDE DEF goes, x
  <2>4. q.written = {}
    BY <1>3, <2>1
  <2> QED BY <1>3, <2>2, <2>3, <2>4 DEF CollectedTo, x
<1>6. CASE n > 1 /\ r.saveKey = x.key
  <2>1. goes /\ CollectedTo(r, s, n - 1)
    BY <1>6
  <2>2. \A j \in 1 .. n : j = n \/ j \in 1 .. n - 1
    BY <1>1
  <2>3. Tells(q.output, s, n, q.saveKey)
    <3> SUFFICES ASSUME NEW j \in 1 .. n, s[j].key = x.key PROVE q.output[s[j].n] = s[j].count
      BY <1>3 DEF Tells
    <3>1. CASE j = n
      BY <1>3, <3>1
    <3>2. CASE j # n
      <4>1. j \in 1 .. n - 1 /\ s[j].n # x.n /\ s[j].n \in 1 .. 4
        BY <1>4, <2>2, <3>2
      <4>2. r.output[s[j].n] = s[j].count
        BY <1>6, <2>1, <4>1 DEF CollectedTo, Tells
      <4> QED BY <1>3, <2>1, <4>1, <4>2
    <3> QED BY <3>1, <3>2
  <2>4. q.written = r.written
    BY <1>3, <2>1
  <2>5. \A w \in r.written : Tells(w[2], s, n, w[1])
    <3> SUFFICES ASSUME NEW w \in r.written, NEW j \in 1 .. n, s[j].key = w[1]
                 PROVE  w[2][s[j].n] = s[j].count
      BY DEF Tells
    <3>1. w[1] # x.key /\ Tells(w[2], s, n - 1, w[1])
      BY <1>6, <2>1 DEF CollectedTo
    <3> QED BY <2>2, <3>1 DEF Tells
  <2>6. \A j \in 1 .. n : s[j].key # x.key => \E w \in r.written : w[1] = s[j].key
    <3> SUFFICES ASSUME NEW j \in 1 .. n, s[j].key # x.key PROVE \E w \in r.written : w[1] = s[j].key
      OBVIOUS
    <3>1. j \in 1 .. n - 1
      BY <2>2
    <3> QED BY <1>6, <2>1, <3>1 DEF CollectedTo
  <2>7. \A w \in r.written : w[1] # x.key /\ \E j \in 1 .. n : s[j].key = w[1]
    <3>1. \A w \in r.written : w[1] # x.key /\ \E j \in 1 .. n - 1 : s[j].key = w[1]
      BY <1>6, <2>1 DEF CollectedTo
    <3>2. \A j \in 1 .. n - 1 : j \in 1 .. n
      BY <1>1
    <3> QED BY <3>1, <3>2
  <2>8. \A v, w \in r.written : v[1] = w[1] => v = w
    BY <2>1 DEF CollectedTo
  <2> HIDE DEF goes, x
  <2> QED BY <1>3, <2>3, <2>4, <2>5, <2>6, <2>7, <2>8 DEF CollectedTo, x
<1>7. CASE n > 1 /\ r.saveKey # x.key
  <2> DEFINE kept == <<r.saveKey, r.output>>
  <2>1. CollectedTo(r, s, n - 1) /\ r.saveKey = s[n - 1].key
    BY <1>7 DEF CollectedTo
  <2>2. (\A j \in 1 .. n : j = n \/ j \in 1 .. n - 1) /\ n - 1 \in 1 .. n - 1 /\ \A j \in 1 .. n - 1 : j \in 1 .. n
    BY <1>1, <1>7
  <2>3. r.saveKey # <<>>
    BY <1>2, <2>1, <2>2 DEF CountsOfKeys
  <2>4. \A j \in 1 .. n - 1 : s[j].key # x.key
    <3> SUFFICES ASSUME NEW j \in 1 .. n - 1, s[j].key = x.key PROVE FALSE
      OBVIOUS
    <3>1. j # n - 1
      BY <1>7, <2>1
    <3>2. j < n - 1 /\ n - 1 < n /\ j \in 1 .. Len(s) /\ n - 1 \in 1 .. Len(s) /\ n \in 1 .. Len(s)
      BY <1>1, <3>1
    <3>3. s[n - 1].key = s[j].key
      BY <3>2 DEF Together
    <3> QED BY <1>7, <2>1, <3>3
  <2>5. ~goes /\ q.written = r.written \cup {kept}
    BY <1>3, <1>7, <2>3
  <2>6. Tells(q.output, s, n, q.saveKey)
    <3>1. \A j \in 1 .. n : s[j].key = x.key => j = n
      BY <2>2, <2>4
    <3> QED BY <1>3, <3>1 DEF Tells
  <2>7. kept[1] = r.saveKey /\ kept[2] = r.output
    OBVIOUS
  <2>8. \A w \in r.written : w[1] # r.saveKey /\ \E j \in 1 .. n - 1 : s[j].key = w[1]
    BY <2>1 DEF CollectedTo
  <2>9. \A w \in q.written : /\ w[1] # x.key /\ \E j \in 1 .. n : s[j].key = w[1]
                             /\ Tells(w[2], s, n, w[1])
    <3> SUFFICES ASSUME NEW w \in q.written
                 PROVE  /\ w[1] # x.key /\ \E j \in 1 .. n : s[j].key = w[1]
                        /\ Tells(w[2], s, n, w[1])
      OBVIOUS
    <3>1. Tells(w[2], s, n - 1, w[1]) /\ \E j \in 1 .. n - 1 : s[j].key = w[1]
      <4>1. CASE w \in r.written
        BY <2>1, <4>1 DEF CollectedTo
      <4>2. CASE w = kept
        BY <2>1, <2>2, <2>7, <4>2 DEF CollectedTo
      <4> QED BY <2>5, <4>1, <4>2
    <3>2. PICK j \in 1 .. n - 1 : s[j].key = w[1]
      BY <3>1
    <3>3. w[1] # x.key
      BY <2>4, <3>2
    <3>4. Tells(w[2], s, n, w[1])
      BY <2>2, <3>1, <3>3 DEF Tells
    <3> QED BY <2>2, <3>2, <3>3, <3>4
  <2>10. \A j \in 1 .. n : s[j].key # x.key => \E w \in q.written : w[1] = s[j].key
    <3> SUFFICES ASSUME NEW j \in 1 .. n, s[j].key # x.key PROVE \E w \in q.written : w[1] = s[j].key
      OBVIOUS
    <3>1. j \in 1 .. n - 1
      BY <2>2
    <3>2. CASE s[j].key = r.saveKey
      <4> HIDE DEF kept
      <4> QED BY <2>5, <2>7, <3>2
    <3>3. CASE s[j].key # r.saveKey
      <4> HIDE DEF kept
      <4> QED BY <2>1, <2>5, <3>1, <3>3 DEF CollectedTo
    <3> QED BY <3>2, <3>3
  <2>11. \A v, w \in q.written : v[1] = w[1] => v = w
    <3>1. \A v, w \in r.written : v[1] = w[1] => v = w
      BY <2>1 DEF CollectedTo
    <3> HIDE DEF kept
    <3> QED BY <2>5, <2>7, <2>8, <3>1
  <2> HIDE DEF goes, x, kept
  <2> QED BY <1>3, <2>6, <2>9, <2>10, <2>11 DEF CollectedTo, x
<1>8. n = 1 \/ n > 1
  BY <1>1
<1> QED BY <1>5, <1>6, <1>7, <1>8

(* So each key has one entry in the end, with its counts in their places.  *)
LEMMA CollectedAre ==
  ASSUME NEW H, CountsOfKeys(H), \A x, y \in H : x.key = y.key /\ x.n = y.n => x = y,
         NEW s, Together(s, H)
  PROVE  \A x \in H : /\ \E w \in Kpe!Collected(s) : w[1] = x.key
                      /\ \A v, w \in Kpe!Collected(s) : v[1] = x.key /\ w[1] = x.key => v = w
                      /\ \A w \in Kpe!Collected(s) : w[1] = x.key => w[2][x.n] = x.count
<1> SUFFICES ASSUME NEW x \in H
             PROVE  /\ \E w \in Kpe!Collected(s) : w[1] = x.key
                    /\ \A v, w \in Kpe!Collected(s) : v[1] = x.key /\ w[1] = x.key => v = w
                    /\ \A w \in Kpe!Collected(s) : w[1] = x.key => w[2][x.n] = x.count
  OBVIOUS
<1> DEFINE l == Len(s)
           V == Collections(H)
<1>1. s \in Seq(H) /\ l \in Nat
  BY DEF Together
<1>2. PICK it \in [0 .. l -> V] :
        /\ it[0] = NothingCollected
        /\ \A n \in 1 .. l : it[n] = Collect(it[n - 1], s[n])
        /\ Kpe!Collected(s) = it[l].written \cup {<<it[l].saveKey, it[l].output>>}
  BY <1>1, CollectedIsFold
<1> DEFINE T == {n \in 0 .. l : n > 0 => CollectedTo(it[n], s, n)}
<1>3. 0 .. l \subseteq T
  <2>1. 0 \in T
    BY <1>1
  <2>2. ASSUME NEW n \in 1 .. l, n - 1 \in T PROVE n \in T
    <3>1. n - 1 \in 0 .. l /\ n \in 0 .. l /\ (n > 1 => CollectedTo(it[n - 1], s, n - 1)) /\ n \in Nat
      BY <1>1, <2>2
    <3>2. it[n - 1] \in V /\ it[n] = Collect(it[n - 1], s[n]) /\ (n = 1 => it[n - 1] = NothingCollected)
      BY <1>2, <3>1
    <3> HIDE DEF V, T
    <3>3. CollectedTo(Collect(it[n - 1], s[n]), s, n)
      BY <3>1, <3>2, CollectsOn DEF V
    <3> QED BY <3>1, <3>2, <3>3 DEF T
  <2> HIDE DEF T
  <2> QED BY <1>1, <2>1, <2>2, UpToInduction
<1>4. PICK m \in 1 .. l : s[m] = x
  BY DEF Together
<1>5. l > 0 /\ l \in 0 .. l
  BY <1>1, <1>4
<1> DEFINE r == it[l]
           kept == <<r.saveKey, r.output>>
<1>6. CollectedTo(r, s, l)
  BY <1>3, <1>5
<1>7. Kpe!Collected(s) = r.written \cup {kept} /\ kept[1] = r.saveKey /\ kept[2] = r.output
  BY <1>2
<1> HIDE DEF r, kept, T, l
<1>8. \A w \in Kpe!Collected(s) : Tells(w[2], s, l, w[1])
  BY <1>6, <1>7 DEF CollectedTo
<1>9. \A w \in Kpe!Collected(s) : w[1] = x.key => w[2][x.n] = x.count
  BY <1>4, <1>8 DEF Tells
<1>10. \E w \in Kpe!Collected(s) : w[1] = x.key
  BY <1>4, <1>6, <1>7 DEF CollectedTo
<1>11. \A v, w \in Kpe!Collected(s) : v[1] = w[1] => v = w
  BY <1>6, <1>7 DEF CollectedTo
<1> QED BY <1>9, <1>10, <1>11

-----------------------------------------------------------------------------
(* Terms are sequences of numbers wherever they got to, and once the       *)
(* counts are joined each candidate has its own.                           *)
Processed(s) == \E X : s \in Seq(X) /\ \A x \in X : x.terms \in Seq(Nat)

OwnCounts(c) == {x \in hclt : x[1] = c.terms}

PartsOK ==
  \A c \in candidates : Len(c.terms) >= 2 =>
    /\ Cardinality(OwnCounts(c)) = 1
    /\ \A x \in OwnCounts(c), part \in Kpe!Parts(c.terms) : x[2][part[1]] = Kpe!CountOf(part[2])

PhraseInv ==
  /\ doc_count_ \in Nat /\ ngrams \in Seq(Ngrams) /\ next_ngram \in Nat
  /\ last_ngram.terms \in Seq(Nat) /\ Processed(for_process)
  /\ CandidatesOK
  /\ kpe_stage = "inserting" => candidates = {}
  /\ kpe_stage \in {"judging", "done"} => PartsOK

LEMMA NothingProcessed == Processed(<<>>)
<1> DEFINE X == {}
<1>1. <<>> \in Seq(X) /\ \A x \in X : x.terms \in Seq(Nat)
  OBVIOUS
<1> HIDE DEF X
<1> QED BY <1>1 DEF Processed

(* Those that GetCandidate_ adds are finite in number, and their terms     *)
(* were read.                                                              *)
LEMMA CandidatesKept ==
  ASSUME CandidatesOK, NEW s, Processed(s), Kpe!GetCandidate_(s)
  PROVE  CandidatesOK'
<1>1. PICK X : s \in Seq(X) /\ \A x \in X : x.terms \in Seq(Nat)
  BY DEF Processed
<1>2. PICK more \in SUBSET Kpe!Accumulated(s) : candidates' = candidates \cup more
  <2> DEFINE more == {item \in {i \in Kpe!Accumulated(s) : Len(i.terms) <= max_phrase_len_} :
                        Kpe!IsCandidate(item)}
  <2>1. candidates' = candidates \cup more
    BY DEF Kpe!GetCandidate_
  <2>2. more \in SUBSET Kpe!Accumulated(s)
    OBVIOUS
  <2> HIDE DEF more
  <2> QED BY <2>1, <2>2
<1>3. IsFiniteSet(Kpe!Accumulated(s)) /\ \A item \in Kpe!Accumulated(s) : item.terms \in Seq(Nat)
  BY <1>1, AccumulatedAre
<1>4. IsFiniteSet(candidates') /\ \A c \in candidates' : c.terms \in Seq(Nat)
  BY <1>2, <1>3, FS_Subset, FS_Union DEF CandidatesOK
<1> QED BY <1>4 DEF CandidatesOK

LEMMA ProcessesMore ==
  ASSUME NEW s, Processed(s), NEW x, x.terms \in Seq(Nat)
  PROVE  Processed(Append(s, x))
<1>1. PICK X : s \in Seq(X) /\ \A y \in X : y.terms \in Seq(Nat)
  BY DEF Processed
<1>2. Append(s, x) \in Seq(X \cup {x}) /\ \A y \in X \cup {x} : y.terms \in Seq(Nat)
  BY <1>1
<1> QED BY <1>2 DEF Processed

LEMMA SinglesCount ==
  ASSUME NEW S, NEW a \in S, \A b \in S : b = a
  PROVE  Cardinality(S) = 1
<1>1. S = {a}
  OBVIOUS
<1> QED BY <1>1, FS_Singleton

(* The two merges, as CollectCounts does them.                             *)
LEMMA MergeCounts ==
  ASSUME CandidatesOK, NEW s, Together(s, Kpe!hh), hclt' = Kpe!Collected(s),
         UNCHANGED <<candidates, h2c>>
  PROVE  PartsOK'
<1> DEFINE H == Kpe!hh
<1>1. Together(s, H)
  OBVIOUS
<1>2. CountsOfKeys(H) /\ \A x, y \in H : x.key = y.key /\ x.n = y.n => x = y
  <2>1. \A x \in H : /\ x.key \in Seq(Nat) /\ x.key # <<>> /\ x.n \in 1 .. 4
                     /\ x.count = Kpe!CountOf(PartOf(x.key, x.n))
                     /\ x = [key |-> x.key, n |-> x.n, count |-> x.count]
    BY MergedAre
  <2> HIDE DEF H
  <2>2. CountsOfKeys(H)
    BY <2>1 DEF CountsOfKeys
  <2>3. ASSUME NEW x \in H, NEW y \in H, x.key = y.key, x.n = y.n PROVE x = y
    <3>1. x.count = y.count
      BY <2>1, <2>3
    <3> QED BY <2>1, <2>3, <3>1
  <2> QED BY <2>2, <2>3
<1>3. \A c \in candidates : \A part \in Kpe!Parts(c.terms) :
        \E x \in H : x.key = c.terms /\ x.n = part[1] /\ x.count = Kpe!CountOf(part[2])
  BY MergedAre
<1> HIDE DEF H
<1> DEFINE C == Kpe!Collected(s)
<1>4. /\ hclt' = C
      /\ \A x \in H : /\ \E w \in C : w[1] = x.key
                      /\ \A v, w \in C : v[1] = x.key /\ w[1] = x.key => v = w
                      /\ \A w \in C : w[1] = x.key => w[2][x.n] = x.count
  BY <1>1, <1>2, CollectedAre
<1> HIDE DEF C
<1>5. \A terms : Kpe!CountOf(terms)' = Kpe!CountOf(terms)
  BY DEF Kpe!CountOf
<1>6. ASSUME NEW c \in candidates', Len(c.terms) >= 2
      PROVE  /\ Cardinality({x \in hclt' : x[1] = c.terms}) = 1
             /\ \A x \in {y \in hclt' : y[1] = c.terms}, part \in Kpe!Parts(c.terms) :
                  x[2][part[1]] = Kpe!CountOf(part[2])'
  <2> DEFINE own == {x \in hclt' : x[1] = c.terms}
  <2>1. <<1, Kpe!Front(c.terms)>> \in Kpe!Parts(c.terms)
    BY <1>6 DEF Kpe!Parts
  <2>2. PICK x \in H : x.key = c.terms
    BY <1>3, <2>1
  <2>3. PICK a \in own : \A b \in own : b = a
    <3>1. PICK w \in C : w[1] = c.terms
      BY <1>4, <2>2
    <3>2. w \in own
      BY <1>4, <3>1
    <3>3. \A b \in own : b \in C /\ b[1] = c.terms
      BY <1>4
    <3>4. \A b \in own : b = w
      BY <1>4, <2>2, <3>1, <3>3
    <3> HIDE DEF own
    <3> QED BY <3>2, <3>4
  <2>4. Cardinality(own) = 1
    BY <2>3, SinglesCount
  <2>5. ASSUME NEW w \in own, NEW part \in Kpe!Parts(c.terms)
        PROVE  w[2][part[1]] = Kpe!CountOf(part[2])'
    <3>1. PICK y \in H : y.key = c.terms /\ y.n = part[1] /\ y.count = Kpe!CountOf(part[2])
      BY <1>3
    <3>2. w[2][y.n] = y.count
      BY <1>4, <3>1
    <3> QED BY <1>5, <3>1, <3>2
  <2> QED BY <2>4, <2>5
<1>7. \A c : OwnCounts(c)' = {x \in hclt' : x[1] = c.terms}
  BY DEF OwnCounts
<1>8. \A terms : Kpe!Parts(terms)' = Kpe!Parts(terms)
  BY DEF Kpe!Parts
<1> QED BY <1>6, <1>7, <1>8 DEF PartsOK

(* Nothing later changes what was joined.                                  *)
LEMMA PartsStay ==
  ASSUME PartsOK, UNCHANGED <<candidates, h2c, hclt>>
  PROVE  PartsOK'
<1>1. \A terms : Kpe!CountOf(terms)' = Kpe!CountOf(terms) /\ Kpe!Parts(terms)' = Kpe!Parts(terms)
  BY DEF Kpe!CountOf, Kpe!Parts
<1>2. \A c : OwnCounts(c)' = OwnCounts(c)
  BY DEF OwnCounts
<1> QED BY <1>1, <1>2 DEF PartsOK

(* A document adds its n-grams to the file.                                *)
LEMMA WrittenAre ==
  ASSUME ngrams \in Seq(Ngrams), doc_count_ \in Nat, Kpe!Insert
  PROVE  ngrams' \in Seq(Ngrams)
<1>1. PICK d \in Documents :
        ngrams' = ngrams \o Kpe!NgramsOf(d[1], doc_count_ + 1) \o Kpe!NgramsOf(d[2], doc_count_ + 1)
  BY DEF Kpe!Insert
<1>2. d[1] \in Seq(Nat) /\ d[2] \in Seq(Nat) /\ doc_count_ + 1 \in Nat
  BY PhrasesAssumption
<1> DEFINE a == Kpe!NgramsOf(d[1], doc_count_ + 1)
           b == Kpe!NgramsOf(d[2], doc_count_ + 1)
<1>3. a \in Seq(Ngrams) /\ b \in Seq(Ngrams)
  BY <1>2, NgramsAre
<1> HIDE DEF a, b
<1> QED BY <1>1, <1>3 DEF a, b

(* Each step of the counting keeps it.                                     *)
LEMMA PhraseKept == PhraseInv /\ [Kpe!Next]_(Kpe!vars) => PhraseInv'
<1> SUFFICES ASSUME PhraseInv, [Kpe!Next]_(Kpe!vars) PROVE PhraseInv'
  OBVIOUS
<1>1. /\ doc_count_ \in Nat /\ ngrams \in Seq(Ngrams) /\ next_ngram \in Nat
      /\ last_ngram.terms \in Seq(Nat) /\ Processed(for_process) /\ CandidatesOK
      /\ kpe_stage = "inserting" => candidates = {}
      /\ kpe_stage \in {"judging", "done"} => PartsOK
  BY DEF PhraseInv
<1>2. candidates' = candidates => CandidatesOK'
  BY <1>1 DEF CandidatesOK
<1>3. \A s : Processed(s)' <=> Processed(s)
  BY DEF Processed
<1>4. ASSUME next_ngram < Len(ngrams) PROVE ngrams[next_ngram + 1].terms \in Seq(Nat)
  <2>1. ngrams[next_ngram + 1] \in Ngrams
    BY <1>1, <1>4
  <2> QED BY <2>1 DEF Ngrams
<1>5. CASE Kpe!Insert
  <2>1. /\ kpe_stage = "inserting" /\ kpe_stage' = kpe_stage /\ doc_count_' = doc_count_ + 1
        /\ next_ngram' = next_ngram /\ last_ngram' = last_ngram /\ for_process' = for_process
        /\ candidates' = candidates
    BY <1>5 DEF Kpe!Insert
  <2>2. ngrams' \in Seq(Ngrams)
    BY <1>1, <1>5, WrittenAre
  <2> QED BY <1>1, <1>2, <1>3, <2>1, <2>2 DEF PhraseInv
<1>6. CASE Kpe!Close
  <2>1. /\ kpe_stage = "inserting" /\ kpe_stage' \in {"counting", "done"} /\ doc_count_' = doc_count_
        /\ next_ngram' = next_ngram /\ last_ngram' = last_ngram /\ for_process' = for_process
        /\ candidates' = candidates
    BY <1>6 DEF Kpe!Close
  <2>2. ngrams' \in Seq(Ngrams)
    BY <1>1, <1>6, ClosedFile
  <2>3. candidates' = {}
    BY <1>1, <2>1
  <2>4. PartsOK'
    BY <2>3 DEF PartsOK
  <2> QED BY <1>1, <1>2, <1>3, <2>1, <2>2, <2>4 DEF PhraseInv
<1>7. CASE Kpe!ReadSame
  <2>1. /\ kpe_stage = "counting" /\ kpe_stage' = kpe_stage /\ doc_count_' = doc_count_
        /\ next_ngram' = next_ngram + 1 /\ next_ngram < Len(ngrams) /\ ngrams' = ngrams
        /\ for_process' = for_process /\ candidates' = candidates
    BY <1>7 DEF Kpe!ReadSame
  <2>2. last_ngram'.terms \in Seq(Nat)
    <3>1. last_ngram.terms \in {<<>>, ngrams[next_ngram + 1].terms}
      BY <1>7 DEF Kpe!ReadSame
    <3>2. PICK docs : last_ngram' = [last_ngram EXCEPT !.terms = ngrams[next_ngram + 1].terms, !.docs = docs]
      BY <1>7 DEF Kpe!ReadSame
    <3>3. last_ngram'.terms \in {last_ngram.terms, ngrams[next_ngram + 1].terms}
      BY <3>2
    <3> QED BY <1>1, <1>4, <2>1, <3>3
  <2> QED BY <1>1, <1>2, <1>3, <2>1, <2>2 DEF PhraseInv
<1>8. CASE Kpe!ReadOther
  <2> DEFINE collected == Append(for_process, last_ngram)
  <2>1. /\ kpe_stage = "counting" /\ kpe_stage' = kpe_stage /\ doc_count_' = doc_count_
        /\ next_ngram' = next_ngram + 1 /\ next_ngram < Len(ngrams) /\ ngrams' = ngrams
        /\ last_ngram'.terms = ngrams[next_ngram + 1].terms
    BY <1>8 DEF Kpe!ReadOther
  <2>2. Processed(collected)
    BY <1>1, ProcessesMore
  <2>3. \/ Kpe!GetCandidate_(collected) /\ for_process' = <<>>
        \/ for_process' = collected /\ candidates' = candidates
    BY <1>8 DEF Kpe!ReadOther
  <2> HIDE DEF collected
  <2>4. Processed(<<>>)
    BY NothingProcessed
  <2>5. CandidatesOK' /\ Processed(for_process')
    BY <1>1, <1>2, <2>2, <2>3, <2>4, CandidatesKept
  <2> QED BY <1>1, <1>3, <1>4, <2>1, <2>5 DEF PhraseInv, Processed
<1>9. CASE Kpe!EndCounting
  <2>1. /\ kpe_stage = "counting" /\ kpe_stage' = "merging" /\ doc_count_' = doc_count_
        /\ next_ngram' = next_ngram /\ ngrams' = ngrams /\ last_ngram' = last_ngram
        /\ for_process' = for_process /\ Kpe!GetCandidate_(for_process)
    BY <1>9 DEF Kpe!EndCounting
  <2>2. CandidatesOK'
    BY <1>1, <2>1, CandidatesKept
  <2> QED BY <1>1, <1>3, <2>1, <2>2 DEF PhraseInv
<1>10. CASE Kpe!CollectCounts
  <2>1. /\ kpe_stage = "merging" /\ kpe_stage' = "judging" /\ doc_count_' = doc_count_
        /\ next_ngram' = next_ngram /\ ngrams' = ngrams /\ last_ngram' = last_ngram
        /\ for_process' = for_process /\ candidates' = candidates /\ h2c' = h2c
    BY <1>10 DEF Kpe!CollectCounts
  <2>2. hclt' = Kpe!Collected(Kpe!Sorted(Kpe!hh, LAMBDA x, y :
          Kpe!Before([terms |-> x.key, docid |-> x.n], [terms |-> y.key, docid |-> y.n])))
    BY <1>10 DEF Kpe!CollectCounts
  <2>3. PICK s : Together(s, Kpe!hh) /\ hclt' = Kpe!Collected(s)
    BY <1>1, <2>2, MergedTogether
  <2>4. PartsOK'
    BY <1>1, <2>1, <2>3, MergeCounts
  <2> QED BY <1>1, <1>2, <1>3, <2>1, <2>4 DEF PhraseInv
<1>11. CASE Kpe!Judge
  <2>1. /\ kpe_stage = "judging" /\ kpe_stage' = "done" /\ doc_count_' = doc_count_
        /\ next_ngram' = next_ngram /\ ngrams' = ngrams /\ last_ngram' = last_ngram
        /\ for_process' = for_process /\ candidates' = candidates /\ h2c' = h2c /\ hclt' = hclt
    BY <1>11 DEF Kpe!Judge
  <2>2. PartsOK'
    BY <1>1, <2>1, PartsStay
  <2> QED BY <1>1, <1>2, <1>3, <2>1, <2>2 DEF PhraseInv
<1>12. CASE UNCHANGED Kpe!vars
  <2>1. /\ kpe_stage' = kpe_stage /\ doc_count_' = doc_count_
        /\ next_ngram' = next_ngram /\ ngrams' = ngrams /\ last_ngram' = last_ngram
        /\ for_process' = for_process /\ candidates' = candidates /\ h2c' = h2c /\ hclt' = hclt
    BY <1>12 DEF Kpe!vars
  <2>2. PartsOK => PartsOK'
    BY <2>1, PartsStay
  <2> QED BY <1>1, <1>2, <1>3, <2>1, <2>2 DEF PhraseInv
<1> QED BY <1>5, <1>6, <1>7, <1>8, <1>9, <1>10, <1>11, <1>12 DEF Kpe!Next

LEMMA PhraseStarts == Kpe!Init => PhraseInv
<1> SUFFICES ASSUME Kpe!Init PROVE PhraseInv
  OBVIOUS
<1>1. /\ doc_count_ = 0 /\ ngrams = <<>> /\ next_ngram = 0 /\ last_ngram = Kpe!NoNgram
      /\ for_process = <<>> /\ candidates = {} /\ kpe_stage = "inserting"
  BY DEF Kpe!Init
<1>2. last_ngram.terms = <<>>
  BY <1>1 DEF Kpe!NoNgram
<1>3. Processed(<<>>)
  BY NothingProcessed
<1>4. CandidatesOK
  BY <1>1, FS_EmptySet DEF CandidatesOK
<1> QED BY <1>1, <1>2, <1>3, <1>4 DEF PhraseInv

LEMMA PartsRunKpe == PartsSpec => Kpe!Spec
<1>1. PartsInit => Kpe!Init BY DEF PartsInit
<1>2. [PartsNext]_partsVars => [Kpe!Next]_(Kpe!vars)
  BY DEF PartsNext, partsVars, kpeVars, Kpe!vars
<1> QED BY <1>1, <1>2, PTL DEF PartsSpec, Kpe!Spec

(* Once both merges are through, each candidate of several terms has one   *)
(* entry, with the counts of its own parts in their places and those of no *)
(* other candidate, for any documents and any numbers (ProcessNgram_).     *)
THEOREM PartsHaveTheirCounts == PartsSpec => []PartsAreCounted
<1>1. PhraseInv => PartsAreCounted
  <2> SUFFICES ASSUME PhraseInv, kpe_stage \in {"judging", "done"} PROVE PartsOK
    BY KpeCounts DEF PartsAreCounted, Kpe!PartsAreCounted, PartsOK, OwnCounts
  <2> QED BY DEF PhraseInv
<1> QED BY <1>1, PhraseStarts, PhraseKept, PartsRunKpe, PTL DEF Kpe!Spec

-----------------------------------------------------------------------------
(* Bags of documents.                                                      *)
DocBags == UNION {[S -> Nat \ {0}] : S \in SUBSET Nat}

(* The bag that has what two have.                                         *)
Plus(a, b) ==
  [e \in (DOMAIN a) \cup (DOMAIN b) |->
     (IF e \in DOMAIN a THEN a[e] ELSE 0) + (IF e \in DOMAIN b THEN b[e] ELSE 0)]

LEMMA BagsAdd == \A a, b : Kpe!(+)(a, b) = Plus(a, b)
BY DEF Plus, Kpe!(+)

LEMMA PlusAdds ==
  ASSUME NEW a \in DocBags, NEW b \in DocBags
  PROVE  /\ Plus(a, b) \in DocBags
         /\ \A d : Kpe!Copies(Plus(a, b), d) = Kpe!Copies(a, d) + Kpe!Copies(b, d)
         /\ \A d : Kpe!Copies(a, d) \in Nat
<1>1. PICK S \in SUBSET Nat : a \in [S -> Nat \ {0}]
  BY DEF DocBags
<1>2. PICK U \in SUBSET Nat : b \in [U -> Nat \ {0}]
  BY DEF DocBags
<1>3. DOMAIN a = S /\ DOMAIN b = U
  BY <1>1, <1>2
<1> DEFINE n(e) == (IF e \in S THEN a[e] ELSE 0) + (IF e \in U THEN b[e] ELSE 0)
<1>4. Plus(a, b) = [e \in S \cup U |-> n(e)]
  BY <1>3 DEF Plus
<1>5. \A e \in S \cup U : n(e) \in Nat \ {0}
  BY <1>1, <1>2
<1>6. \A e : n(e) = (IF e \in S THEN a[e] ELSE 0) + (IF e \in U THEN b[e] ELSE 0)
  OBVIOUS
<1>7. \A e : e \notin S \cup U => n(e) = 0
  BY <1>6
<1> HIDE DEF n
<1>8. Plus(a, b) \in [S \cup U -> Nat \ {0}] /\ S \cup U \in SUBSET Nat
  BY <1>4, <1>5
<1>9. Plus(a, b) \in DocBags
  BY <1>8 DEF DocBags
<1>10. ASSUME NEW d PROVE Kpe!Copies(Plus(a, b), d) = n(d)
  <2>1. DOMAIN Plus(a, b) = S \cup U
    BY <1>4
  <2> QED BY <1>4, <1>7, <2>1 DEF Kpe!Copies
<1>11. \A d : n(d) = Kpe!Copies(a, d) + Kpe!Copies(b, d)
  BY <1>3, <1>6 DEF Kpe!Copies
<1>12. \A d : Kpe!Copies(a, d) \in Nat
  BY <1>1, <1>3 DEF Kpe!Copies
<1> QED BY <1>9, <1>10, <1>11, <1>12

(* One bag and those of several places, added up.                          *)
BagSum(of, base, S) == Kpe!FoldSet(LAMBDA n, bag : Kpe!(+)(bag, of[n]), base, S)

AddsUp(it, of, base, S) ==
  it = [s \in SUBSET S |-> IF s = {} THEN base
                           ELSE Plus(it[s \ {CHOOSE x \in s : TRUE}], of[CHOOSE x \in s : TRUE])]

LEMMA BagSumChoice == \A of, base, S : BagSum(of, base, S) = (CHOOSE it : AddsUp(it, of, base, S))[S]
BY DEF BagSum, AddsUp, Plus, Kpe!(+), Kpe!FoldSet, Kpe!MapThenFoldSet

(* Such a sum is a bag, the last step of a recursion over the sets of      *)
(* places.                                                                 *)
LEMMA BagSumIs ==
  ASSUME NEW S, IsFiniteSet(S), NEW base \in DocBags, NEW of, \A n \in S : of[n] \in DocBags
  PROVE  \E it \in [SUBSET S -> DocBags] : AddsUp(it, of, base, S) /\ BagSum(of, base, S) = it[S]
<1> DEFINE V == DocBags
           step == [x \in S |-> [v \in V |-> Plus(v, of[x])]]
           c == AnyOf(S)
           g == CHOOSE it : AddsUp(it, of, base, S)
<1>1. \A x \in S : \A v \in V : Plus(v, of[x]) \in V
  BY PlusAdds
<1>2. FoldData(S, V, base, step, c)
  <2>1. step \in [S -> [V -> V]]
    BY <1>1
  <2> HIDE DEF step, V
  <2> QED BY <2>1, AnyIsChoice DEF FoldData, V
<1>3. \A s \in SUBSET S : s # {} => c[s] = (CHOOSE x \in s : TRUE) /\ c[s] \in s
  BY DEF AnyOf
<1>4. PICK it \in [SUBSET S -> V] : IsFold(it, S, base, step, c)
  <2> HIDE DEF step, V, c
  <2> QED BY <1>2, FoldExists
<1>5. \A x \in S, v \in V : step[x][v] = Plus(v, of[x])
  OBVIOUS
<1> HIDE DEF V, step, c
<1>6. AddsUp(it, of, base, S)
  <2>1. ASSUME NEW s \in SUBSET S
        PROVE it[s] = IF s = {} THEN base
                      ELSE Plus(it[s \ {CHOOSE x \in s : TRUE}], of[CHOOSE x \in s : TRUE])
    <3>1. CASE s = {}
      BY <1>4, <3>1 DEF IsFold
    <3>2. CASE s # {}
      <4>1. it[s] = step[c[s]][it[s \ {c[s]}]]
        BY <1>4, <3>2 DEF IsFold
      <4>2. c[s] \in S /\ it[s \ {c[s]}] \in V
        BY <1>3, <1>4, <3>2
      <4> QED BY <1>3, <1>5, <3>2, <4>1, <4>2
    <3> QED BY <3>1, <3>2
  <2> QED BY <1>4, <2>1 DEF AddsUp
<1>7. AddsUp(g, of, base, S)
  BY <1>6
<1> HIDE DEF g
<1>8. g \in [SUBSET S -> V]
  <2>1. g[{}] = base
    BY <1>7 DEF AddsUp
  <2>2. ASSUME NEW s \in SUBSET S, s # {}, g[s \ {c[s]}] \in V PROVE g[s] = step[c[s]][g[s \ {c[s]}]]
    <3>1. g[s] = Plus(g[s \ {c[s]}], of[c[s]])
      BY <1>3, <1>7, <2>2 DEF AddsUp
    <3> QED BY <1>3, <1>5, <2>2, <3>1
  <2>3. IsFoldInto(g, S, V, base, step, c)
    BY <2>1, <2>2 DEF IsFoldInto
  <2>4. \A s \in SUBSET S : g[s] \in V
    BY <1>2, <2>3, FoldHasType
  <2> QED BY <1>7, <2>4 DEF AddsUp
<1> QED BY <1>7, <1>8, BagSumChoice DEF g, V

(* The bag of documents counts the elements of a set, if each that is      *)
(* added does of a set of its own.                                         *)
Tally(bag, set, d) == IsFiniteSet(set) /\ Kpe!Copies(bag, d) = Cardinality(set)

Tallies(S, of, base, sets, own, d) ==
  /\ IsFiniteSet(S) /\ base \in DocBags /\ \A n \in S : of[n] \in DocBags
  /\ Tally(base, own, d) /\ \A n \in S : Tally(of[n], sets[n], d)
  /\ \A n \in S : own \cap sets[n] = {}
  /\ \A m, n \in S : m # n => sets[m] \cap sets[n] = {}

(* What disjoint sets count, each in its own bag, is what the sum counts   *)
(* of all of them.                                                         *)
LEMMA BagSumCounts ==
  ASSUME NEW S, NEW of, NEW base, NEW sets, NEW own, NEW d, Tallies(S, of, base, sets, own, d)
  PROVE  /\ BagSum(of, base, S) \in DocBags
         /\ Tally(BagSum(of, base, S), own \cup UNION {sets[n] : n \in S}, d)
<1>0. /\ IsFiniteSet(S) /\ base \in DocBags /\ \A n \in S : of[n] \in DocBags
      /\ Tally(base, own, d) /\ \A n \in S : Tally(of[n], sets[n], d)
      /\ \A n \in S : own \cap sets[n] = {}
      /\ \A m, n \in S : m # n => sets[m] \cap sets[n] = {}
  BY DEF Tallies
<1>1. PICK it \in [SUBSET S -> DocBags] : AddsUp(it, of, base, S) /\ BagSum(of, base, S) = it[S]
  BY <1>0, BagSumIs
<1> DEFINE all(s) == own \cup UNION {sets[n] : n \in s}
           Bad == {s \in SUBSET S : ~Tally(it[s], all(s), d)}
<1>2. Bad = {}
  <2> SUFFICES ASSUME Bad # {} PROVE FALSE
    OBVIOUS
  <2>1. PICK s \in Bad : \A t \in Bad : t \subseteq s => t = s
    <3>1. Bad \in SUBSET SUBSET S
      OBVIOUS
    <3> HIDE DEF Bad
    <3> QED BY <1>0, <3>1, MinSubset
  <2>2. s # {}
    <3> SUFFICES ASSUME s = {} PROVE FALSE
      OBVIOUS
    <3>1. it[{}] = base
      BY <1>1 DEF AddsUp
    <3>2. all(s) = own
      OBVIOUS
    <3> QED BY <1>0, <3>1, <3>2
  <2>3. PICK x \in s : it[s] = Plus(it[s \ {x}], of[x])
    <3>1. it[s] = Plus(it[s \ {CHOOSE x \in s : TRUE}], of[CHOOSE x \in s : TRUE])
      BY <1>1, <2>2 DEF AddsUp
    <3> QED BY <2>2, <3>1
  <2> DEFINE r == s \ {x}
  <2>4. r \in SUBSET S /\ x \in S /\ x \notin r /\ s = r \cup {x} /\ r \notin Bad
    <3>1. s \in SUBSET S
      BY <2>1
    <3>2. r \subseteq s /\ r # s
      OBVIOUS
    <3>3. r \notin Bad
      <4> HIDE DEF Bad, r
      <4> QED BY <2>1, <3>2
    <3> HIDE DEF Bad
    <3> QED BY <3>1, <3>3
  <2>5. Tally(it[r], all(r), d) /\ Tally(of[x], sets[x], d)
    BY <1>0, <2>4
  <2>6. all(s) = all(r) \cup sets[x]
    <3>1. \A n : n \in s <=> n \in r \/ n = x
      BY <2>4
    <3> HIDE DEF r
    <3> QED BY <3>1
  <2>7. all(r) \cap sets[x] = {}
    <3>1. \A n \in r : sets[n] \cap sets[x] = {}
      BY <1>0, <2>4
    <3> HIDE DEF r
    <3> QED BY <1>0, <2>4, <3>1
  <2>8. Kpe!Copies(it[s], d) = Kpe!Copies(it[r], d) + Kpe!Copies(of[x], d)
    <3>1. it[r] \in DocBags /\ of[x] \in DocBags
      BY <1>0, <1>1, <2>4
    <3> QED BY <2>3, <3>1, PlusAdds
  <2> HIDE DEF all, r
  <2>9. IsFiniteSet(all(s)) /\ Cardinality(all(s)) = Cardinality(all(r)) + Cardinality(sets[x])
    <3>1. IsFiniteSet(all(r)) /\ IsFiniteSet(sets[x])
      BY <2>5 DEF Tally
    <3>2. Cardinality(all(r)) \in Nat /\ Cardinality(sets[x]) \in Nat
      BY <3>1, FS_CardinalityType
    <3>3. Cardinality(all(r) \cap sets[x]) = 0
      BY <2>7, FS_EmptySet
    <3>4. /\ IsFiniteSet(all(r) \cup sets[x])
          /\ Cardinality(all(r) \cup sets[x])
               = Cardinality(all(r)) + Cardinality(sets[x]) - Cardinality(all(r) \cap sets[x])
      BY <3>1, FS_Union, Zenon
    <3>5. \A a, b, c \in Nat : c = 0 => a + b - c = a + b
      OBVIOUS
    <3> QED BY <2>6, <3>2, <3>3, <3>4, <3>5
  <2>10. Tally(it[s], all(s), d)
    BY <2>5, <2>8, <2>9 DEF Tally
  <2> QED BY <2>1, <2>10 DEF all
<1> QED BY <1>1, <1>2

-----------------------------------------------------------------------------
(* The order of the stack.  What is less deep takes all that is deeper and *)
(* stands right before it; those it takes itself stand for the rest.       *)
Under(e, m) == {n \in 1 .. m : \A i \in n .. m - 1 : e[i] > e[m]}

(* Who takes the bag of the n-th: the first later one that is less deep.   *)
TakerOf(e, l, n) == Kpe!Min({i \in n + 1 .. l : e[i] < e[n]} \cup {l + 1})

(* Whose bags the m-th takes.                                              *)
Taken(e, l, m) == {n \in 1 .. m - 1 : TakerOf(e, l, n) = m}

(* The first n-gram after one that is less deep takes it.                  *)
LEMMA TakerIs ==
  ASSUME NEW l \in Nat, NEW e \in [1 .. l -> Nat], NEW n \in 1 .. l, NEW m \in n + 1 .. l
  PROVE  TakerOf(e, l, n) = m <=> e[m] < e[n] /\ \A i \in n + 1 .. m - 1 : e[i] >= e[n]
<1> DEFINE T == {i \in n + 1 .. l : e[i] < e[n]} \cup {l + 1}
<1>1. T \in SUBSET Nat /\ T # {}
  OBVIOUS
<1>2. TakerOf(e, l, n) \in T /\ \A i \in T : TakerOf(e, l, n) <= i
  <2> HIDE DEF T
  <2>1. Kpe!Min(T) \in T /\ \A i \in T : Kpe!Min(T) <= i
    BY <1>1, LeastIs
  <2> QED BY <2>1 DEF T, TakerOf
<1> DEFINE t == TakerOf(e, l, n)
<1> HIDE DEF t
<1>3. m \in Nat /\ m <= l /\ \A i \in n + 1 .. l : e[i] \in Nat
  OBVIOUS
<1>4. e[n] \in Nat
  OBVIOUS
<1>5. ASSUME t = m PROVE e[m] < e[n] /\ \A i \in n + 1 .. m - 1 : e[i] >= e[n]
  <2>1. m \in T /\ m # l + 1
    BY <1>2, <1>3, <1>5 DEF t
  <2>2. e[m] < e[n]
    BY <2>1
  <2>3. ASSUME NEW i \in n + 1 .. m - 1 PROVE e[i] >= e[n]
    <3>1. i \in n + 1 .. l /\ ~(m <= i)
      BY <1>3
    <3>2. i \notin T
      BY <1>2, <1>5, <3>1 DEF t
    <3> QED BY <1>3, <1>4, <3>1, <3>2
  <2> QED BY <2>2, <2>3
<1>6. ASSUME e[m] < e[n], \A i \in n + 1 .. m - 1 : e[i] >= e[n] PROVE t = m
  <2>1. m \in T
    BY <1>6
  <2>2. t \in T /\ t <= m
    BY <1>2, <2>1 DEF t
  <2>3. t \in Nat /\ t >= n + 1
    BY <1>1, <2>2
  <2>4. t \in n + 1 .. l /\ e[t] < e[n]
    BY <1>3, <2>2, <2>3
  <2>5. ~(t \in n + 1 .. m - 1)
    BY <1>3, <1>4, <1>6, <2>4
  <2> QED BY <1>3, <2>2, <2>3, <2>5
<1> QED BY <1>5, <1>6 DEF t

(* Under an n-gram are, besides itself, those under the ones it takes,     *)
(* each under one of them only.                                            *)
LEMMA UnderSplits ==
  ASSUME NEW l \in Nat, NEW e \in [1 .. l -> Nat], NEW m \in 1 .. l
  PROVE  /\ Under(e, m) = {m} \cup UNION {Under(e, n) : n \in Taken(e, l, m)}
         /\ \A n \in Taken(e, l, m) : m \notin Under(e, n)
         /\ \A n, i \in Taken(e, l, m) : n # i => Under(e, n) \cap Under(e, i) = {}
<1>1. \A n \in 1 .. l : e[n] \in Nat /\ n \in Nat
  OBVIOUS
<1>2. \A n \in Taken(e, l, m) : /\ n \in 1 .. m - 1 /\ n \in 1 .. l /\ n < m /\ e[m] < e[n]
                                /\ \A i \in n + 1 .. m - 1 : e[i] >= e[n]
  <2> SUFFICES ASSUME NEW n \in Taken(e, l, m)
               PROVE  /\ n \in 1 .. m - 1 /\ n \in 1 .. l /\ n < m /\ e[m] < e[n]
                      /\ \A i \in n + 1 .. m - 1 : e[i] >= e[n]
    OBVIOUS
  <2>1. n \in 1 .. m - 1 /\ n \in 1 .. l /\ TakerOf(e, l, n) = m /\ m \in n + 1 .. l
    BY DEF Taken
  <2>2. e[m] < e[n] /\ \A i \in n + 1 .. m - 1 : e[i] >= e[n]
    BY <2>1, TakerIs
  <2> QED BY <2>1, <2>2
<1>3. ASSUME NEW n \in Taken(e, l, m), NEW h \in Under(e, n) PROVE h \in Under(e, m) /\ h # m
  <2>1. h \in 1 .. n /\ \A i \in h .. n - 1 : e[i] > e[n]
    BY DEF Under
  <2>2. ASSUME NEW i \in h .. m - 1 PROVE e[i] > e[m]
    <3>1. i \in 1 .. l /\ n \in 1 .. l /\ e[i] \in Nat /\ e[n] \in Nat /\ e[m] \in Nat
      BY <1>1, <1>2, <2>1
    <3>2. e[i] >= e[n]
      <4>1. i \in h .. n - 1 \/ i = n \/ i \in n + 1 .. m - 1
        BY <1>2, <2>1
      <4> QED BY <1>2, <2>1, <3>1, <4>1
    <3>3. e[m] < e[n]
      BY <1>2
    <3> QED BY <3>1, <3>2, <3>3
  <2>3. h \in 1 .. m /\ h # m
    BY <1>2, <2>1
  <2> QED BY <2>2, <2>3 DEF Under
<1>4. ASSUME NEW h \in Under(e, m), h # m PROVE \E n \in Taken(e, l, m) : h \in Under(e, n)
  <2>1. h \in 1 .. m - 1 /\ \A i \in h .. m - 1 : e[i] > e[m]
    BY <1>4 DEF Under
  <2> DEFINE D == h .. m - 1
             least(i) == \A j \in D : e[i] <= e[j]
  <2>2. D \in SUBSET (1 .. l) /\ D # {}
    <3>1. h \in Nat \ {0} /\ m \in Nat /\ m <= l /\ h <= m - 1
      BY <2>1
    <3>2. h \in D /\ \A i \in D : i \in 1 .. l
      BY <3>1
    <3> HIDE DEF D
    <3> QED BY <3>2
  <2>3. PICK i \in D : least(i)
    <3> DEFINE E == {e[j] : j \in D}
    <3>1. E \in SUBSET Nat /\ E # {}
      BY <1>1, <2>2
    <3>2. PICK a \in E : \A b \in E : a <= b
      <4> HIDE DEF E
      <4> QED BY <3>1, MinNat
    <3> HIDE DEF D
    <3> QED BY <3>2
  <2> DEFINE F == {j \in D : least(j)}
  <2>4. PICK n \in F : \A j \in F : n <= j
    <3>1. F \in SUBSET Nat /\ F # {}
      BY <2>2, <2>3
    <3> HIDE DEF F
    <3> QED BY <3>1, MinNat
  <2>5. n \in D /\ least(n) /\ n \in 1 .. l /\ n <= m - 1 /\ n \in 1 .. m - 1
    BY <2>1, <2>2, <2>4
  <2>6. ASSUME NEW j \in h .. n - 1 PROVE e[j] > e[n]
    <3>1. j \in D /\ ~(n <= j) /\ e[j] \in Nat /\ e[n] \in Nat
      <4>1. j \in D /\ ~(n <= j)
        BY <2>1, <2>5
      <4> HIDE DEF D
      <4> QED BY <1>1, <2>2, <2>5, <4>1
    <3>2. ~least(j)
      <4> HIDE DEF D, least
      <4> QED BY <2>4, <3>1
    <3>3. PICK a \in D : ~(e[j] <= e[a])
      BY <3>2
    <3>4. e[a] \in Nat /\ e[n] <= e[a]
      BY <1>1, <2>2, <2>5
    <3> HIDE DEF D, least
    <3> QED BY <3>1, <3>3, <3>4
  <2>7. e[m] < e[n] /\ \A j \in n + 1 .. m - 1 : e[j] >= e[n]
    <3>1. e[n] > e[m]
      BY <2>1, <2>5
    <3>2. ASSUME NEW j \in n + 1 .. m - 1 PROVE e[j] >= e[n]
      <4>1. j \in D
        BY <2>1, <2>5
      <4>2. e[n] <= e[j] /\ e[j] \in Nat /\ e[n] \in Nat
        BY <1>1, <2>2, <2>5, <4>1
      <4> QED BY <4>2
    <3>3. e[n] \in Nat /\ e[m] \in Nat
      BY <1>1, <2>5
    <3> QED BY <3>1, <3>2, <3>3
  <2>8. m \in n + 1 .. l
    BY <2>5
  <2>9. n \in Taken(e, l, m)
    <3>1. TakerOf(e, l, n) = m
      BY <2>5, <2>7, <2>8, TakerIs
    <3> QED BY <2>5, <3>1 DEF Taken
  <2>10. h \in Under(e, n)
    <3>1. h \in 1 .. n
      BY <2>1, <2>5
    <3> QED BY <2>6, <3>1 DEF Under
  <2> QED BY <2>9, <2>10
<1>5. m \in Under(e, m)
  BY DEF Under
<1>6. ASSUME NEW n \in Taken(e, l, m), NEW i \in Taken(e, l, m), n < i,
             NEW h \in Under(e, n), h \in Under(e, i)
      PROVE  FALSE
  <2>1. h \in 1 .. n /\ \A j \in h .. i - 1 : e[j] > e[i]
    BY <1>6 DEF Under
  <2>2. n \in h .. i - 1 /\ i \in n + 1 .. m - 1 /\ n \in 1 .. l /\ i \in 1 .. l
    BY <1>2, <1>6, <2>1
  <2>3. e[n] > e[i] /\ e[i] >= e[n] /\ e[n] \in Nat /\ e[i] \in Nat
    BY <1>1, <1>2, <2>1, <2>2
  <2> QED BY <2>3
<1>7. \A n, i \in Taken(e, l, m) : n # i => Under(e, n) \cap Under(e, i) = {}
  <2> SUFFICES ASSUME NEW n \in Taken(e, l, m), NEW i \in Taken(e, l, m), n # i,
                      NEW h \in Under(e, n), h \in Under(e, i)
               PROVE  FALSE
    OBVIOUS
  <2>1. n \in Nat /\ i \in Nat
    BY <1>2
  <2>2. n < i \/ i < n
    BY <2>1
  <2> QED BY <1>6, <2>2
<1> QED BY <1>3, <1>4, <1>5, <1>7

(* Each gets the documents of those it takes, as far as l.                 *)
IsDocs(got, b, e, l, upto) == got = [m \in 1 .. upto |-> BagSum(got, b[m], Taken(e, l, m))]

(* Sums of the same bags are the same.                                     *)
LEMMA BagSumSame ==
  ASSUME NEW S, NEW of, NEW as, NEW base, \A n \in S : of[n] = as[n]
  PROVE  BagSum(of, base, S) = BagSum(as, base, S)
<1> DEFINE c(s) == CHOOSE x \in s : TRUE
           lhs(it, s) == IF s = {} THEN base ELSE Plus(it[s \ {c(s)}], of[c(s)])
           rhs(it, s) == IF s = {} THEN base ELSE Plus(it[s \ {c(s)}], as[c(s)])
<1>1. ASSUME NEW it, NEW s \in SUBSET S PROVE lhs(it, s) = rhs(it, s)
  <2>1. s # {} => of[c(s)] = as[c(s)]
    OBVIOUS
  <2> HIDE DEF c
  <2> QED BY <2>1
<1>2. \A it : AddsUp(it, of, base, S) <=> it = [s \in SUBSET S |-> lhs(it, s)]
  BY DEF AddsUp
<1>3. \A it : AddsUp(it, as, base, S) <=> it = [s \in SUBSET S |-> rhs(it, s)]
  BY DEF AddsUp
<1> HIDE DEF lhs, rhs
<1>4. \A it : [s \in SUBSET S |-> lhs(it, s)] = [s \in SUBSET S |-> rhs(it, s)]
  BY <1>1
<1>5. \A it : AddsUp(it, of, base, S) <=> AddsUp(it, as, base, S)
  BY <1>2, <1>3, <1>4
<1>6. (CHOOSE it : AddsUp(it, of, base, S)) = (CHOOSE it : AddsUp(it, as, base, S))
  BY <1>5
<1> QED BY <1>6, BagSumChoice

LEMMA TakenAre ==
  ASSUME NEW e, NEW l \in Nat, NEW m \in 1 .. l
  PROVE  Taken(e, l, m) \in SUBSET (1 .. m - 1) /\ IsFiniteSet(Taken(e, l, m))
<1>1. Taken(e, l, m) \in SUBSET (1 .. m - 1)
  BY DEF Taken
<1>2. IsFiniteSet(1 .. m - 1)
  BY FS_Interval
<1> QED BY <1>1, <1>2, FS_Subset

(* There is such a function.                                               *)
LEMMA DocsExist ==
  ASSUME NEW l \in Nat, NEW e \in [1 .. l -> Nat], NEW b \in [1 .. l -> DocBags]
  PROVE  \E got \in [1 .. l -> DocBags] : IsDocs(got, b, e, l, l)
<1> DEFINE T == {u \in 0 .. l : \E got \in [1 .. u -> DocBags] : IsDocs(got, b, e, l, u)}
<1>1. 0 \in T
  <2> DEFINE got == [m \in 1 .. 0 |-> {}]
  <2>1. got \in [1 .. 0 -> DocBags]
    OBVIOUS
  <2>2. IsDocs(got, b, e, l, 0)
    BY DEF IsDocs
  <2> HIDE DEF got
  <2>3. \E g \in [1 .. 0 -> DocBags] : IsDocs(g, b, e, l, 0)
    BY <2>1, <2>2
  <2>4. 0 \in 0 .. l
    OBVIOUS
  <2> QED BY <2>3, <2>4
<1>2. ASSUME NEW u \in 1 .. l, u - 1 \in T PROVE u \in T
  <2>1. PICK old \in [1 .. u - 1 -> DocBags] : IsDocs(old, b, e, l, u - 1)
    BY <1>2
  <2> DEFINE new == BagSum(old, b[u], Taken(e, l, u))
             got == [m \in 1 .. u |-> IF m = u THEN new ELSE old[m]]
  <2>2. new \in DocBags
    <3>1. Taken(e, l, u) \in SUBSET (1 .. u - 1) /\ IsFiniteSet(Taken(e, l, u))
      BY TakenAre
    <3>2. b[u] \in DocBags /\ \A n \in Taken(e, l, u) : old[n] \in DocBags
      BY <2>1, <3>1
    <3>3. \E it \in [SUBSET Taken(e, l, u) -> DocBags] : new = it[Taken(e, l, u)]
      BY <3>1, <3>2, BagSumIs
    <3> QED BY <3>3
  <2> HIDE DEF new
  <2>3. got \in [1 .. u -> DocBags] /\ \A m \in 1 .. u - 1 : got[m] = old[m]
    BY <2>1, <2>2
  <2>4. ASSUME NEW m \in 1 .. u PROVE got[m] = BagSum(got, b[m], Taken(e, l, m))
    <3>1. m \in 1 .. l /\ Taken(e, l, m) \in SUBSET (1 .. m - 1)
      BY TakenAre
    <3>2. \A n \in Taken(e, l, m) : n \in 1 .. u - 1
      BY <3>1
    <3>3. \A n \in Taken(e, l, m) : got[n] = old[n]
      BY <2>3, <3>2
    <3>4. BagSum(got, b[m], Taken(e, l, m)) = BagSum(old, b[m], Taken(e, l, m))
      BY <3>3, BagSumSame
    <3>5. CASE m = u
      <4>1. got[m] = new
        BY <3>5
      <4> QED BY <3>4, <3>5, <4>1 DEF new
    <3>6. CASE m # u
      <4>1. m \in 1 .. u - 1
        BY <3>6
      <4>2. got[m] = old[m]
        BY <2>3, <4>1
      <4>3. old[m] = BagSum(old, b[m], Taken(e, l, m))
        BY <2>1, <4>1 DEF IsDocs
      <4> HIDE DEF got
      <4> QED BY <3>4, <4>2, <4>3
    <3> QED BY <3>5, <3>6
  <2> HIDE DEF got
  <2>5. IsDocs(got, b, e, l, u)
    <3>1. got = [m \in 1 .. u |-> got[m]]
      BY <2>3
    <3>2. [m \in 1 .. u |-> got[m]] = [m \in 1 .. u |-> BagSum(got, b[m], Taken(e, l, m))]
      BY <2>4
    <3> QED BY <3>1, <3>2 DEF IsDocs
  <2> QED BY <2>3, <2>5
<1>3. 0 .. l \subseteq T
  <2> HIDE DEF T
  <2> QED BY <1>1, <1>2, UpToInduction
<1> QED BY <1>3

(* The sets of all that stand below it.                                    *)
Pooled(sets, e, m) == UNION {sets[n] : n \in Under(e, m)}

(* What each one gets counts them.                                         *)
LEMMA DocsCount ==
  ASSUME NEW l \in Nat, NEW e \in [1 .. l -> Nat], NEW b \in [1 .. l -> DocBags],
         NEW got, IsDocs(got, b, e, l, l), NEW d, NEW sets,
         \A n \in 1 .. l : Tally(b[n], sets[n], d),
         \A m, n \in 1 .. l : m # n => sets[m] \cap sets[n] = {}
  PROVE  \A m \in 1 .. l : got[m] \in DocBags /\ Tally(got[m], Pooled(sets, e, m), d)
<1> DEFINE all(m) == UNION {sets[n] : n \in Under(e, m)}
           Good(m) == got[m] \in DocBags /\ Tally(got[m], all(m), d)
           Bad == {m \in 1 .. l : ~Good(m)}
<1>1. SUFFICES ASSUME Bad # {} PROVE FALSE
  BY DEF Pooled
<1>2. PICK m \in Bad : \A n \in Bad : m <= n
  <2>1. Bad \in SUBSET Nat
    OBVIOUS
  <2> HIDE DEF Bad
  <2> QED BY <1>1, <2>1, MinNat
<1> DEFINE S == Taken(e, l, m)
           below == [n \in S |-> all(n)]
<1>3. m \in 1 .. l /\ S \in SUBSET (1 .. m - 1) /\ IsFiniteSet(S)
  BY <1>2, TakenAre
<1>4. \A n \in S : n \in 1 .. l /\ n < m
  BY <1>3
<1>5. \A n \in S : Good(n)
  <2> HIDE DEF S, Good
  <2>1. m \in Nat /\ \A n \in S : n \in Nat
    BY <1>3, <1>4
  <2> QED BY <1>2, <1>4, <2>1
<1>6. /\ Under(e, m) = {m} \cup UNION {Under(e, n) : n \in S}
      /\ \A n \in S : m \notin Under(e, n)
      /\ \A n, i \in S : n # i => Under(e, n) \cap Under(e, i) = {}
  BY <1>3, UnderSplits
<1>7. \A n \in S : Under(e, n) \in SUBSET (1 .. l)
  <2> SUFFICES ASSUME NEW n \in S PROVE Under(e, n) \in SUBSET (1 .. l)
    OBVIOUS
  <2>1. n \in 1 .. l /\ Under(e, n) \in SUBSET (1 .. n)
    BY <1>4 DEF Under
  <2> QED BY <2>1
<1>8. got[m] = BagSum(got, b[m], S)
  BY <1>3 DEF IsDocs
<1> HIDE DEF S
<1>9. \A n \in S : sets[m] \cap below[n] = {}
  <2> SUFFICES ASSUME NEW n \in S, NEW x \in sets[m], x \in all(n) PROVE FALSE
    OBVIOUS
  <2>1. PICK i \in Under(e, n) : x \in sets[i]
    OBVIOUS
  <2>2. i \in 1 .. l /\ i # m
    BY <1>6, <1>7
  <2> QED BY <1>3, <2>1, <2>2
<1>10. \A n, i \in S : n # i => below[n] \cap below[i] = {}
  <2> SUFFICES ASSUME NEW n \in S, NEW i \in S, n # i, NEW x, x \in all(n), x \in all(i) PROVE FALSE
    OBVIOUS
  <2>1. PICK p \in Under(e, n) : x \in sets[p]
    OBVIOUS
  <2>2. PICK q \in Under(e, i) : x \in sets[q]
    OBVIOUS
  <2>3. p # q /\ p \in 1 .. l /\ q \in 1 .. l
    BY <1>6, <1>7
  <2> QED BY <2>1, <2>2, <2>3
<1>11. \A n \in S : got[n] \in DocBags /\ Tally(got[n], below[n], d)
  BY <1>5
<1>12. b[m] \in DocBags /\ Tally(b[m], sets[m], d)
  BY <1>3
<1>13. all(m) = sets[m] \cup UNION {below[n] : n \in S}
  <2>1. ASSUME NEW x \in all(m) PROVE x \in sets[m] \cup UNION {below[n] : n \in S}
    <3>1. PICK i \in Under(e, m) : x \in sets[i]
      OBVIOUS
    <3>2. CASE i = m
      BY <3>1, <3>2
    <3>3. CASE i # m
      <4>1. PICK n \in S : i \in Under(e, n)
        BY <1>6, <3>3
      <4>2. x \in below[n]
        BY <3>1, <4>1
      <4> HIDE DEF below
      <4> QED BY <4>2
    <3> QED BY <3>2, <3>3
  <2>2. ASSUME NEW x \in sets[m] PROVE x \in all(m)
    BY <1>6
  <2>3. ASSUME NEW n \in S, NEW x \in below[n] PROVE x \in all(m)
    <3>1. PICK i \in Under(e, n) : x \in sets[i]
      OBVIOUS
    <3>2. i \in Under(e, m)
      BY <1>6
    <3> QED BY <3>1, <3>2
  <2> HIDE DEF all, below
  <2> QED BY <2>1, <2>2, <2>3
<1> HIDE DEF below, all
<1>14. /\ BagSum(got, b[m], S) \in DocBags
       /\ Tally(BagSum(got, b[m], S), sets[m] \cup UNION {below[n] : n \in S}, d)
  <2> DEFINE base == b[m]
             own == sets[m]
  <2>1. IsFiniteSet(S) /\ base \in DocBags /\ Tally(base, own, d)
    BY <1>3, <1>12
  <2>2. \A n \in S : got[n] \in DocBags
    BY <1>11
  <2>3. \A n \in S : Tally(got[n], below[n], d)
    BY <1>11
  <2>4. \A n \in S : own \cap below[n] = {}
    BY <1>9
  <2> HIDE DEF base, own
  <2>5. /\ BagSum(got, base, S) \in DocBags
        /\ Tally(BagSum(got, base, S), own \cup UNION {below[n] : n \in S}, d)
    <3>1. Tallies(S, got, base, below, own, d)
      BY <2>1, <2>2, <2>3, <2>4, <1>10 DEF Tallies
    <3> QED BY <3>1, BagSumCounts
  <2> QED BY <2>5 DEF base, own
<1>15. Good(m)
  BY <1>8, <1>13, <1>14
<1> QED BY <1>2, <1>15

-----------------------------------------------------------------------------
(* What sequences of terms begin with together.                            *)
Shares(s, t, n) == n <= Len(s) /\ n <= Len(t) /\ \A i \in 1 .. n : s[i] = t[i]

(* Beginnings are the same when the terms are.                             *)
LEMMA BeginsSame ==
  ASSUME NEW s \in Seq(Nat), NEW t \in Seq(Nat), NEW n \in Nat, n <= Len(s), n <= Len(t)
  PROVE  SubSeq(s, 1, n) = SubSeq(t, 1, n) <=> Shares(s, t, n)
<1>1. SubSeq(s, 1, n) = [m \in 1 .. n |-> s[m]] /\ SubSeq(t, 1, n) = [m \in 1 .. n |-> t[m]]
  OBVIOUS
<1> QED BY <1>1 DEF Shares

(* The depth of an n-gram is all that it shares (GetInc).                  *)
LEMMA IncIs ==
  ASSUME NEW s \in Seq(Nat), NEW t \in Seq(Nat)
  PROVE  Kpe!GetInc(s, t) \in Nat /\ \A n \in Nat : Shares(s, t, n) <=> n <= Kpe!GetInc(s, t)
<1> DEFINE both == {Len(s), Len(t)}
           T == {n \in 0 .. Kpe!Min(both) : SubSeq(s, 1, n) = SubSeq(t, 1, n)}
<1>1. Len(s) \in Nat /\ Len(t) \in Nat
  OBVIOUS
<1>2. /\ Kpe!Min(both) \in Nat
      /\ \A n \in Nat : n <= Kpe!Min(both) <=> n <= Len(s) /\ n <= Len(t)
  <2>1. both \in SUBSET Nat /\ both # {} /\ Len(s) \in both /\ Len(t) \in both
    BY <1>1
  <2>2. Kpe!Min(both) \in both /\ \A n \in both : Kpe!Min(both) <= n
    <3> HIDE DEF both
    <3> QED BY <2>1, LeastIs
  <2>3. Kpe!Min(both) = Len(s) \/ Kpe!Min(both) = Len(t)
    BY <2>2
  <2> HIDE DEF both
  <2>4. Kpe!Min(both) <= Len(s) /\ Kpe!Min(both) <= Len(t)
    BY <2>1, <2>2
  <2> QED BY <1>1, <2>3, <2>4
<1> HIDE DEF both
<1>3. \A n \in Nat : n \in T <=> Shares(s, t, n)
  <2> SUFFICES ASSUME NEW n \in Nat PROVE n \in T <=> Shares(s, t, n)
    OBVIOUS
  <2>1. n \in T <=> n <= Kpe!Min(both) /\ SubSeq(s, 1, n) = SubSeq(t, 1, n)
    BY <1>2
  <2>2. n <= Len(s) /\ n <= Len(t) => (SubSeq(s, 1, n) = SubSeq(t, 1, n) <=> Shares(s, t, n))
    BY BeginsSame
  <2> QED BY <1>2, <2>1, <2>2 DEF Shares
<1>4. 0 \in T /\ T \in SUBSET Nat
  <2>1. T \in SUBSET Nat
    BY <1>2
  <2> HIDE DEF T
  <2> QED BY <1>1, <1>3, <2>1 DEF Shares
<1>5. PICK m \in T : \A n \in T : m >= n
  <2> DEFINE U == T \ {0}
             top == Kpe!Min(both)
  <2>1. CASE U = {}
    BY <1>4, <2>1
  <2>2. CASE U # {}
    <3>1. U \in SUBSET (1 .. top) /\ top \in Nat
      BY <1>2
    <3>2. PICK m \in U : \A n \in U : n <= m
      <4> HIDE DEF U, top
      <4> QED BY <2>2, <3>1, LastOfNumbers
    <3>3. m \in T /\ m \in Nat /\ \A n \in T : n = 0 \/ n \in U
      BY <1>4, <3>2
    <3> HIDE DEF T
    <3>4. \A n \in T : m >= n
      BY <1>4, <3>2, <3>3
    <3> QED BY <3>3, <3>4
  <2> QED BY <2>1, <2>2
<1>6. Kpe!GetInc(s, t) = Kpe!Max(T)
  BY DEF Kpe!GetInc, both
<1> HIDE DEF T
<1>7. Kpe!Max(T) \in T /\ \A n \in T : Kpe!Max(T) >= n
  BY <1>5 DEF Kpe!Max
<1> DEFINE g == Kpe!GetInc(s, t)
<1>8. g \in Nat /\ Shares(s, t, g) /\ \A n \in T : g >= n
  BY <1>3, <1>4, <1>6, <1>7
<1> HIDE DEF g
<1>9. ASSUME NEW n \in Nat PROVE Shares(s, t, n) <=> n <= g
  <2>1. Shares(s, t, n) => n <= g
    BY <1>3, <1>8
  <2>2. n <= g => Shares(s, t, n)
    BY <1>1, <1>8 DEF Shares
  <2> QED BY <2>1, <2>2
<1> QED BY <1>8, <1>9 DEF g

LEMMA StartsIs ==
  ASSUME NEW s \in Seq(Nat), NEW t \in Seq(Nat)
  PROVE  Kpe!StartsWith(s, t) <=> Shares(s, t, Len(t))
<1>1. Len(s) \in Nat /\ Len(t) \in Nat /\ SubSeq(t, 1, Len(t)) = t
  OBVIOUS
<1>2. Len(t) <= Len(s) => (SubSeq(s, 1, Len(t)) = t <=> Shares(s, t, Len(t)))
  <2> SUFFICES ASSUME Len(t) <= Len(s) PROVE SubSeq(s, 1, Len(t)) = t <=> Shares(s, t, Len(t))
    OBVIOUS
  <2>1. Len(t) <= Len(t)
    BY <1>1
  <2>2. SubSeq(s, 1, Len(t)) = SubSeq(t, 1, Len(t)) <=> Shares(s, t, Len(t))
    BY <1>1, <2>1, BeginsSame
  <2> QED BY <1>1, <2>2
<1> QED BY <1>1, <1>2 DEF Kpe!StartsWith, Shares

(* What comes first does not begin with what comes after it.               *)
LEMMA LexLonger ==
  ASSUME NEW s \in Seq(Nat), NEW t \in Seq(Nat), LexLess(s, t)
  PROVE  ~Shares(s, t, Len(t))
<1> SUFFICES ASSUME Shares(s, t, Len(t)) PROVE FALSE
  OBVIOUS
<1>1. PICK n \in 1 .. Len(t) : n <= Len(s) + 1 /\ (n = Len(s) + 1 \/ s[n] < t[n])
  BY DEF LexLess
<1>2. Len(s) \in Nat /\ Len(t) \in Nat /\ Len(t) <= Len(s) /\ \A i \in 1 .. Len(t) : s[i] = t[i] /\ t[i] \in Nat
  BY DEF Shares
<1> QED BY <1>1, <1>2

(* What is between two shares what they do.                                *)
LEMMA LexBetween ==
  ASSUME NEW s \in Seq(Nat), NEW r \in Seq(Nat), NEW t \in Seq(Nat), NEW n \in Nat,
         LexLess(s, r), LexLess(r, t), Shares(s, t, n)
  PROVE  Shares(s, r, n) /\ Shares(r, t, n)
<1>1. /\ Len(s) \in Nat /\ Len(r) \in Nat /\ Len(t) \in Nat /\ n <= Len(s) /\ n <= Len(t)
      /\ \A i \in 1 .. n : s[i] = t[i]
  BY DEF Shares
<1>2. /\ \A i \in 1 .. Len(s) : s[i] \in Nat
      /\ \A i \in 1 .. Len(r) : r[i] \in Nat
      /\ \A i \in 1 .. Len(t) : t[i] \in Nat
  OBVIOUS
<1>n. \A i \in 1 .. n : i \in 1 .. Len(s) /\ i \in 1 .. Len(t) /\ i # Len(s) + 1 /\ i \in Nat
  <2>1. \A a \in Nat : n <= a => \A i \in 1 .. n : i \in 1 .. a /\ i # a + 1 /\ i \in Nat
    OBVIOUS
  <2> QED BY <1>1, <2>1
<1> DEFINE F == {i \in 1 .. n : i > Len(r) \/ r[i] # s[i]}
<1>3. F = {}
  <2> SUFFICES ASSUME F # {} PROVE FALSE
    OBVIOUS
  <2>1. PICK i \in F : \A j \in F : i <= j
    <3>1. F \in SUBSET Nat
      OBVIOUS
    <3> HIDE DEF F
    <3> QED BY <3>1, MinNat
  <2>2. i \in 1 .. n /\ (i > Len(r) \/ r[i] # s[i])
    BY <2>1
  <2>3. \A j \in 1 .. i - 1 : j \in 1 .. n /\ j <= Len(r) /\ r[j] = s[j]
    <3> SUFFICES ASSUME NEW j \in 1 .. i - 1 PROVE j \in 1 .. n /\ j <= Len(r) /\ r[j] = s[j]
      OBVIOUS
    <3>1. j \in 1 .. n /\ ~(i <= j)
      BY <2>2
    <3>2. j \notin F
      <4> HIDE DEF F
      <4> QED BY <2>1, <3>1
    <3> QED BY <1>1, <3>1, <3>2
  <2>4. PICK a \in 1 .. Len(r) : /\ a <= Len(s) + 1 /\ \A m \in 1 .. a - 1 : s[m] = r[m]
                                 /\ a = Len(s) + 1 \/ s[a] < r[a]
    BY DEF LexLess
  <2>5. PICK b \in 1 .. Len(t) : /\ b <= Len(r) + 1 /\ \A m \in 1 .. b - 1 : r[m] = t[m]
                                 /\ b = Len(r) + 1 \/ r[b] < t[b]
    BY DEF LexLess
  <2>6. a = i
    <3>1. ~(a < i)
      <4> SUFFICES ASSUME a < i PROVE FALSE
        OBVIOUS
      <4>1. a \in 1 .. i - 1
        BY <2>2
      <4>2. r[a] = s[a] /\ a \in 1 .. n
        BY <2>3, <4>1
      <4>3. r[a] \in Nat
        BY <1>2
      <4>4. a # Len(s) + 1
        BY <1>1, <4>2
      <4> QED BY <2>4, <4>2, <4>3, <4>4
    <3>2. ~(i < a)
      <4> SUFFICES ASSUME i < a PROVE FALSE
        OBVIOUS
      <4>1. i \in 1 .. a - 1 /\ i <= Len(r)
        BY <1>1, <2>2
      <4> QED BY <1>1, <2>2, <2>4, <4>1
    <3> QED BY <1>1, <2>2, <3>1, <3>2
  <2>7. i \in 1 .. Len(r) /\ i \in 1 .. Len(s) /\ i \in 1 .. Len(t) /\ s[i] < r[i] /\ s[i] = t[i]
    <3>1. i \in 1 .. Len(r) /\ i \in 1 .. n
      BY <2>2, <2>6
    <3>2. i \in 1 .. Len(s) /\ i \in 1 .. Len(t) /\ i # Len(s) + 1
      BY <1>n, <3>1
    <3> QED BY <1>1, <2>4, <2>6, <3>1, <3>2
  <2>8. ~(b < i)
    <3> SUFFICES ASSUME b < i PROVE FALSE
      OBVIOUS
    <3>1. b \in 1 .. i - 1
      BY <2>2
    <3>2. r[b] = s[b] /\ b \in 1 .. n /\ b <= Len(r)
      BY <2>3, <3>1
    <3>3. r[b] = t[b]
      BY <1>1, <3>2
    <3>a. b \in 1 .. Len(r)
      <4>1. b \in Nat /\ 1 <= b
        OBVIOUS
      <4> QED BY <1>1, <3>2, <4>1
    <3>4. r[b] \in Nat /\ b # Len(r) + 1
      <4>1. r[b] \in Nat
        BY <1>2, <3>a
      <4>2. b # Len(r) + 1
        BY <1>1, <3>a
      <4> QED BY <4>1, <4>2
    <3>5. \A x \in Nat : ~(x < x)
      OBVIOUS
    <3> QED BY <2>5, <3>3, <3>4, <3>5
  <2>9. ~(i < b)
    <3> SUFFICES ASSUME i < b PROVE FALSE
      OBVIOUS
    <3>1. r[i] = t[i]
      BY <2>5, <2>7
    <3> QED BY <1>2, <2>7, <3>1
  <2>10. b = i
    BY <1>1, <2>2, <2>8, <2>9
  <2>11. r[i] < t[i]
    BY <1>1, <2>5, <2>7, <2>10
  <2>12. r[i] \in Nat /\ t[i] \in Nat
    BY <1>2, <2>7
  <2>13. \A x, y \in Nat : ~(x < y /\ y < x)
    OBVIOUS
  <2> QED BY <2>7, <2>11, <2>12, <2>13
<1>4. \A i \in 1 .. n : i <= Len(r) /\ r[i] = s[i]
  <2> SUFFICES ASSUME NEW i \in 1 .. n PROVE ~(i > Len(r)) /\ r[i] = s[i]
    BY <1>1, <1>n
  <2>1. i \notin F
    BY <1>3
  <2> QED BY <2>1
<1>5. n <= Len(r)
  <2>1. n = 0 \/ n \in 1 .. n
    OBVIOUS
  <2> QED BY <1>1, <1>4, <2>1
<1> QED BY <1>1, <1>4, <1>5 DEF Shares

(* Sharing terms is symmetric and transitive, and with terms any fewer are *)
(* shared.                                                                 *)
LEMMA SharesIs ==
  ASSUME NEW s \in Seq(Nat), NEW t \in Seq(Nat), NEW n \in Nat, Shares(s, t, n)
  PROVE  /\ n <= Len(s) /\ n <= Len(t) /\ Shares(t, s, n)
         /\ \A i \in Nat : i <= n => Shares(s, t, i)
         /\ \A r \in Seq(Nat) : Shares(t, r, n) => Shares(s, r, n)
<1>1. /\ Len(s) \in Nat /\ Len(t) \in Nat /\ n <= Len(s) /\ n <= Len(t)
      /\ \A i \in 1 .. n : s[i] = t[i]
  BY DEF Shares
<1>2. ASSUME NEW i \in Nat, i <= n PROVE Shares(s, t, i)
  <2>1. i <= Len(s) /\ i <= Len(t) /\ \A j \in 1 .. i : j \in 1 .. n
    BY <1>1, <1>2
  <2> QED BY <1>1, <2>1 DEF Shares
<1> QED BY <1>1, <1>2 DEF Shares

(* A sequence shares itself, and one that shares all of another and more   *)
(* comes after it.                                                         *)
LEMMA SharesAll ==
  ASSUME NEW s \in Seq(Nat)
  PROVE  /\ Len(s) \in Nat /\ \A n \in Nat : n <= Len(s) => Shares(s, s, n)
         /\ \A t \in Seq(Nat) : Shares(s, t, Len(s)) /\ Len(s) < Len(t) => LexLess(s, t)
<1>1. Len(s) \in Nat /\ \A n \in Nat : n <= Len(s) => Shares(s, s, n)
  BY DEF Shares
<1>2. ASSUME NEW t \in Seq(Nat), Shares(s, t, Len(s)), Len(s) < Len(t) PROVE LexLess(s, t)
  <2>1. s # t /\ Len(t) \in Nat
    BY <1>1, <1>2
  <2>2. ~LexLess(t, s)
    <3> SUFFICES ASSUME LexLess(t, s) PROVE FALSE
      OBVIOUS
    <3>1. ~Shares(t, s, Len(s))
      BY LexLonger
    <3>2. Shares(t, s, Len(s))
      BY <1>1, <1>2, SharesIs
    <3> QED BY <3>1, <3>2
  <2> QED BY <2>1, <2>2, LexOrders
<1> QED BY <1>1, <1>2

(* N-grams that are processed together: they come in the order of the      *)
(* file, and each is as deep as what it shares with the one before.        *)
InRun(l, t, inc) ==
  /\ l \in Nat /\ t \in [1 .. l -> Seq(Nat)] /\ inc \in [1 .. l -> Nat]
  /\ \A m, n \in 1 .. l : m < n => LexLess(t[m], t[n])
  /\ l >= 1 => inc[1] = 0
  /\ \A m \in 2 .. l : inc[m] >= 1 /\ \A n \in Nat : Shares(t[m - 1], t[m], n) <=> n <= inc[m]

(* Two n-grams of a run share as many terms as all between them share with *)
(* the one before.                                                         *)
LEMMA RunShares ==
  ASSUME NEW l, NEW t, NEW inc, InRun(l, t, inc), NEW a \in 1 .. l, NEW b \in a + 1 .. l,
         NEW n \in Nat, n <= Len(t[a])
  PROVE  Shares(t[a], t[b], n) <=> \A i \in a + 1 .. b : inc[i] >= n
<1>1. /\ l \in Nat /\ \A i \in 1 .. l : t[i] \in Seq(Nat) /\ inc[i] \in Nat
      /\ \A i, j \in 1 .. l : i < j => LexLess(t[i], t[j])
      /\ \A m \in 2 .. l : inc[m] >= 1 /\ \A x \in Nat : Shares(t[m - 1], t[m], x) <=> x <= inc[m]
  BY DEF InRun
<1>2. b \in 1 .. l /\ a < b /\ \A i \in a + 1 .. b : i \in 2 .. l /\ i \in 1 .. l /\ i - 1 \in 1 .. l
  BY <1>1
<1>s. Shares(t[a], t[a], n)
  BY <1>1, SharesAll
<1>3. ASSUME Shares(t[a], t[b], n), NEW i \in a + 1 .. b PROVE inc[i] >= n
  <2>1. Shares(t[a], t[i], n)
    <3>1. CASE i = b
      BY <1>3, <3>1
    <3>2. CASE i # b
      <4>1. LexLess(t[a], t[i]) /\ LexLess(t[i], t[b])
        BY <1>1, <1>2, <3>2
      <4> QED BY <1>1, <1>2, <1>3, <4>1, LexBetween
    <3> QED BY <3>1, <3>2
  <2>2. Shares(t[a], t[i - 1], n)
    <3>1. CASE i - 1 = a
      BY <1>s, <3>1
    <3>2. CASE i - 1 # a
      <4>1. a < i - 1 /\ i - 1 < b
        BY <3>2
      <4>2. LexLess(t[a], t[i - 1]) /\ LexLess(t[i - 1], t[b])
        BY <1>1, <1>2, <4>1
      <4> QED BY <1>1, <1>2, <1>3, <4>2, LexBetween
    <3> QED BY <3>1, <3>2
  <2>3. t[i - 1] \in Seq(Nat) /\ t[i] \in Seq(Nat) /\ t[a] \in Seq(Nat)
    BY <1>1, <1>2
  <2>4. Shares(t[i - 1], t[i], n)
    BY <2>1, <2>2, <2>3, SharesIs
  <2>5. n <= inc[i] /\ inc[i] \in Nat
    BY <1>1, <1>2, <2>4
  <2> QED BY <2>5
<1>4. ASSUME \A i \in a + 1 .. b : inc[i] >= n PROVE Shares(t[a], t[b], n)
  <2> DEFINE T == {j \in 0 .. b - a : Shares(t[a], t[a + j], n)}
  <2>1. 0 \in T /\ b - a \in Nat
    BY <1>s, <1>2
  <2>2. ASSUME NEW j \in 1 .. b - a, j - 1 \in T PROVE j \in T
    <3> DEFINE i == a + j
    <3>1. i \in a + 1 .. b /\ i - 1 = a + (j - 1)
      OBVIOUS
    <3>2. i \in 2 .. l /\ i \in 1 .. l /\ i - 1 \in 1 .. l /\ inc[i] >= n
      BY <1>2, <1>4, <3>1
    <3>3. Shares(t[a], t[i - 1], n)
      BY <2>2, <3>1
    <3> HIDE DEF i
    <3>4. Shares(t[i - 1], t[i], n)
      BY <1>1, <3>2
    <3>5. t[i - 1] \in Seq(Nat) /\ t[i] \in Seq(Nat) /\ t[a] \in Seq(Nat)
      BY <1>1, <3>2
    <3>6. Shares(t[a], t[i], n)
      BY <3>3, <3>4, <3>5, SharesIs
    <3> QED BY <3>6 DEF i
  <2>3. 0 .. b - a \subseteq T
    <3> HIDE DEF T
    <3> QED BY <2>1, <2>2, UpToInduction
  <2>4. b - a \in T /\ a + (b - a) = b
    BY <2>1, <2>3
  <2> QED BY <2>4
<1> QED BY <1>3, <1>4

(* The post-order.  Each is popped by the first after it that is not       *)
(* deeper.                                                                 *)
Popped(inc, l, m) == Kpe!Min({n \in m + 1 .. l : inc[n] <= inc[m]} \cup {l + 1})

(* The order of popping.                                                   *)
PoppedFirst(inc, l, m, n) ==
  \/ Popped(inc, l, m) < Popped(inc, l, n)
  \/ Popped(inc, l, m) = Popped(inc, l, n) /\ m > n

(* All until then are deeper.                                              *)
LEMMA PoppedIs ==
  ASSUME NEW l \in Nat, NEW inc \in [1 .. l -> Nat], NEW m \in 1 .. l
  PROVE  /\ Popped(inc, l, m) \in m + 1 .. l + 1
         /\ \A n \in m + 1 .. Popped(inc, l, m) - 1 : n \in 1 .. l /\ inc[n] > inc[m]
         /\ Popped(inc, l, m) <= l => inc[Popped(inc, l, m)] <= inc[m]
<1> DEFINE T == {n \in m + 1 .. l : inc[n] <= inc[m]} \cup {l + 1}
           p == Popped(inc, l, m)
<1>1. T \in SUBSET Nat /\ T # {} /\ T \in SUBSET (m + 1 .. l + 1)
  OBVIOUS
<1>2. p \in T /\ \A n \in T : p <= n
  <2>1. p = Kpe!Min(T)
    BY DEF Popped
  <2> HIDE DEF T, p
  <2> QED BY <1>1, <2>1, LeastIs
<1> HIDE DEF p
<1>3. p \in m + 1 .. l + 1
  <2> HIDE DEF T
  <2> QED BY <1>1, <1>2
<1>4. ASSUME NEW n \in m + 1 .. p - 1 PROVE n \in 1 .. l /\ inc[n] > inc[m]
  <2>1. n \in m + 1 .. l /\ n \in 1 .. l /\ ~(p <= n)
    BY <1>3
  <2>2. n \notin T
    BY <1>2, <2>1
  <2>3. ~(inc[n] <= inc[m]) /\ inc[n] \in Nat /\ inc[m] \in Nat
    BY <2>1, <2>2
  <2> QED BY <2>1, <2>3
<1>5. p <= l => inc[p] <= inc[m]
  BY <1>2
<1> QED BY <1>3, <1>4, <1>5 DEF p

(* What is deeper, without a break, comes first; and between it and what   *)
(* it is below are such alone.                                             *)
LEMMA StandsBetween ==
  ASSUME NEW l \in Nat, NEW inc \in [1 .. l -> Nat], NEW g \in 1 .. l, NEW h \in g + 1 .. l,
         \A i \in g + 1 .. h : inc[i] > inc[g]
  PROVE  /\ PoppedFirst(inc, l, h, g)
         /\ \A j \in 1 .. l : PoppedFirst(inc, l, h, j) /\ PoppedFirst(inc, l, j, g) =>
              j > g /\ inc[j] > inc[g] /\ j < Popped(inc, l, g)
<1> DEFINE p(x) == Popped(inc, l, x)
<1>1. \A x \in 1 .. l : /\ p(x) \in x + 1 .. l + 1
                        /\ \A n \in x + 1 .. p(x) - 1 : n \in 1 .. l /\ inc[n] > inc[x]
                        /\ p(x) <= l => inc[p(x)] <= inc[x]
  BY PoppedIs
<1>2. \A x, y : PoppedFirst(inc, l, x, y) <=> p(x) < p(y) \/ (p(x) = p(y) /\ x > y)
  BY DEF PoppedFirst
<1> HIDE DEF p
<1>3. \A x \in 1 .. l : inc[x] \in Nat /\ x \in Nat /\ p(x) \in Nat /\ x < p(x)
  <2> SUFFICES ASSUME NEW x \in 1 .. l PROVE p(x) \in Nat /\ x < p(x)
    OBVIOUS
  <2>1. p(x) \in x + 1 .. l + 1
    BY <1>1
  <2> QED BY <2>1
<1>4. h \in 1 .. l /\ h > g
  OBVIOUS
<1>5. p(g) > h
  <2> SUFFICES ASSUME p(g) <= h PROVE FALSE
    BY <1>3, <1>4
  <2>1. p(g) \in g + 1 .. h /\ p(g) <= l
    BY <1>1, <1>3, <1>4
  <2>2. p(g) \in 1 .. l /\ inc[p(g)] > inc[g] /\ inc[p(g)] <= inc[g]
    <3>1. p(g) \in 1 .. l /\ inc[p(g)] > inc[g]
      BY <1>4, <2>1
    <3>2. inc[p(g)] <= inc[g]
      BY <1>1, <2>1
    <3> QED BY <3>1, <3>2
  <2> QED BY <1>3, <2>2
<1>6. p(h) <= p(g)
  <2> SUFFICES ASSUME p(g) < p(h) PROVE FALSE
    BY <1>3, <1>4
  <2>1. p(g) \in h + 1 .. p(h) - 1
    BY <1>3, <1>4, <1>5
  <2>2. p(g) \in 1 .. l /\ inc[p(g)] > inc[h]
    BY <1>1, <1>4, <2>1
  <2>3. inc[p(g)] <= inc[g] /\ inc[h] > inc[g]
    BY <1>1, <1>4, <2>2
  <2>4. inc[p(g)] \in Nat /\ inc[h] \in Nat /\ inc[g] \in Nat
    BY <1>3, <1>4, <2>2
  <2> QED BY <2>2, <2>3, <2>4
<1>7. PoppedFirst(inc, l, h, g)
  BY <1>2, <1>3, <1>4, <1>6
<1>8. ASSUME NEW j \in 1 .. l, PoppedFirst(inc, l, h, j), PoppedFirst(inc, l, j, g)
      PROVE  j > g /\ inc[j] > inc[g] /\ j < p(g)
  <2>1. p(h) <= p(j) /\ p(j) <= p(g) /\ (p(j) < p(g) \/ j > g)
    BY <1>2, <1>3, <1>4, <1>8
  <2>2. j < p(j) /\ h < p(h) /\ g < p(g)
    BY <1>3, <1>4
  <2>3. j > g
    <3> SUFFICES ASSUME j <= g PROVE FALSE
      BY <1>3
    <3>1. p(j) < p(g) /\ g < p(j)
      BY <1>3, <1>4, <2>1, <2>2
    <3>2. j # g
      BY <3>1, <1>3
    <3>3. g \in j + 1 .. p(j) - 1 /\ p(j) \in g + 1 .. p(g) - 1
      BY <1>3, <3>1, <3>2
    <3>4. inc[g] > inc[j] /\ p(j) \in 1 .. l /\ inc[p(j)] > inc[g]
      BY <1>1, <3>3
    <3>5. inc[p(j)] <= inc[j]
      BY <1>1, <3>4
    <3>6. inc[p(j)] \in Nat /\ inc[j] \in Nat /\ inc[g] \in Nat
      BY <1>3, <3>4
    <3> QED BY <3>4, <3>5, <3>6
  <2>4. j < p(g)
    BY <1>3, <1>4, <2>1, <2>2
  <2>5. j \in g + 1 .. p(g) - 1
    BY <1>3, <2>3, <2>4
  <2> QED BY <1>1, <2>3, <2>4, <2>5
<1> QED BY <1>7, <1>8 DEF p

(* The places in post-order.                                               *)
InPostOrder(r, l, inc) ==
  /\ r \in [1 .. l -> 1 .. l] /\ \A x \in 1 .. l : \E n \in 1 .. l : r[n] = x
  /\ \A m, n \in 1 .. l : m < n <=> PoppedFirst(inc, l, r[m], r[n])

(* The depths in that order.                                               *)
Depths(r, l, inc) == [n \in 1 .. l |-> inc[r[n]]]

(* In post-order each has one place.                                       *)
LEMMA OrderIs ==
  ASSUME NEW l \in Nat, NEW inc \in [1 .. l -> Nat], NEW r, InPostOrder(r, l, inc)
  PROVE  /\ Depths(r, l, inc) \in [1 .. l -> Nat]
         /\ \A n \in 1 .. l : r[n] \in 1 .. l /\ Depths(r, l, inc)[n] = inc[r[n]] /\ inc[r[n]] \in Nat
         /\ \A m, n \in 1 .. l : r[m] = r[n] => m = n
<1>1. r \in [1 .. l -> 1 .. l] /\ \A m, n \in 1 .. l : m < n <=> PoppedFirst(inc, l, r[m], r[n])
  BY DEF InPostOrder
<1>2. \A n \in 1 .. l : r[n] \in 1 .. l /\ inc[r[n]] \in Nat
  BY <1>1
<1>3. \A m, n \in 1 .. l : r[m] = r[n] => m = n
  <2> SUFFICES ASSUME NEW m \in 1 .. l, NEW n \in 1 .. l, r[m] = r[n] PROVE m = n
    OBVIOUS
  <2>1. (m < n <=> PoppedFirst(inc, l, r[m], r[n])) /\ (n < m <=> PoppedFirst(inc, l, r[n], r[m]))
    BY <1>1
  <2>2. (m < n <=> n < m)
    BY <2>1
  <2> QED BY <2>2
<1> QED BY <1>2, <1>3 DEF Depths

(* What is deeper, without a break, gets to what it is below.              *)
LEMMA DeeperIsUnder ==
  ASSUME NEW l \in Nat, NEW inc \in [1 .. l -> Nat], NEW r, InPostOrder(r, l, inc),
         NEW p \in 1 .. l, NEW q \in 1 .. l, r[p] < r[q],
         \A i \in r[p] + 1 .. r[q] : inc[i] > inc[r[p]]
  PROVE  q \in Under(Depths(r, l, inc), p) /\ q < p
<1> DEFINE e == Depths(r, l, inc)
<1>1. /\ r \in [1 .. l -> 1 .. l]
      /\ \A m, n \in 1 .. l : m < n <=> PoppedFirst(inc, l, r[m], r[n])
  BY DEF InPostOrder
<1>2. \A n \in 1 .. l : r[n] \in 1 .. l /\ e[n] = inc[r[n]] /\ inc[r[n]] \in Nat
  BY OrderIs
<1> HIDE DEF e
<1>3. r[p] \in 1 .. l /\ r[q] \in r[p] + 1 .. l
  BY <1>2
<1> DEFINE g == r[p]
           h == r[q]
<1>4. /\ PoppedFirst(inc, l, h, g)
      /\ \A j \in 1 .. l : PoppedFirst(inc, l, h, j) /\ PoppedFirst(inc, l, j, g) =>
           j > g /\ inc[j] > inc[g] /\ j < Popped(inc, l, g)
  <2>1. g \in 1 .. l /\ h \in g + 1 .. l /\ \A i \in g + 1 .. h : inc[i] > inc[g]
    BY <1>3
  <2> HIDE DEF g, h
  <2> QED BY <2>1, StandsBetween
<1>5. q < p
  BY <1>1, <1>4
<1>6. ASSUME NEW i \in q .. p - 1 PROVE e[i] > e[p]
  <2>1. i \in 1 .. l /\ i < p
    OBVIOUS
  <2>2. CASE i = q
    <3>1. h \in g + 1 .. h
      BY <1>3
    <3> QED BY <1>2, <2>2, <3>1
  <2>3. CASE i # q
    <3>1. q < i
      BY <2>3
    <3>2. PoppedFirst(inc, l, h, r[i]) /\ PoppedFirst(inc, l, r[i], g)
      BY <1>1, <2>1, <3>1
    <3>3. inc[r[i]] > inc[g]
      BY <1>2, <1>4, <2>1, <3>2
    <3> QED BY <1>2, <2>1, <3>3
  <2> QED BY <2>2, <2>3
<1>7. q \in 1 .. p
  BY <1>5
<1> QED BY <1>5, <1>6, <1>7 DEF Under, e

(* What n-grams share is an n-gram.                                        *)
Closed(l, t, inc) ==
  \A m \in 2 .. l : \E q \in 1 .. l : Len(t[q]) = inc[m] /\ Shares(t[q], t[m], inc[m])

(* The one that the h-th shares with the one before: it comes before, and  *)
(* nothing between them is less deep.                                      *)
LEMMA SharedIsBefore ==
  ASSUME NEW l, NEW t, NEW inc, InRun(l, t, inc), NEW h \in 2 .. l, NEW q \in 1 .. l,
         Len(t[q]) = inc[h], Shares(t[q], t[h], inc[h])
  PROVE  /\ q < h /\ inc[q] < inc[h] /\ \A i \in q + 1 .. h : inc[i] >= inc[h]
<1>1. /\ l \in Nat /\ \A i \in 1 .. l : t[i] \in Seq(Nat) /\ inc[i] \in Nat
      /\ \A i, j \in 1 .. l : i < j => LexLess(t[i], t[j])
      /\ inc[1] = 0
      /\ \A m \in 2 .. l : inc[m] >= 1 /\ \A x \in Nat : Shares(t[m - 1], t[m], x) <=> x <= inc[m]
  <2>1. l \in Nat
    BY DEF InRun
  <2>2. l >= 1
    BY <2>1
  <2> QED BY <2>2 DEF InRun
<1>2. h \in 1 .. l /\ h - 1 \in 1 .. l /\ inc[h] \in Nat /\ inc[h] >= 1
  BY <1>1
<1>3. Shares(t[h - 1], t[h], inc[h])
  BY <1>1, <1>2
<1>4. \A m \in 2 .. l : inc[m] < Len(t[m]) /\ Len(t[m]) \in Nat
  <2> SUFFICES ASSUME NEW m \in 2 .. l PROVE inc[m] < Len(t[m]) /\ Len(t[m]) \in Nat
    OBVIOUS
  <2>1. m \in 1 .. l /\ m - 1 \in 1 .. l /\ m - 1 < m
    BY <1>1
  <2>2. LexLess(t[m - 1], t[m]) /\ t[m - 1] \in Seq(Nat) /\ t[m] \in Seq(Nat) /\ inc[m] \in Nat
    BY <1>1, <2>1
  <2>3. ~Shares(t[m - 1], t[m], Len(t[m])) /\ Len(t[m]) \in Nat
    BY <2>2, LexLonger, SharesAll
  <2>4. ~(Len(t[m]) <= inc[m])
    BY <1>1, <2>3
  <2> QED BY <2>2, <2>3, <2>4
<1>5. q # h
  BY <1>4
<1>6. ~(h < q)
  <2> SUFFICES ASSUME h < q PROVE FALSE
    OBVIOUS
  <2>1. LexLess(t[h], t[q]) /\ t[h] \in Seq(Nat) /\ t[q] \in Seq(Nat)
    BY <1>1, <1>2
  <2>2. ~Shares(t[h], t[q], Len(t[q]))
    BY <2>1, LexLonger
  <2>3. Shares(t[h], t[q], inc[h])
    BY <1>2, <2>1, SharesIs
  <2> QED BY <2>2, <2>3
<1>7. q < h /\ h \in q + 1 .. l
  BY <1>1, <1>2, <1>5, <1>6
<1>8. inc[q] < inc[h]
  <2>1. CASE q = 1
    BY <1>1, <1>2, <2>1
  <2>2. CASE q # 1
    <3>1. q \in 2 .. l
      BY <1>1, <2>2
    <3> QED BY <1>4, <3>1
  <2> QED BY <2>1, <2>2
<1>9. \A i \in q + 1 .. h : inc[i] >= inc[h]
  BY <1>2, <1>7, RunShares
<1> QED BY <1>7, <1>8, <1>9

(* Until it is taken, nothing that is less deep comes in post-order.       *)
LEMMA NoneBetween ==
  ASSUME NEW l, NEW t, NEW inc, InRun(l, t, inc), Closed(l, t, inc), NEW h \in 2 .. l,
         NEW q \in 1 .. l, Len(t[q]) = inc[h], Shares(t[q], t[h], inc[h])
  PROVE  /\ PoppedFirst(inc, l, h, q)
         /\ \A j \in 1 .. l : PoppedFirst(inc, l, h, j) /\ PoppedFirst(inc, l, j, q) => inc[j] >= inc[h]
<1>1. /\ l \in Nat /\ inc \in [1 .. l -> Nat] /\ \A i \in 1 .. l : t[i] \in Seq(Nat) /\ inc[i] \in Nat
      /\ \A i, j \in 1 .. l : i < j => LexLess(t[i], t[j])
      /\ inc[1] = 0
      /\ \A m \in 2 .. l : inc[m] >= 1 /\ \A x \in Nat : Shares(t[m - 1], t[m], x) <=> x <= inc[m]
  <2>1. l \in Nat
    BY DEF InRun
  <2>2. l >= 1
    BY <2>1
  <2> QED BY <2>2 DEF InRun
<1>2. q < h /\ inc[q] < inc[h] /\ \A i \in q + 1 .. h : inc[i] >= inc[h]
  BY SharedIsBefore
<1>3. h \in 1 .. l /\ inc[h] \in Nat /\ inc[q] \in Nat /\ h \in q + 1 .. l
  BY <1>1, <1>2
<1>4. \A i \in q + 1 .. h : inc[i] > inc[q]
  <2> SUFFICES ASSUME NEW i \in q + 1 .. h PROVE inc[i] > inc[q]
    OBVIOUS
  <2>1. i \in 1 .. l
    BY <1>1, <1>3
  <2>3. inc[i] >= inc[h]
    BY <1>2
  <2>2. inc[i] \in Nat
    BY <1>1, <2>1
  <2> QED BY <1>2, <1>3, <2>2, <2>3
<1>5. /\ PoppedFirst(inc, l, h, q)
      /\ \A j \in 1 .. l : PoppedFirst(inc, l, h, j) /\ PoppedFirst(inc, l, j, q) =>
           j > q /\ inc[j] > inc[q] /\ j < Popped(inc, l, q)
  BY <1>1, <1>3, <1>4, StandsBetween
<1>p. /\ Popped(inc, l, q) \in q + 1 .. l + 1
      /\ \A n \in q + 1 .. Popped(inc, l, q) - 1 : n \in 1 .. l /\ inc[n] > inc[q]
  BY <1>1, PoppedIs
<1>6. ASSUME NEW j \in 1 .. l, PoppedFirst(inc, l, h, j), PoppedFirst(inc, l, j, q), inc[j] < inc[h]
      PROVE  FALSE
  <2>1. j > q /\ j < Popped(inc, l, q)
    BY <1>5, <1>6
  <2>2. j > h
    <3> SUFFICES ASSUME j <= h PROVE FALSE
      BY <1>1, <1>3
    <3>1. j \in q + 1 .. h
      BY <1>3, <2>1
    <3> QED BY <1>1, <1>2, <1>3, <1>6, <3>1
  <2> DEFINE F == {i \in h + 1 .. j : inc[i] < inc[h]}
  <2>3. PICK i \in F : \A n \in F : i <= n
    <3>1. F \in SUBSET Nat /\ j \in F
      BY <1>3, <1>6, <2>2
    <3> HIDE DEF F
    <3> QED BY <3>1, MinNat
  <2>4. i \in h + 1 .. j /\ inc[i] < inc[h] /\ i \in 2 .. l /\ i \in 1 .. l /\ i - 1 \in 1 .. l /\ i - 1 >= h
    <3>1. i \in h + 1 .. j /\ inc[i] < inc[h]
      BY <2>3
    <3>2. h \in Nat /\ h >= 2 /\ j \in Nat /\ j <= l
      BY <1>1
    <3> HIDE DEF F
    <3> QED BY <1>1, <3>1, <3>2
  <2> HIDE DEF F
  <2>5. \A n \in q + 1 .. i - 1 : inc[n] >= inc[h]
    <3> SUFFICES ASSUME NEW n \in q + 1 .. i - 1 PROVE inc[n] >= inc[h]
      OBVIOUS
    <3>1. CASE n <= h
      BY <1>2, <3>1
    <3>2. CASE n > h
      <4>0. l \in Nat /\ h \in Nat /\ h >= 2 /\ j \in Nat /\ j <= l /\ q \in Nat
        BY <1>1
      <4>1. n \in h + 1 .. j /\ ~(i <= n) /\ n \in 1 .. l
        BY <2>4, <3>2, <4>0
      <4>2. n \notin F
        BY <2>3, <4>1
      <4>3. ~(inc[n] < inc[h]) /\ inc[n] \in Nat
        BY <1>1, <4>1, <4>2 DEF F
      <4> QED BY <1>3, <4>3
    <3>3. n <= h \/ n > h
      BY <1>3
    <3> QED BY <3>1, <3>2, <3>3
  <2>6. Shares(t[q], t[i - 1], inc[h])
    <3>1. i - 1 \in q + 1 .. l
      BY <1>3, <2>4
    <3>2. inc[h] <= Len(t[q]) /\ inc[h] \in Nat
      BY <1>3
    <3> QED BY <2>5, <3>1, <3>2, RunShares
  <2>7. i \in q + 1 .. Popped(inc, l, q) - 1
    BY <1>3, <1>p, <2>1, <2>4
  <2>8. inc[i] > inc[q] /\ inc[i] \in Nat
    BY <1>1, <1>p, <2>4, <2>7
  <2>9. PICK a \in 1 .. l : Len(t[a]) = inc[i] /\ Shares(t[a], t[i], inc[i])
    BY <2>4 DEF Closed
  <2>10. t[a] \in Seq(Nat) /\ t[q] \in Seq(Nat) /\ t[i] \in Seq(Nat) /\ t[i - 1] \in Seq(Nat)
    BY <1>1, <2>4
  <2>11. Shares(t[i - 1], t[i], inc[i])
    BY <1>1, <2>4, <2>8
  <2>12. Shares(t[q], t[i - 1], inc[i])
    <3>1. inc[i] <= inc[h]
      BY <1>3, <2>4, <2>8
    <3> QED BY <1>3, <2>6, <2>8, <2>10, <3>1, SharesIs
  <2>13. Shares(t[a], t[q], inc[i])
    <3>1. Shares(t[q], t[i], inc[i])
      BY <2>8, <2>10, <2>11, <2>12, SharesIs
    <3>2. Shares(t[i], t[q], inc[i])
      BY <2>8, <2>10, <3>1, SharesIs
    <3> QED BY <2>8, <2>9, <2>10, <3>2, SharesIs
  <2>14. LexLess(t[a], t[q])
    <3>1. Len(t[a]) < Len(t[q])
      BY <2>4, <2>9
    <3> QED BY <2>9, <2>10, <2>13, <3>1, SharesAll
  <2>15. a < q
    <3>1. ~LexLess(t[q], t[a]) /\ t[q] # t[a]
      BY <2>10, <2>14, LexOrders
    <3>2. ~(q < a) /\ a # q
      BY <1>1, <3>1
    <3> QED BY <3>2
  <2>16. inc[q] >= inc[i]
    <3>1. q \in a + 1 .. l /\ q \in a + 1 .. q
      BY <2>15
    <3>2. inc[i] <= Len(t[a])
      BY <2>8, <2>9
    <3>3. \A n \in a + 1 .. q : inc[n] >= inc[i]
      BY <2>8, <2>13, <3>1, <3>2, RunShares
    <3> QED BY <3>1, <3>3
  <2> QED BY <1>3, <2>8, <2>16
<1>7. \A j \in 1 .. l : PoppedFirst(inc, l, h, j) /\ PoppedFirst(inc, l, j, q) => inc[j] >= inc[h]
  <2> SUFFICES ASSUME NEW j \in 1 .. l, PoppedFirst(inc, l, h, j), PoppedFirst(inc, l, j, q)
               PROVE inc[j] >= inc[h]
    OBVIOUS
  <2>1. ~(inc[j] < inc[h]) /\ inc[j] \in Nat
    BY <1>1, <1>6
  <2> QED BY <1>3, <2>1
<1> QED BY <1>5, <1>7

(* So what gets to an n-gram begins with it.                               *)
LEMMA UnderIsDeeper ==
  ASSUME NEW l, NEW t, NEW inc, InRun(l, t, inc), Closed(l, t, inc), NEW r, InPostOrder(r, l, inc),
         NEW p \in 1 .. l, NEW s \in Under(Depths(r, l, inc), p)
  PROVE  Shares(t[r[s]], t[r[p]], Len(t[r[p]]))
<1> DEFINE e == Depths(r, l, inc)
           g == r[p]
           Bad == {h \in 1 .. l : \E x \in Under(e, p) : r[x] = h /\ ~Shares(t[h], t[g], Len(t[g]))}
<1>1. /\ l \in Nat /\ inc \in [1 .. l -> Nat] /\ \A i \in 1 .. l : t[i] \in Seq(Nat) /\ inc[i] \in Nat
      /\ inc[1] = 0 /\ \A m \in 2 .. l : inc[m] >= 1
  <2>1. l \in Nat
    BY DEF InRun
  <2>2. l >= 1
    BY <2>1
  <2> QED BY <2>2 DEF InRun
<1>2. \A n \in 1 .. l : r[n] \in 1 .. l /\ e[n] = inc[r[n]] /\ inc[r[n]] \in Nat
  BY <1>1, OrderIs
<1>3. /\ \A x \in 1 .. l : \E n \in 1 .. l : r[n] = x
      /\ \A m, n \in 1 .. l : m < n <=> PoppedFirst(inc, l, r[m], r[n])
  BY DEF InPostOrder
<1> HIDE DEF e
<1>4. \A x \in Under(e, p) : x \in 1 .. l /\ x <= p /\ \A i \in x .. p - 1 : e[i] > e[p]
  <2> SUFFICES ASSUME NEW x \in Under(e, p)
               PROVE  x \in 1 .. l /\ x <= p /\ \A i \in x .. p - 1 : e[i] > e[p]
    OBVIOUS
  <2>1. x \in 1 .. p /\ \A i \in x .. p - 1 : e[i] > e[p]
    BY DEF Under
  <2>2. x \in 1 .. l /\ x <= p
    <3>1. l \in Nat /\ p \in Nat /\ p <= l
      BY <1>1
    <3> QED BY <2>1, <3>1
  <2> QED BY <2>1, <2>2
<1>5. g \in 1 .. l /\ t[g] \in Seq(Nat) /\ Len(t[g]) \in Nat /\ Shares(t[g], t[g], Len(t[g]))
  <2>1. g \in 1 .. l /\ t[g] \in Seq(Nat)
    BY <1>1, <1>2
  <2> HIDE DEF g
  <2> QED BY <2>1, SharesAll
<1>6. Bad = {}
  <2> SUFFICES ASSUME Bad # {} PROVE FALSE
    OBVIOUS
  <2>1. PICK h \in Bad : \A n \in Bad : h <= n
    <3>1. Bad \in SUBSET Nat
      OBVIOUS
    <3> HIDE DEF Bad
    <3> QED BY <3>1, MinNat
  <2>2. PICK x \in Under(e, p) : r[x] = h /\ ~Shares(t[h], t[g], Len(t[g]))
    BY <2>1
  <2>3. h \in 1 .. l /\ x \in 1 .. l /\ x < p /\ inc[h] > inc[g] /\ inc[g] \in Nat /\ inc[h] \in Nat
    <3>1. h \in 1 .. l /\ x \in 1 .. l /\ x <= p /\ h # g
      BY <1>4, <1>5, <2>1, <2>2
    <3>2. x # p
      BY <2>2, <3>1
    <3>3. x < p /\ x \in x .. p - 1
      BY <3>1, <3>2
    <3>4. e[x] > e[p]
      BY <1>4, <3>3
    <3> QED BY <1>1, <1>2, <1>5, <2>2, <3>1, <3>3, <3>4
  <2>4. h \in 2 .. l
    <3>1. h # 1
      BY <1>1, <2>3
    <3> QED BY <1>1, <2>3, <3>1
  <2>5. PICK q \in 1 .. l : Len(t[q]) = inc[h] /\ Shares(t[q], t[h], inc[h])
    BY <2>4 DEF Closed
  <2>6. q < h
    BY <2>4, <2>5, SharedIsBefore
  <2>7. /\ PoppedFirst(inc, l, h, q)
        /\ \A j \in 1 .. l : PoppedFirst(inc, l, h, j) /\ PoppedFirst(inc, l, j, q) => inc[j] >= inc[h]
    BY <2>4, <2>5, NoneBetween
  <2>8. PICK u \in 1 .. l : r[u] = q
    BY <1>3
  <2>9. x < u
    BY <1>3, <2>2, <2>3, <2>7, <2>8
  <2>10. u <= p
    <3> SUFFICES ASSUME p < u PROVE FALSE
      OBVIOUS
    <3>1. PoppedFirst(inc, l, h, g) /\ PoppedFirst(inc, l, g, q)
      BY <1>3, <2>2, <2>3, <2>8
    <3>2. inc[g] >= inc[h]
      BY <1>5, <2>7, <3>1
    <3> QED BY <2>3, <3>2
  <2>11. u \in Under(e, p)
    <3>1. u \in 1 .. p /\ \A i \in u .. p - 1 : i \in x .. p - 1
      BY <2>3, <2>9, <2>10
    <3> QED BY <1>4, <3>1 DEF Under
  <2>12. q \notin Bad
    <3>1. ~(h <= q)
      BY <2>3, <2>6
    <3> HIDE DEF Bad
    <3> QED BY <2>1, <3>1
  <2>13. Shares(t[q], t[g], Len(t[g]))
    <3> HIDE DEF g
    <3> QED BY <2>8, <2>11, <2>12
  <2>14. t[q] \in Seq(Nat) /\ t[h] \in Seq(Nat) /\ Len(t[g]) <= inc[h]
    <3>1. t[q] \in Seq(Nat) /\ t[h] \in Seq(Nat)
      BY <1>1, <2>3
    <3>2. Len(t[g]) <= Len(t[q])
      BY <2>13 DEF Shares
    <3> QED BY <2>5, <3>1, <3>2
  <2>15. Shares(t[h], t[q], Len(t[g]))
    <3>1. Shares(t[h], t[q], inc[h])
      BY <2>3, <2>5, <2>14, SharesIs
    <3> HIDE DEF g
    <3> QED BY <1>5, <2>3, <2>14, <3>1, SharesIs
  <2>16. Shares(t[h], t[g], Len(t[g]))
    <3> HIDE DEF g
    <3> QED BY <1>5, <2>13, <2>14, <2>15, SharesIs
  <2> QED BY <2>2, <2>16
<1>7. r[s] \in 1 .. l /\ s \in Under(e, p)
  BY <1>2, <1>4 DEF e
<1>8. r[s] \notin Bad
  BY <1>6
<1> QED BY <1>7, <1>8

-----------------------------------------------------------------------------
(* What is processed together, of the first n n-grams of the file: each    *)
(* with its terms, its depth and the documents it was read in.             *)
Groups == [inc : Nat, terms : Seq(Nat) \ {<<>>}, docs : DocBags]

(* The places of an n-gram in a document, among the first n of the file.   *)
At(n, terms, d) == {i \in 1 .. n : ngrams[i].terms = terms /\ ngrams[i].docid = d}

(* What the n-grams collected have for terms and depths.                   *)
TermsOf(s) == [m \in 1 .. Len(s) |-> s[m].terms]
IncOf(s) == [m \in 1 .. Len(s) |-> s[m].inc]

(* Those collected are a run, and their bags count their places among the  *)
(* first n.                                                                *)
RunOK(s, n) ==
  /\ s \in Seq(Groups) /\ InRun(Len(s), TermsOf(s), IncOf(s))
  /\ \A m \in 1 .. Len(s), d \in Nat : Tally(s[m].docs, At(n, s[m].terms, d), d)

(* The places of those that stand below the p-th in post-order.            *)
BelowIt(s, r, p, n, d) ==
  UNION {At(n, s[r[x]].terms, d) : x \in Under(Depths(r, Len(s), IncOf(s)), p)}

(* The places in post-order are those of PostOrder.                        *)
LEMMA PostOrderIs ==
  ASSUME NEW s \in Seq(Groups)
  PROVE  InPostOrder(Kpe!PostOrder(s), Len(s), IncOf(s))
<1> DEFINE D == DOMAIN s
           popped(m) == Kpe!Min({n \in m + 1 .. Len(s) : s[n].inc <= s[m].inc} \cup {Len(s) + 1})
           First(m, n) == popped(m) < popped(n) \/ (popped(m) = popped(n) /\ m > n)
           R == {p \in D \X D : First(p[1], p[2])}
           above == [n \in D |-> Kpe!Cardinality({m \in D : First(m, n)})]
           order == [n \in 1 .. Kpe!Cardinality(D) |-> CHOOSE m \in D : above[m] = n - 1]
           inc == IncOf(s)
<1>1. Kpe!PostOrder(s) = order
  BY DEF Kpe!PostOrder, Kpe!Sorted
<1>2. D = 1 .. Len(s) /\ Len(s) \in Nat /\ \A n \in D : s[n] \in Groups
  OBVIOUS
<1>3. IsFiniteSet(D) /\ Cardinality(D) = Len(s)
  BY <1>2, FS_Interval
<1>i. inc \in [1 .. Len(s) -> Nat] /\ \A n \in D : inc[n] = s[n].inc
  BY <1>2 DEF IncOf, Groups
<1>4. \A n \in D : popped(n) = Popped(inc, Len(s), n) /\ popped(n) \in Nat
  <2> SUFFICES ASSUME NEW m \in D PROVE popped(m) = Popped(inc, Len(s), m) /\ popped(m) \in Nat
    OBVIOUS
  <2>1. \A n \in m + 1 .. Len(s) : s[n].inc = inc[n] /\ s[m].inc = inc[m]
    BY <1>2, <1>i
  <2>2. {n \in m + 1 .. Len(s) : s[n].inc <= s[m].inc} = {n \in m + 1 .. Len(s) : inc[n] <= inc[m]}
    BY <2>1
  <2>3. popped(m) = Popped(inc, Len(s), m)
    BY <2>2 DEF Popped
  <2>4. Popped(inc, Len(s), m) \in m + 1 .. Len(s) + 1
    BY <1>2, <1>i, PoppedIs
  <2> QED BY <1>2, <2>3, <2>4
<1> HIDE DEF popped
<1>5. Orders(R, D)
  <2>1. \A m, n \in D : <<m, n>> \in R <=> First(m, n)
    OBVIOUS
  <2>2. \A m \in D : m \in Int
    BY <1>2
  <2> HIDE DEF D
  <2>3. \A m \in D : ~First(m, m)
    BY <1>4, <2>2
  <2>4. \A m, n \in D : m = n \/ First(m, n) \/ First(n, m)
    BY <1>4, <2>2
  <2>5. \A l, m, n \in D : First(l, m) /\ First(m, n) => First(l, n)
    BY <1>4, <2>2
  <2> HIDE DEF R, First
  <2> QED BY <2>1, <2>3, <2>4, <2>5 DEF Orders
<1>f. \A m, n \in D : <<m, n>> \in R <=> PoppedFirst(inc, Len(s), m, n)
  <2>1. \A m, n \in D : <<m, n>> \in R <=> First(m, n)
    OBVIOUS
  <2> HIDE DEF D, R
  <2> QED BY <1>4, <2>1 DEF PoppedFirst
<1> HIDE DEF First
<1>6. \A n \in D : above[n] = Kpe!Cardinality({m \in D : <<m, n>> \in R})
  <2>1. \A n \in D : {m \in D : <<m, n>> \in R} = {m \in D : First(m, n)}
    OBVIOUS
  <2> HIDE DEF D, R
  <2> QED BY <2>1
<1>7. Ranked(order, R, D)
  <2> HIDE DEF above, R
  <2> HIDE DEF D
  <2>1. order = RankedBy(D, above)
    BY DEF RankedBy
  <2>2. RanksOf(above, D, R) /\ IsFiniteSet(D)
    BY <1>3, <1>6 DEF RanksOf
  <2> HIDE DEF order
  <2> QED BY <1>5, <2>1, <2>2, SortedIsRanked
<1> HIDE DEF order, R, inc
<1>8. /\ order \in [1 .. Len(s) -> 1 .. Len(s)] /\ \A x \in 1 .. Len(s) : \E n \in 1 .. Len(s) : order[n] = x
      /\ \A m, n \in 1 .. Len(s) : m < n <=> <<order[m], order[n]>> \in R
  BY <1>2, <1>3, <1>7 DEF Ranked
<1>9. \A m, n \in 1 .. Len(s) : <<order[m], order[n]>> \in R <=> PoppedFirst(inc, Len(s), order[m], order[n])
  <2>1. \A m \in 1 .. Len(s) : order[m] \in D
    BY <1>2, <1>8
  <2> QED BY <1>f, <2>1
<1> QED BY <1>1, <1>8, <1>9 DEF InPostOrder, inc

(* What is added up for each n-gram is what it and those below it count.   *)
LEMMA AccumulatedDocs ==
  ASSUME NEW n \in Nat, NEW s, RunOK(s, n), NEW item \in Kpe!Accumulated(s)
  PROVE  \E p \in 1 .. Len(s) :
           /\ item.terms = s[Kpe!PostOrder(s)[p]].terms
           /\ item.docs \in DocBags
           /\ \A d \in Nat : Tally(item.docs, BelowIt(s, Kpe!PostOrder(s), p, n, d), d)
<1> DEFINE r == Kpe!PostOrder(s)
           l == Len(s)
           D == DOMAIN s
           inc == IncOf(s)
           e == Depths(r, l, inc)
           b == [m \in 1 .. l |-> s[r[m]].docs]
           taker(m) == Kpe!Min({i \in m + 1 .. Len(s) : s[r[i]].inc < s[r[m]].inc} \cup {Len(s) + 1})
           F(got, m) == Kpe!FoldSet(LAMBDA i, bag : Kpe!(+)(bag, got[i]), s[r[m]].docs,
                                    {i \in 1 .. m - 1 : taker(i) = m})
           docs == CHOOSE got : got = [m \in D |-> F(got, m)]
<1>1. Kpe!Accumulated(s) = {[terms |-> s[r[m]].terms, docs |-> docs[m]] : m \in D}
  BY DEF Kpe!Accumulated
<1>2. s \in Seq(Groups) /\ InRun(l, TermsOf(s), inc)
      /\ \A m \in 1 .. l, d \in Nat : Tally(s[m].docs, At(n, s[m].terms, d), d)
  BY DEF RunOK
<1>3. D = 1 .. l /\ l \in Nat /\ \A m \in 1 .. l : s[m] \in Groups
  BY <1>2
<1>4. inc \in [1 .. l -> Nat] /\ \A m \in 1 .. l : inc[m] = s[m].inc
  BY <1>3 DEF IncOf, Groups
<1>5. InPostOrder(r, l, inc)
  BY <1>2, PostOrderIs
<1>6. /\ e \in [1 .. l -> Nat]
      /\ \A m \in 1 .. l : r[m] \in 1 .. l /\ e[m] = inc[r[m]]
      /\ \A m, i \in 1 .. l : r[m] = r[i] => m = i
  <2> HIDE DEF r, l, inc
  <2> QED BY <1>3, <1>4, <1>5, OrderIs
<1>7. ASSUME NEW m \in 1 .. l PROVE {i \in 1 .. m - 1 : taker(i) = m} = Taken(e, l, m)
  <2>1. ASSUME NEW i \in 1 .. m - 1 PROVE taker(i) = TakerOf(e, l, i)
    <3>1. i \in 1 .. l /\ \A j \in i + 1 .. l : j \in 1 .. l
      BY <1>3
    <3>2. \A j \in i + 1 .. l : s[r[j]].inc = e[j] /\ s[r[i]].inc = e[i]
      BY <1>4, <1>6, <3>1
    <3>3. {j \in i + 1 .. l : s[r[j]].inc < s[r[i]].inc} = {j \in i + 1 .. l : e[j] < e[i]}
      <4> HIDE DEF e, r, l
      <4> QED BY <3>2
    <3> QED BY <3>3 DEF TakerOf
  <2> HIDE DEF taker, e, l
  <2> QED BY <2>1 DEF Taken
<1>8. ASSUME NEW got, NEW m \in 1 .. l PROVE F(got, m) = BagSum(got, b[m], Taken(e, l, m))
  <2>1. F(got, m) = BagSum(got, s[r[m]].docs, {i \in 1 .. m - 1 : taker(i) = m})
    BY DEF BagSum
  <2>2. b[m] = s[r[m]].docs
    OBVIOUS
  <2> HIDE DEF F, b, taker, e, l
  <2> QED BY <1>7, <2>1, <2>2
<1>9. ASSUME NEW got PROVE got = [m \in D |-> F(got, m)] <=> IsDocs(got, b, e, l, l)
  <2> HIDE DEF F, b, e, l
  <2>1. [m \in 1 .. l |-> F(got, m)] = [m \in 1 .. l |-> BagSum(got, b[m], Taken(e, l, m))]
    BY <1>8
  <2>2. IsDocs(got, b, e, l, l) <=> got = [m \in 1 .. l |-> BagSum(got, b[m], Taken(e, l, m))]
    BY DEF IsDocs
  <2> QED BY <1>3, <2>1, <2>2
<1>10. b \in [1 .. l -> DocBags]
  <2>1. \A m \in 1 .. l : s[r[m]].docs \in DocBags
    BY <1>3, <1>6 DEF Groups
  <2> HIDE DEF r, l
  <2> QED BY <2>1
<1> HIDE DEF F
<1>11. IsDocs(docs, b, e, l, l)
  <2> DEFINE g == CHOOSE got : IsDocs(got, b, e, l, l)
  <2> HIDE DEF b, e, l, D
  <2>1. \E got : IsDocs(got, b, e, l, l)
    BY <1>3, <1>6, <1>10, DocsExist
  <2>2. \E got : got = [m \in D |-> F(got, m)]
    BY <1>9, <2>1
  <2>3. docs = [m \in D |-> F(docs, m)]
    BY <2>2
  <2> HIDE DEF docs
  <2> QED BY <1>9, <2>3
<1> HIDE DEF docs
<1>12. PICK p \in 1 .. l : item = [terms |-> s[r[p]].terms, docs |-> docs[p]]
  <2> HIDE DEF r, l
  <2> QED BY <1>1, <1>3
<1>13. ASSUME NEW d \in Nat PROVE docs[p] \in DocBags /\ Tally(docs[p], BelowIt(s, r, p, n, d), d)
  <2> DEFINE sets == [x \in 1 .. l |-> At(n, s[r[x]].terms, d)]
  <2>1. \A x \in 1 .. l : Tally(b[x], sets[x], d)
    <3> HIDE DEF r, l
    <3> QED BY <1>2, <1>6
  <2>2. \A x, y \in 1 .. l : x # y => sets[x] \cap sets[y] = {}
    <3> SUFFICES ASSUME NEW x \in 1 .. l, NEW y \in 1 .. l, x # y,
                        NEW i \in At(n, s[r[x]].terms, d), i \in At(n, s[r[y]].terms, d)
                 PROVE  FALSE
      OBVIOUS
    <3>1. s[r[x]].terms = s[r[y]].terms
      BY DEF At
    <3>2. r[x] \in 1 .. l /\ r[y] \in 1 .. l /\ r[x] # r[y]
      BY <1>6
    <3>3. \A i1, j1 \in 1 .. l : i1 < j1 => LexLess(s[i1].terms, s[j1].terms)
      <4>1. \A i1, j1 \in 1 .. l : i1 < j1 => LexLess(TermsOf(s)[i1], TermsOf(s)[j1])
        BY <1>2 DEF InRun
      <4>2. \A i1 \in 1 .. l : TermsOf(s)[i1] = s[i1].terms
        BY DEF TermsOf
      <4> QED BY <4>1, <4>2
    <3>4. LexLess(s[r[x]].terms, s[r[y]].terms) \/ LexLess(s[r[y]].terms, s[r[x]].terms)
      <4> HIDE DEF r, l
      <4>1. r[x] < r[y] \/ r[y] < r[x]
        BY <1>3, <3>2
      <4> QED BY <3>2, <3>3, <4>1
    <3>5. s[r[x]].terms \in Seq(Nat)
      BY <1>3, <3>2 DEF Groups
    <3> QED BY <3>1, <3>4, <3>5, LexOrders
  <2>3. docs[p] \in DocBags /\ Tally(docs[p], Pooled(sets, e, p), d)
    <3>1. l \in Nat /\ e \in [1 .. l -> Nat]
      BY <1>3, <1>6
    <3> HIDE DEF sets, e, b, l
    <3>2. \A x \in 1 .. l : docs[x] \in DocBags /\ Tally(docs[x], Pooled(sets, e, x), d)
      BY <1>10, <1>11, <2>1, <2>2, <3>1, DocsCount
    <3> QED BY <3>2
  <2>4. Pooled(sets, e, p) = BelowIt(s, r, p, n, d)
    <3>1. \A x \in Under(e, p) : sets[x] = At(n, s[r[x]].terms, d)
      <4>1. \A x \in Under(e, p) : x \in 1 .. l
        <5> HIDE DEF e, l
        <5> QED BY <1>3 DEF Under
      <4> HIDE DEF e, l, r
      <4> QED BY <4>1
    <3>2. {sets[x] : x \in Under(e, p)} = {At(n, s[r[x]].terms, d) : x \in Under(e, p)}
      <4> HIDE DEF e, sets, r
      <4> QED BY <3>1
    <3> QED BY <3>2 DEF BelowIt, Pooled
  <2> HIDE DEF sets
  <2> QED BY <2>3, <2>4
<1>14. docs[p] \in DocBags
  <2>1. 0 \in Nat
    OBVIOUS
  <2> QED BY <1>13, <2>1
<1> HIDE DEF r, l
<1>15. item.terms = s[r[p]].terms /\ item.docs = docs[p]
  BY <1>12
<1>16. p \in 1 .. l /\ item.docs \in DocBags /\ \A d \in Nat : Tally(item.docs, BelowIt(s, r, p, n, d), d)
  BY <1>13, <1>14, <1>15
<1> QED BY <1>15, <1>16 DEF r, l

-----------------------------------------------------------------------------
(* What begins with an n-gram is deeper than it, all the way.              *)
LEMMA StartsAreUnder ==
  ASSUME NEW l, NEW t, NEW inc, InRun(l, t, inc), NEW r, InPostOrder(r, l, inc),
         NEW p \in 1 .. l, t[r[p]] # <<>>, NEW j \in 1 .. l, Shares(t[j], t[r[p]], Len(t[r[p]]))
  PROVE  \E x \in Under(Depths(r, l, inc), p) : r[x] = j
<1> DEFINE g == r[p]
           n == Len(t[g])
<1>1. /\ l \in Nat /\ inc \in [1 .. l -> Nat] /\ \A i \in 1 .. l : t[i] \in Seq(Nat) /\ inc[i] \in Nat
      /\ \A i, i2 \in 1 .. l : i < i2 => LexLess(t[i], t[i2])
      /\ l >= 1 => inc[1] = 0
      /\ \A m \in 2 .. l : inc[m] >= 1 /\ \A x \in Nat : Shares(t[m - 1], t[m], x) <=> x <= inc[m]
  BY DEF InRun
<1>2. r \in [1 .. l -> 1 .. l] /\ \A x \in 1 .. l : \E q \in 1 .. l : r[q] = x
  BY DEF InPostOrder
<1>3. g \in 1 .. l
  BY <1>2
<1>4. n \in Nat /\ n > 0
  <2>1. t[g] \in Seq(Nat) /\ t[g] # <<>>
    BY <1>1, <1>3
  <2> HIDE DEF g
  <2> QED BY <2>1
<1>5. Shares(t[j], t[g], n)
  OBVIOUS
<1>6. PICK q \in 1 .. l : r[q] = j
  BY <1>2
<1>7. CASE j = g
  <2>1. p \in Under(Depths(r, l, inc), p)
    <3>1. p \in 1 .. p /\ \A i \in p .. p - 1 : FALSE
      BY <1>1
    <3> QED BY <3>1 DEF Under
  <2> QED BY <1>7, <2>1
<1>8. CASE j # g
  <2> HIDE DEF g, n
  <2>1. t[j] \in Seq(Nat) /\ t[g] \in Seq(Nat)
    BY <1>1, <1>3
  <2>2. ~LexLess(t[j], t[g])
    BY <1>5, <2>1, LexLonger DEF n
  <2>3. g < j /\ j \in g + 1 .. l
    <3>1. ~(j < g)
      BY <1>1, <1>3, <2>2
    <3> QED BY <1>1, <1>3, <1>8, <3>1
  <2>4. Shares(t[g], t[j], n)
    BY <1>4, <1>5, <2>1, SharesIs
  <2>5. \A i \in g + 1 .. j : inc[i] >= n
    <3>1. n <= Len(t[g])
      BY <1>4 DEF n
    <3> QED BY <1>3, <1>4, <2>3, <2>4, <3>1, RunShares
  <2>6. inc[g] < n
    <3>1. CASE g = 1
      BY <1>1, <1>3, <1>4, <3>1
    <3>2. CASE g # 1
      <4>1. g \in 2 .. l /\ g - 1 \in 1 .. l /\ g - 1 < g
        BY <1>1, <1>3, <3>2
      <4>2. LexLess(t[g - 1], t[g]) /\ t[g - 1] \in Seq(Nat)
        BY <1>1, <1>3, <4>1
      <4>3. ~Shares(t[g - 1], t[g], n)
        BY <2>1, <4>2, LexLonger DEF n
      <4>4. ~(n <= inc[g]) /\ inc[g] \in Nat
        BY <1>1, <1>3, <1>4, <4>1, <4>3
      <4> QED BY <1>4, <4>4
    <3> QED BY <3>1, <3>2
  <2>7. \A i \in g + 1 .. j : inc[i] > inc[g]
    <3> SUFFICES ASSUME NEW i \in g + 1 .. j PROVE inc[i] > inc[g]
      OBVIOUS
    <3>1. i \in 1 .. l
      BY <1>1, <1>3
    <3>2. inc[i] \in Nat /\ inc[g] \in Nat /\ inc[i] >= n
      BY <1>1, <1>3, <2>5, <3>1
    <3> QED BY <1>4, <2>6, <3>2
  <2>8. q \in Under(Depths(r, l, inc), p)
    BY <1>1, <1>6, <2>3, <2>7, DeeperIsUnder DEF g
  <2> QED BY <1>6, <2>8
<1> QED BY <1>7, <1>8

(* A run of which every n-gram was read, and all that begin with the same  *)
(* term but the one that is last in the file.                              *)
WasRead(s, n) == \A m \in 1 .. Len(s) : \E i \in 1 .. n : ngrams[i].terms = s[m].terms

(* The i-th of the file should be among them, as its first term is theirs, *)
(* and is not.                                                             *)
Misses(s, i) ==
  /\ \A m \in 1 .. Len(s) : s[m].terms # ngrams[i].terms
  /\ \E m \in 1 .. Len(s) : Shares(ngrams[i].terms, s[m].terms, 1)

(* A run that misses nothing: all n-grams that begin with its first term,  *)
(* but the last of the file.                                               *)
Whole(s) ==
  /\ RunOK(s, Len(ngrams)) /\ WasRead(s, Len(ngrams))
  /\ \A m \in 1 .. Len(s) : s[m].terms # Kpe!Last(ngrams).terms
  /\ \A i \in Kpe!Counted : ~Misses(s, i)

(* What is in such a run.                                                  *)
LEMMA WholeIs ==
  ASSUME ngrams \in Seq(Ngrams), NEW s, Whole(s)
  PROVE  /\ s \in Seq(Groups) /\ Len(s) \in Nat
         /\ \A m \in 1 .. Len(s) :
              /\ TermsOf(s)[m] = s[m].terms /\ IncOf(s)[m] = s[m].inc
              /\ s[m].terms \in Seq(Nat) /\ s[m].terms # <<>> /\ s[m].inc \in Nat
              /\ \E i \in Kpe!Counted : ngrams[i].terms = s[m].terms
<1>1. s \in Seq(Groups) /\ Len(s) \in Nat
  BY DEF Whole, RunOK
<1>2. ASSUME NEW m \in 1 .. Len(s)
      PROVE  /\ TermsOf(s)[m] = s[m].terms /\ IncOf(s)[m] = s[m].inc
             /\ s[m].terms \in Seq(Nat) /\ s[m].terms # <<>> /\ s[m].inc \in Nat
  <2>1. s[m] \in Groups
    BY <1>1
  <2> QED BY <2>1 DEF Groups, TermsOf, IncOf
<1>3. ASSUME NEW m \in 1 .. Len(s)
      PROVE  \E i \in Kpe!Counted : ngrams[i].terms = s[m].terms
  <2>1. PICK i \in 1 .. Len(ngrams) : ngrams[i].terms = s[m].terms
    BY DEF Whole, WasRead
  <2>2. s[m].terms # Kpe!Last(ngrams).terms
    BY DEF Whole
  <2>3. i \in DOMAIN ngrams
    BY <2>1
  <2> QED BY <2>1, <2>2, <2>3 DEF Kpe!Counted
<1> QED BY <1>1, <1>2, <1>3

(* When what n-grams share are n-grams, it is so in a run.                 *)
LEMMA RunIsClosed ==
  ASSUME ngrams \in Seq(Ngrams), NEW s, Whole(s), Kpe!PrefixClosed
  PROVE  Closed(Len(s), TermsOf(s), IncOf(s))
<1> DEFINE l == Len(s)
           t == TermsOf(s)
           inc == IncOf(s)
<1>1. /\ l \in Nat
      /\ \A m \in 1 .. l : /\ t[m] = s[m].terms /\ inc[m] = s[m].inc
                           /\ t[m] \in Seq(Nat) /\ t[m] # <<>> /\ inc[m] \in Nat
                           /\ \E i \in Kpe!Counted : ngrams[i].terms = t[m]
  BY WholeIs
<1>2. InRun(l, t, inc)
  BY DEF Whole, RunOK
<1>3. \A i \in Kpe!Counted : ~Misses(s, i)
  BY DEF Whole
<1> SUFFICES ASSUME NEW m \in 2 .. l
             PROVE  \E q \in 1 .. l : Len(t[q]) = inc[m] /\ Shares(t[q], t[m], inc[m])
  BY DEF Closed
<1>4. m \in 1 .. l /\ m - 1 \in 1 .. l
  BY <1>1
<1> HIDE DEF l, t, inc
<1>5. inc[m] >= 1 /\ \A x \in Nat : Shares(t[m - 1], t[m], x) <=> x <= inc[m]
  BY <1>2 DEF InRun
<1> DEFINE a == t[m - 1]
           b == t[m]
           n == inc[m]
<1>6. a \in Seq(Nat) /\ b \in Seq(Nat) /\ n \in Nat /\ n >= 1
  BY <1>1, <1>4, <1>5
<1>7. \A x \in Nat : Shares(a, b, x) <=> x <= n
  BY <1>5
<1> HIDE DEF a, b, n
<1>8. Shares(a, b, n) /\ n <= Len(a) /\ n <= Len(b)
  <2>1. Shares(a, b, n)
    BY <1>6, <1>7
  <2> QED BY <1>6, <2>1, SharesIs
<1>9. Kpe!GetInc(a, b) = n
  <2> DEFINE g == Kpe!GetInc(a, b)
  <2>1. g \in Nat /\ \A x \in Nat : Shares(a, b, x) <=> x <= g
    BY <1>6, IncIs
  <2> HIDE DEF g
  <2>2. g <= n /\ n <= g
    <3>1. Shares(a, b, n) /\ Shares(a, b, g)
      BY <1>8, <2>1
    <3> QED BY <1>6, <1>7, <2>1, <3>1
  <2>3. g = n
    BY <1>6, <2>1, <2>2
  <2> QED BY <2>3 DEF g
<1>10. PICK i \in Kpe!Counted : ngrams[i].terms = SubSeq(a, 1, n)
  <2>1. PICK i1 \in Kpe!Counted : ngrams[i1].terms = a
    BY <1>1, <1>4 DEF a
  <2>2. PICK i2 \in Kpe!Counted : ngrams[i2].terms = b
    BY <1>1, <1>4 DEF b
  <2>3. \/ Kpe!GetInc(ngrams[i1].terms, ngrams[i2].terms) = 0
        \/ \E i \in Kpe!Counted : ngrams[i].terms =
             SubSeq(ngrams[i1].terms, 1, Kpe!GetInc(ngrams[i1].terms, ngrams[i2].terms))
    BY DEF Kpe!PrefixClosed
  <2>4. n = 0 \/ \E i \in Kpe!Counted : ngrams[i].terms = SubSeq(a, 1, n)
    BY <1>9, <2>1, <2>2, <2>3
  <2> QED BY <1>6, <2>4
<1> DEFINE c == SubSeq(a, 1, n)
<1>11. c \in Seq(Nat) /\ Len(c) = n /\ \A x \in 1 .. n : c[x] = a[x]
  BY <1>6, <1>8
<1> HIDE DEF c
<1>12. Shares(c, a, n)
  BY <1>8, <1>11 DEF Shares
<1>13. Shares(c, b, n) /\ Shares(c, b, 1)
  <2>1. Shares(c, b, n)
    BY <1>6, <1>8, <1>11, <1>12, SharesIs
  <2> QED BY <1>6, <1>11, <2>1, SharesIs
<1>14. PICK q \in 1 .. l : t[q] = c
  <2>1. \E x \in 1 .. Len(s) : Shares(ngrams[i].terms, s[x].terms, 1)
    BY <1>1, <1>4, <1>10, <1>13 DEF b, c, l
  <2>2. \E x \in 1 .. Len(s) : s[x].terms = ngrams[i].terms
    BY <1>3, <2>1 DEF Misses
  <2> QED BY <1>1, <1>10, <2>2 DEF c, l
<1>15. Len(t[q]) = inc[m] /\ Shares(t[q], t[m], inc[m])
  BY <1>11, <1>13, <1>14 DEF b, n
<1> QED BY <1>15

(* What is to be shown of a candidate.                                     *)
Covered(item) ==
  \A d \in Nat :
    /\ Kpe!Copies(item.docs, d) >= Kpe!Occurrences(item.terms, d)
    /\ Kpe!PrefixClosed => Kpe!Copies(item.docs, d) = Kpe!Occurrences(item.terms, d)

(* What is counted of a document and begins with these terms.              *)
Among(terms, d) ==
  {n \in Kpe!Counted : ngrams[n].docid = d /\ Kpe!StartsWith(ngrams[n].terms, terms)}

(* What GetCandidate_ adds up for the n-grams of a whole run: it counts    *)
(* those under each n-gram, which are at least those that begin with it    *)
(* (StartsAreUnder), and no others when what n-grams share are n-grams     *)
(* (UnderIsDeeper).                                                        *)
LEMMA ItemsCover ==
  ASSUME ngrams \in Seq(Ngrams), NEW s, Whole(s), NEW item \in Kpe!Accumulated(s)
  PROVE  Covered(item)
<1> DEFINE l == Len(s)
           t == TermsOf(s)
           inc == IncOf(s)
           r == Kpe!PostOrder(s)
           N == Len(ngrams)
<1>1. /\ l \in Nat
      /\ \A m \in 1 .. l : /\ t[m] = s[m].terms /\ inc[m] = s[m].inc
                           /\ t[m] \in Seq(Nat) /\ t[m] # <<>> /\ inc[m] \in Nat
                           /\ \E i \in Kpe!Counted : ngrams[i].terms = t[m]
  BY WholeIs
<1>2. InRun(l, t, inc) /\ RunOK(s, N) /\ N \in Nat
  BY DEF Whole, RunOK
<1>3. s \in Seq(Groups) /\ InPostOrder(r, l, inc)
  BY WholeIs, PostOrderIs
<1>4. PICK p \in 1 .. l :
        /\ item.terms = s[r[p]].terms
        /\ \A d \in Nat : Tally(item.docs, BelowIt(s, r, p, N, d), d)
  BY <1>2, AccumulatedDocs
<1>5. \A x \in 1 .. l : r[x] \in 1 .. l
  BY <1>3 DEF InPostOrder
<1> DEFINE e == Depths(r, l, inc)
<1>6. \A x \in Under(e, p) : x \in 1 .. l
  BY <1>1 DEF Under
<1>n. \A i \in 1 .. N : ngrams[i].terms \in Seq(Nat) /\ ngrams[i].terms # <<>>
  <2>1. \A i \in 1 .. N : ngrams[i] \in Ngrams
    OBVIOUS
  <2> QED BY <2>1 DEF Ngrams
<1>c. \A i : i \in Kpe!Counted <=> i \in 1 .. N /\ ngrams[i].terms # Kpe!Last(ngrams).terms
  BY DEF Kpe!Counted
<1> SUFFICES ASSUME NEW d \in Nat
             PROVE  /\ Kpe!Copies(item.docs, d) >= Kpe!Occurrences(item.terms, d)
                    /\ Kpe!PrefixClosed => Kpe!Copies(item.docs, d) = Kpe!Occurrences(item.terms, d)
  BY DEF Covered
<1> DEFINE A == Among(item.terms, d)
           B == BelowIt(s, r, p, N, d)
<1>7. IsFiniteSet(B) /\ Kpe!Copies(item.docs, d) = Cardinality(B)
  BY <1>4 DEF Tally
<1>8. Kpe!Occurrences(item.terms, d) = Cardinality(A)
  BY KpeCounts DEF Kpe!Occurrences, Among
<1>t. item.terms = t[r[p]] /\ r[p] \in 1 .. l /\ t[r[p]] \in Seq(Nat) /\ t[r[p]] # <<>>
  BY <1>1, <1>4, <1>5
<1> HIDE DEF l, t, inc, r, N, e
<1>b. \A i : i \in B <=> \E x \in Under(e, p) : i \in At(N, s[r[x]].terms, d)
  BY DEF BelowIt, e, l, inc
<1>9. ASSUME NEW i \in A PROVE i \in B
  <2>1. /\ i \in Kpe!Counted /\ i \in 1 .. N /\ ngrams[i].docid = d
        /\ Kpe!StartsWith(ngrams[i].terms, item.terms)
    BY <1>c DEF Among
  <2>2. ngrams[i].terms \in Seq(Nat) /\ Len(item.terms) \in Nat /\ Len(item.terms) > 0
    BY <1>n, <1>t, <2>1
  <2>3. Shares(ngrams[i].terms, t[r[p]], Len(t[r[p]]))
    BY <1>t, <2>1, <2>2, StartsIs
  <2>4. Shares(ngrams[i].terms, t[r[p]], 1)
    BY <1>t, <2>2, <2>3, SharesIs
  <2>5. PICK j \in 1 .. l : t[j] = ngrams[i].terms
    <3>1. ~Misses(s, i)
      BY <2>1 DEF Whole
    <3>2. \E m \in 1 .. Len(s) : s[m].terms = ngrams[i].terms
      BY <1>1, <1>t, <2>4, <3>1 DEF Misses, l
    <3> QED BY <1>1, <3>2 DEF l
  <2>6. PICK x \in Under(e, p) : r[x] = j
    BY <1>2, <1>3, <1>t, <2>3, <2>5, StartsAreUnder DEF e
  <2>7. i \in At(N, s[r[x]].terms, d)
    BY <1>1, <2>1, <2>5, <2>6 DEF At
  <2> QED BY <1>b, <2>6, <2>7
<1>10. ASSUME Kpe!PrefixClosed, NEW i \in B PROVE i \in A
  <2>1. PICK x \in Under(e, p) : i \in At(N, s[r[x]].terms, d)
    BY <1>b
  <2>2. x \in 1 .. l /\ r[x] \in 1 .. l
    BY <1>5, <1>6, <2>1
  <2>3. i \in 1 .. N /\ ngrams[i].terms = t[r[x]] /\ ngrams[i].docid = d
    BY <1>1, <2>1, <2>2 DEF At
  <2>4. i \in Kpe!Counted
    <3>1. s[r[x]].terms # Kpe!Last(ngrams).terms
      BY <2>2 DEF Whole, l
    <3> QED BY <1>1, <1>c, <2>2, <2>3, <3>1
  <2>5. Closed(l, t, inc)
    BY <1>10, RunIsClosed DEF l, t, inc
  <2>6. Shares(t[r[x]], t[r[p]], Len(t[r[p]]))
    BY <1>2, <1>3, <2>1, <2>5, UnderIsDeeper DEF e
  <2>7. Kpe!StartsWith(ngrams[i].terms, item.terms)
    BY <1>n, <1>t, <2>3, <2>6, StartsIs
  <2> QED BY <2>3, <2>4, <2>7 DEF Among
<1> HIDE DEF A, B
<1>11. Cardinality(B) \in Nat /\ IsFiniteSet(A) /\ Cardinality(A) \in Nat /\ Cardinality(A) <= Cardinality(B)
  <2>1. A \subseteq B
    BY <1>9
  <2> QED BY <1>7, <2>1, FS_Subset, FS_CardinalityType
<1>12. Kpe!PrefixClosed => A = B
  BY <1>9, <1>10
<1> QED BY <1>7, <1>8, <1>11, <1>12

-----------------------------------------------------------------------------
(* The order of the file.                                                  *)
LexLeq(s, t) == s = t \/ LexLess(s, t)

(* Steps in that order.                                                    *)
LEMMA LexSteps ==
  ASSUME NEW s \in Seq(Nat), NEW r \in Seq(Nat), NEW t \in Seq(Nat)
  PROVE  /\ LexLess(s, t) => s # t
         /\ LexLeq(s, r) /\ LexLess(r, t) => LexLess(s, t)
         /\ LexLess(s, r) /\ LexLeq(r, t) => LexLess(s, t)
         /\ LexLeq(s, r) /\ LexLeq(r, t) => LexLeq(s, t)
<1>1. LexLess(s, r) /\ LexLess(r, t) => LexLess(s, t)
  BY LexOrders
<1>2. LexLess(s, t) => s # t
  BY LexOrders
<1> QED BY <1>1, <1>2 DEF LexLeq

(* What the ends share, all between them share.                            *)
LEMMA LexWithin ==
  ASSUME NEW s \in Seq(Nat), NEW r \in Seq(Nat), NEW t \in Seq(Nat), NEW n \in Nat,
         LexLeq(s, r), LexLeq(r, t), Shares(s, t, n)
  PROVE  Shares(s, r, n) /\ Shares(r, t, n)
<1>1. n <= Len(s) /\ n <= Len(t) /\ Shares(s, s, n) /\ Shares(t, t, n)
  BY SharesIs, SharesAll
<1>2. CASE s = r
  BY <1>1, <1>2
<1>3. CASE r = t
  BY <1>1, <1>3
<1>4. CASE LexLess(s, r) /\ LexLess(r, t)
  BY <1>4, LexBetween
<1> QED BY <1>2, <1>3, <1>4 DEF LexLeq

(* A run and one that fits behind it.                                      *)
Fits(s, y) ==
  /\ y.terms \in Seq(Nat) /\ y.inc \in Nat
  /\ Len(s) = 0 => y.inc = 0
  /\ Len(s) > 0 => /\ LexLess(s[Len(s)].terms, y.terms) /\ y.inc >= 1
                   /\ \A n \in Nat : Shares(s[Len(s)].terms, y.terms, n) <=> n <= y.inc

(* The n-grams of a run.                                                   *)
LEMMA RunTerms ==
  ASSUME NEW n, NEW s, RunOK(s, n)
  PROVE  /\ s \in Seq(Groups) /\ Len(s) \in Nat
         /\ \A m \in 1 .. Len(s) :
              /\ TermsOf(s)[m] = s[m].terms /\ IncOf(s)[m] = s[m].inc
              /\ s[m].terms \in Seq(Nat) /\ s[m].terms # <<>> /\ s[m].inc \in Nat /\ s[m].docs \in DocBags
         /\ \A m, i \in 1 .. Len(s) : m < i => LexLess(s[m].terms, s[i].terms)
<1>1. s \in Seq(Groups) /\ Len(s) \in Nat /\ InRun(Len(s), TermsOf(s), IncOf(s))
  BY DEF RunOK
<1>2. \A m \in 1 .. Len(s) :
        /\ TermsOf(s)[m] = s[m].terms /\ IncOf(s)[m] = s[m].inc
        /\ s[m].terms \in Seq(Nat) /\ s[m].terms # <<>> /\ s[m].inc \in Nat /\ s[m].docs \in DocBags
  <2> SUFFICES ASSUME NEW m \in 1 .. Len(s)
               PROVE /\ TermsOf(s)[m] = s[m].terms /\ IncOf(s)[m] = s[m].inc
                     /\ s[m].terms \in Seq(Nat) /\ s[m].terms # <<>> /\ s[m].inc \in Nat /\ s[m].docs \in DocBags
    OBVIOUS
  <2>1. s[m] \in Groups
    BY <1>1
  <2> QED BY <2>1 DEF Groups, TermsOf, IncOf
<1>3. \A m, i \in 1 .. Len(s) : m < i => LexLess(TermsOf(s)[m], TermsOf(s)[i])
  BY <1>1 DEF InRun
<1> QED BY <1>1, <1>2, <1>3

(* All of the run come before what fits behind it.                         *)
LEMMA FitsAfter ==
  ASSUME NEW n, NEW s, RunOK(s, n), NEW y, Fits(s, y), NEW m \in 1 .. Len(s)
  PROVE  LexLess(s[m].terms, y.terms)
<1>1. /\ Len(s) \in Nat /\ \A i \in 1 .. Len(s) : s[i].terms \in Seq(Nat)
      /\ \A i, j \in 1 .. Len(s) : i < j => LexLess(s[i].terms, s[j].terms)
  BY RunTerms
<1>2. Len(s) > 0 /\ Len(s) \in 1 .. Len(s)
  BY <1>1
<1>3. LexLess(s[Len(s)].terms, y.terms) /\ y.terms \in Seq(Nat)
  BY <1>2 DEF Fits
<1>4. LexLeq(s[m].terms, s[Len(s)].terms)
  <2>1. m = Len(s) \/ m < Len(s)
    BY <1>1
  <2> QED BY <1>1, <1>2, <2>1 DEF LexLeq
<1> QED BY <1>1, <1>2, <1>3, <1>4, LexSteps

(* A run with what fits behind it is a run.                                *)
LEMMA RunAppends ==
  ASSUME NEW n, NEW s, RunOK(s, n), NEW y \in Groups, Fits(s, y),
         \A d \in Nat : Tally(y.docs, At(n, y.terms, d), d)
  PROVE  RunOK(Append(s, y), n)
<1> DEFINE l == Len(s)
           q == Append(s, y)
           t == TermsOf(q)
           inc == IncOf(q)
<1>1. /\ s \in Seq(Groups) /\ l \in Nat
      /\ \A m \in 1 .. l :
           /\ TermsOf(s)[m] = s[m].terms /\ IncOf(s)[m] = s[m].inc
           /\ s[m].terms \in Seq(Nat) /\ s[m].inc \in Nat
      /\ \A m, i \in 1 .. l : m < i => LexLess(s[m].terms, s[i].terms)
  BY RunTerms
<1>2. q \in Seq(Groups) /\ Len(q) = l + 1 /\ (\A m \in 1 .. l : q[m] = s[m]) /\ q[l + 1] = y
  BY <1>1
<1>3. InRun(l, TermsOf(s), IncOf(s)) /\ \A m \in 1 .. l, d \in Nat : Tally(s[m].docs, At(n, s[m].terms, d), d)
  BY DEF RunOK
<1>4. y.terms \in Seq(Nat) /\ y.inc \in Nat
  BY DEF Groups
<1>5. \A m \in 1 .. l + 1 : t[m] = q[m].terms /\ inc[m] = q[m].inc /\ t[m] \in Seq(Nat) /\ inc[m] \in Nat
  <2> SUFFICES ASSUME NEW m \in 1 .. l + 1
               PROVE  t[m] = q[m].terms /\ inc[m] = q[m].inc /\ t[m] \in Seq(Nat) /\ inc[m] \in Nat
    OBVIOUS
  <2>1. q[m] \in Groups
    BY <1>2
  <2> QED BY <1>2, <2>1 DEF Groups, TermsOf, IncOf
<1>6. t \in [1 .. l + 1 -> Seq(Nat)] /\ inc \in [1 .. l + 1 -> Nat]
  <2>1. t = [m \in 1 .. l + 1 |-> q[m].terms] /\ inc = [m \in 1 .. l + 1 |-> q[m].inc]
    BY <1>2 DEF TermsOf, IncOf
  <2> HIDE DEF t, inc, q, l
  <2> QED BY <1>5, <2>1
<1> HIDE DEF t, inc, q, l
<1>7. \A m \in 1 .. l : t[m] = s[m].terms /\ inc[m] = s[m].inc /\ m \in 1 .. l + 1
  BY <1>1, <1>2, <1>5
<1>8. t[l + 1] = y.terms /\ inc[l + 1] = y.inc /\ l + 1 \in 1 .. l + 1
  BY <1>1, <1>2, <1>5
<1>9. ASSUME NEW m \in 1 .. l + 1, NEW i \in 1 .. l + 1, m < i PROVE LexLess(t[m], t[i])
  <2>1. m \in 1 .. l
    BY <1>1, <1>9
  <2>2. CASE i \in 1 .. l
    BY <1>1, <1>7, <1>9, <2>1, <2>2
  <2>3. CASE i = l + 1
    <3>1. LexLess(s[m].terms, y.terms)
      BY <2>1, FitsAfter DEF l
    <3> QED BY <1>7, <1>8, <2>1, <2>3, <3>1
  <2> QED BY <1>1, <2>2, <2>3
<1>10. inc[1] = 0
  <2>1. CASE l = 0
    BY <1>8, <2>1 DEF Fits, l
  <2>2. CASE l > 0
    <3>1. 1 \in 1 .. l /\ l >= 1
      BY <1>1, <2>2
    <3> QED BY <1>1, <1>3, <1>7, <3>1 DEF InRun
  <2> QED BY <1>1, <2>1, <2>2
<1>11. ASSUME NEW m \in 2 .. l + 1
       PROVE  inc[m] >= 1 /\ \A x \in Nat : Shares(t[m - 1], t[m], x) <=> x <= inc[m]
  <2>1. CASE m \in 2 .. l
    <3>1. m \in 1 .. l /\ m - 1 \in 1 .. l
      BY <1>1, <2>1
    <3>2. IncOf(s)[m] >= 1 /\ \A x \in Nat : Shares(TermsOf(s)[m - 1], TermsOf(s)[m], x) <=> x <= IncOf(s)[m]
      BY <1>3, <2>1 DEF InRun
    <3> QED BY <1>1, <1>7, <3>1, <3>2
  <2>2. CASE m = l + 1
    <3>1. l > 0 /\ m - 1 = l /\ l \in 1 .. l
      BY <1>1, <2>2
    <3>2. y.inc >= 1 /\ \A x \in Nat : Shares(s[l].terms, y.terms, x) <=> x <= y.inc
      BY <3>1 DEF Fits, l
    <3> QED BY <1>7, <1>8, <2>2, <3>1, <3>2
  <2> QED BY <1>1, <2>1, <2>2
<1>12. InRun(l + 1, t, inc)
  BY <1>1, <1>6, <1>9, <1>10, <1>11 DEF InRun
<1>13. ASSUME NEW m \in 1 .. l + 1, NEW d \in Nat PROVE Tally(q[m].docs, At(n, q[m].terms, d), d)
  <2>1. m \in 1 .. l \/ m = l + 1
    BY <1>1
  <2> QED BY <1>2, <1>3, <2>1
<1>14. Len(q) = l + 1 /\ q \in Seq(Groups)
  BY <1>2
<1> QED BY <1>12, <1>13, <1>14 DEF RunOK, t, inc, q

(* Before the first n-gram, and after processing, the run is empty.        *)
LEMMA NothingRuns == \A n : RunOK(<<>>, n)
<1> SUFFICES ASSUME NEW n PROVE RunOK(<<>>, n)
  OBVIOUS
<1>1. Len(<<>>) = 0 /\ <<>> \in Seq(Groups) /\ 1 .. 0 = {} /\ 2 .. 0 = {}
  OBVIOUS
<1>2. TermsOf(<<>>) = [m \in 1 .. 0 |-> <<>>[m].terms] /\ IncOf(<<>>) = [m \in 1 .. 0 |-> <<>>[m].inc]
  BY <1>1 DEF TermsOf, IncOf
<1>3. TermsOf(<<>>) \in [1 .. 0 -> Seq(Nat)] /\ IncOf(<<>>) \in [1 .. 0 -> Nat]
  <2> DEFINE a == <<>>
  <2> HIDE DEF a
  <2>1. [m \in 1 .. 0 |-> a[m].terms] \in [1 .. 0 -> Seq(Nat)] /\ [m \in 1 .. 0 |-> a[m].inc] \in [1 .. 0 -> Nat]
    BY <1>1
  <2> QED BY <1>2, <2>1 DEF a
<1>4. InRun(0, TermsOf(<<>>), IncOf(<<>>))
  BY <1>1, <1>3 DEF InRun
<1> QED BY <1>1, <1>4 DEF RunOK

(* The bags that are read: one document, one more.                         *)
One(d) == Kpe!SetToBag({d})

(* One document is counted once.                                           *)
LEMMA OneDoc ==
  ASSUME NEW d \in Nat
  PROVE  /\ One(d) \in DocBags /\ Kpe!EmptyBag \in DocBags
         /\ \A x : Kpe!Copies(One(d), x) = (IF x = d THEN 1 ELSE 0) /\ Kpe!Copies(Kpe!EmptyBag, x) = 0
<1>1. One(d) = [x \in {d} |-> 1] /\ Kpe!EmptyBag = [x \in {} |-> 1]
  BY DEF One, Kpe!SetToBag, Kpe!EmptyBag
<1>2. [x \in {d} |-> 1] \in [{d} -> Nat \ {0}] /\ [x \in {} |-> 1] \in [{} -> Nat \ {0}]
  OBVIOUS
<1>3. {d} \in SUBSET Nat /\ {} \in SUBSET Nat
  OBVIOUS
<1>4. One(d) \in DocBags /\ Kpe!EmptyBag \in DocBags
  BY <1>1, <1>2, <1>3 DEF DocBags
<1>5. ASSUME NEW x PROVE Kpe!Copies(One(d), x) = (IF x = d THEN 1 ELSE 0) /\ Kpe!Copies(Kpe!EmptyBag, x) = 0
  BY <1>1 DEF Kpe!Copies
<1> QED BY <1>4, <1>5

(* The places of some terms in one document, one place further on.         *)
LEMMA AtNext ==
  ASSUME NEW n \in Nat, NEW terms, NEW d
  PROVE  /\ IsFiniteSet(At(n, terms, d)) /\ n + 1 \notin At(n, terms, d)
         /\ ngrams[n + 1].terms = terms /\ ngrams[n + 1].docid = d =>
              At(n + 1, terms, d) = At(n, terms, d) \cup {n + 1}
         /\ ngrams[n + 1].terms # terms \/ ngrams[n + 1].docid # d => At(n + 1, terms, d) = At(n, terms, d)
<1>1. At(n, terms, d) \subseteq 1 .. n /\ n + 1 \notin 1 .. n
  BY DEF At
<1>2. IsFiniteSet(1 .. n)
  BY FS_Interval
<1>3. IsFiniteSet(At(n, terms, d))
  BY <1>1, <1>2, FS_Subset
<1>4. \A i : i \in 1 .. n + 1 <=> i \in 1 .. n \/ i = n + 1
  OBVIOUS
<1>5. ngrams[n + 1].terms = terms /\ ngrams[n + 1].docid = d =>
        At(n + 1, terms, d) = At(n, terms, d) \cup {n + 1}
  BY <1>4 DEF At
<1>6. ngrams[n + 1].terms # terms \/ ngrams[n + 1].docid # d => At(n + 1, terms, d) = At(n, terms, d)
  BY <1>4 DEF At
<1> QED BY <1>1, <1>3, <1>5, <1>6

(* When the next n-gram of the file is the same, its document is added.    *)
LEMMA OneMore ==
  ASSUME NEW n \in Nat, NEW terms, NEW docs \in DocBags, NEW d0 \in Nat,
         ngrams[n + 1].terms = terms, ngrams[n + 1].docid = d0,
         \A d \in Nat : Tally(docs, At(n, terms, d), d)
  PROVE  /\ Kpe!(+)(docs, One(d0)) \in DocBags
         /\ \A d \in Nat : Tally(Kpe!(+)(docs, One(d0)), At(n + 1, terms, d), d)
<1> DEFINE more == Kpe!(+)(docs, One(d0))
<1>1. One(d0) \in DocBags /\ \A x : Kpe!Copies(One(d0), x) = (IF x = d0 THEN 1 ELSE 0)
  BY OneDoc
<1>2. more = Plus(docs, One(d0))
  BY BagsAdd
<1> HIDE DEF more
<1>3. more \in DocBags /\ \A d : Kpe!Copies(more, d) = Kpe!Copies(docs, d) + Kpe!Copies(One(d0), d)
  BY <1>1, <1>2, PlusAdds
<1>4. ASSUME NEW d \in Nat PROVE Tally(more, At(n + 1, terms, d), d)
  <2>1. IsFiniteSet(At(n, terms, d)) /\ Kpe!Copies(docs, d) = Cardinality(At(n, terms, d))
    BY DEF Tally
  <2>2. Cardinality(At(n, terms, d)) \in Nat
    BY <2>1, FS_CardinalityType
  <2>3. CASE d = d0
    <3>1. At(n + 1, terms, d) = At(n, terms, d) \cup {n + 1} /\ n + 1 \notin At(n, terms, d)
      BY <2>3, AtNext
    <3>2. IsFiniteSet(At(n + 1, terms, d)) /\ Cardinality(At(n + 1, terms, d)) = Cardinality(At(n, terms, d)) + 1
      BY <2>1, <3>1, FS_AddElement
    <3>3. Kpe!Copies(more, d) = Kpe!Copies(docs, d) + 1
      BY <1>1, <1>3, <2>3
    <3> QED BY <2>1, <3>2, <3>3 DEF Tally
  <2>4. CASE d # d0
    <3>1. At(n + 1, terms, d) = At(n, terms, d)
      BY <2>4, AtNext
    <3>2. Kpe!Copies(more, d) = Kpe!Copies(docs, d)
      BY <1>1, <1>3, <2>1, <2>2, <2>4
    <3> QED BY <2>1, <3>1, <3>2 DEF Tally
  <2> QED BY <2>3, <2>4
<1> QED BY <1>3, <1>4 DEF more

(* When it is another one, its document is the first.                      *)
LEMMA FirstOne ==
  ASSUME NEW n \in Nat, NEW terms, NEW d0 \in Nat,
         ngrams[n + 1].terms = terms, ngrams[n + 1].docid = d0,
         \A i \in 1 .. n : ngrams[i].terms # terms
  PROVE  /\ \A d : Tally(Kpe!EmptyBag, At(n, terms, d), d)
         /\ \A d : Tally(One(d0), At(n + 1, terms, d), d)
<1> SUFFICES ASSUME NEW d
             PROVE Tally(Kpe!EmptyBag, At(n, terms, d), d) /\ Tally(One(d0), At(n + 1, terms, d), d)
  OBVIOUS
<1>1. At(n, terms, d) = {}
  BY DEF At
<1>2. Kpe!Copies(Kpe!EmptyBag, d) = 0 /\ Kpe!Copies(One(d0), d) = (IF d = d0 THEN 1 ELSE 0)
  BY OneDoc
<1>3. Tally(Kpe!EmptyBag, At(n, terms, d), d)
  BY <1>1, <1>2, FS_EmptySet DEF Tally
<1>4. CASE d = d0
  <2>1. At(n + 1, terms, d) = {n + 1}
    BY <1>1, <1>4, AtNext
  <2>2. IsFiniteSet({n + 1}) /\ Cardinality({n + 1}) = 1
    BY FS_Singleton
  <2>3. Kpe!Copies(One(d0), d) = 1
    BY <1>2, <1>4
  <2> QED BY <1>3, <2>1, <2>2, <2>3 DEF Tally
<1>5. CASE d # d0
  <2>1. At(n + 1, terms, d) = {}
    BY <1>1, <1>5, AtNext
  <2>2. Kpe!Copies(One(d0), d) = 0
    BY <1>2, <1>5
  <2> QED BY <1>3, <2>1, <2>2, FS_EmptySet DEF Tally
<1> QED BY <1>3, <1>4, <1>5

(* The rest of a file changes nothing of a run whose terms come before.    *)
LEMMA RunStays ==
  ASSUME NEW n \in Nat, NEW n2 \in Nat, n <= n2, NEW s, RunOK(s, n),
         \A m \in 1 .. Len(s), i \in n + 1 .. n2 : ngrams[i].terms # s[m].terms
  PROVE  RunOK(s, n2) /\ (WasRead(s, n) => WasRead(s, n2))
<1>1. ASSUME NEW m \in 1 .. Len(s), NEW d \in Nat PROVE At(n2, s[m].terms, d) = At(n, s[m].terms, d)
  <2>1. \A i : i \in 1 .. n2 <=> i \in 1 .. n \/ i \in n + 1 .. n2
    OBVIOUS
  <2>2. \A i : i \in At(n2, s[m].terms, d) <=> i \in At(n, s[m].terms, d)
    BY <2>1 DEF At
  <2> QED BY <2>2
<1>2. RunOK(s, n2)
  BY <1>1 DEF RunOK
<1>3. WasRead(s, n) => WasRead(s, n2)
  <2>1. \A i \in 1 .. n : i \in 1 .. n2
    OBVIOUS
  <2> QED BY <2>1 DEF WasRead
<1> QED BY <1>2, <1>3

(* The order of a sorted file.                                             *)
LEMMA FileIs ==
  ASSUME ngrams \in Seq(Ngrams), Ascending(ngrams)
  PROVE  /\ Len(ngrams) \in Nat /\ DOMAIN ngrams = 1 .. Len(ngrams)
         /\ \A i \in 1 .. Len(ngrams) :
              ngrams[i].terms \in Seq(Nat) /\ ngrams[i].terms # <<>> /\ ngrams[i].docid \in Nat
         /\ \A i, j \in 1 .. Len(ngrams) : i <= j => LexLeq(ngrams[i].terms, ngrams[j].terms)
<1>1. Len(ngrams) \in Nat /\ DOMAIN ngrams = 1 .. Len(ngrams) /\ \A i \in 1 .. Len(ngrams) : ngrams[i] \in Ngrams
  OBVIOUS
<1>2. \A i \in 1 .. Len(ngrams) :
        ngrams[i].terms \in Seq(Nat) /\ ngrams[i].terms # <<>> /\ ngrams[i].docid \in Nat
  BY <1>1 DEF Ngrams
<1>3. \A i, j \in 1 .. Len(ngrams) : i <= j => LexLeq(ngrams[i].terms, ngrams[j].terms)
  <2> SUFFICES ASSUME NEW i \in 1 .. Len(ngrams), NEW j \in 1 .. Len(ngrams), i <= j
               PROVE  LexLeq(ngrams[i].terms, ngrams[j].terms)
    OBVIOUS
  <2>1. i = j \/ i < j
    OBVIOUS
  <2> QED BY <1>1, <2>1 DEF Ascending, LexLeq
<1> QED BY <1>1, <1>2, <1>3

(* What is being collected: the run s, the n-gram y that was read last, of *)
(* the first n of the file.                                                *)
Gather(s, y, n) ==
  /\ n \in 1 .. Len(ngrams)
  /\ RunOK(s, n) /\ WasRead(s, n)
  /\ y \in Groups /\ Fits(s, y) /\ y.terms = ngrams[n].terms
  /\ \A d \in Nat : Tally(y.docs, At(n, y.terms, d), d)
  /\ \A i \in 1 .. n : ~Misses(Append(s, y), i)

(* Nothing of this changes while the file does not.                        *)
LEMMA SameFile ==
  ASSUME ngrams' = ngrams
  PROVE  /\ \A n, terms, d : At(n, terms, d)' = At(n, terms, d)
         /\ \A s, n : RunOK(s, n)' <=> RunOK(s, n)
         /\ \A s, n : WasRead(s, n)' <=> WasRead(s, n)
         /\ \A s, i : Misses(s, i)' <=> Misses(s, i)
         /\ \A s, y, n : Gather(s, y, n)' <=> Gather(s, y, n)
<1>1. \A n, terms, d : At(n, terms, d)' = At(n, terms, d)
  BY DEF At
<1>2. \A s, n : RunOK(s, n)' <=> RunOK(s, n)
  BY <1>1 DEF RunOK
<1>3. \A s, n : WasRead(s, n)' <=> WasRead(s, n)
  BY DEF WasRead
<1>4. \A s, i : Misses(s, i)' <=> Misses(s, i)
  BY DEF Misses
<1>5. \A s, y, n : Gather(s, y, n)' <=> Gather(s, y, n)
  BY <1>1, <1>2, <1>3, <1>4 DEF Gather
<1> QED BY <1>1, <1>2, <1>3, <1>4, <1>5

(* Its n-grams.                                                            *)
LEMMA GatherIs ==
  ASSUME ngrams \in Seq(Ngrams), Ascending(ngrams), NEW s, NEW y, NEW n, Gather(s, y, n)
  PROVE  /\ n \in Nat /\ Len(s) \in Nat
         /\ Len(Append(s, y)) = Len(s) + 1 /\ Append(s, y)[Len(s) + 1] = y
         /\ \A m \in 1 .. Len(s) : Append(s, y)[m] = s[m]
         /\ RunOK(Append(s, y), n) /\ WasRead(Append(s, y), n)
         /\ y.terms \in Seq(Nat)
         /\ \A m \in 1 .. Len(s) : s[m].terms \in Seq(Nat) /\ LexLess(s[m].terms, y.terms)
         /\ \A m \in 1 .. Len(s) + 1 : /\ Append(s, y)[m].terms \in Seq(Nat)
                                       /\ LexLeq(Append(s, y)[m].terms, y.terms)
<1> DEFINE q == Append(s, y)
           l == Len(s)
<1>1. /\ n \in 1 .. Len(ngrams) /\ RunOK(s, n) /\ WasRead(s, n)
      /\ y \in Groups /\ Fits(s, y) /\ y.terms = ngrams[n].terms
      /\ \A d \in Nat : Tally(y.docs, At(n, y.terms, d), d)
  BY DEF Gather
<1>2. n \in Nat /\ n \in 1 .. n
  BY <1>1, FileIs
<1>3. s \in Seq(Groups) /\ l \in Nat /\ \A m \in 1 .. l : s[m].terms \in Seq(Nat)
  BY <1>1, RunTerms
<1>4. Len(q) = l + 1 /\ q[l + 1] = y /\ \A m \in 1 .. l : q[m] = s[m]
  BY <1>3
<1>5. RunOK(q, n)
  BY <1>1, RunAppends
<1>6. y.terms \in Seq(Nat)
  BY <1>1 DEF Groups
<1>7. \A m \in 1 .. l : LexLess(s[m].terms, y.terms)
  BY <1>1, FitsAfter
<1> HIDE DEF q, l
<1>8. \A m \in 1 .. l + 1 : m \in 1 .. l \/ m = l + 1
  BY <1>3 DEF l
<1>9. WasRead(q, n)
  <2> SUFFICES ASSUME NEW m \in 1 .. l + 1 PROVE \E i \in 1 .. n : ngrams[i].terms = q[m].terms
    BY <1>4 DEF WasRead
  <2>1. CASE m \in 1 .. l
    BY <1>1, <1>4, <2>1 DEF WasRead, l
  <2>2. CASE m = l + 1
    BY <1>1, <1>2, <1>4, <2>2
  <2> QED BY <1>8, <2>1, <2>2
<1>10. \A m \in 1 .. l + 1 : q[m].terms \in Seq(Nat) /\ LexLeq(q[m].terms, y.terms)
  BY <1>3, <1>4, <1>6, <1>7, <1>8 DEF LexLeq
<1> QED BY <1>2, <1>3, <1>4, <1>5, <1>6, <1>7, <1>9, <1>10 DEF q, l

(* At the end of the file what was collected is whole: only the n-gram     *)
(* that is last is missing.                                                *)
LEMMA WholeAtEnd ==
  ASSUME ngrams \in Seq(Ngrams), Ascending(ngrams), NEW s, NEW y, Gather(s, y, Len(ngrams))
  PROVE  Whole(s)
<1> DEFINE n == Len(ngrams)
           q == Append(s, y)
<1>1. /\ n \in 1 .. n /\ RunOK(s, n) /\ WasRead(s, n) /\ y.terms = ngrams[n].terms
      /\ \A i \in 1 .. n : ~Misses(q, i)
  BY DEF Gather
<1>2. /\ Len(s) \in Nat /\ Len(q) = Len(s) + 1 /\ q[Len(s) + 1] = y
      /\ \A m \in 1 .. Len(s) : q[m] = s[m]
      /\ \A m \in 1 .. Len(s) : s[m].terms \in Seq(Nat) /\ LexLess(s[m].terms, y.terms)
      /\ y.terms \in Seq(Nat)
  BY GatherIs
<1>3. Kpe!Last(ngrams).terms = y.terms
  BY <1>1 DEF Kpe!Last
<1>4. \A m \in 1 .. Len(s) : s[m].terms # Kpe!Last(ngrams).terms
  BY <1>2, <1>3, LexSteps
<1> HIDE DEF q
<1>5. ASSUME NEW i \in Kpe!Counted, Misses(s, i) PROVE FALSE
  <2>1. i \in 1 .. n /\ ngrams[i].terms # y.terms
    BY <1>3, FileIs DEF Kpe!Counted
  <2>2. \A m \in 1 .. Len(s) + 1 : m \in 1 .. Len(s) \/ m = Len(s) + 1
    BY <1>2
  <2>3. \A m \in 1 .. Len(q) : q[m].terms # ngrams[i].terms
    BY <1>2, <1>5, <2>1, <2>2 DEF Misses
  <2>4. PICK m \in 1 .. Len(s) : Shares(ngrams[i].terms, s[m].terms, 1)
    BY <1>5 DEF Misses
  <2>5. m \in 1 .. Len(q) /\ Shares(ngrams[i].terms, q[m].terms, 1)
    BY <1>2, <2>4
  <2> QED BY <1>1, <2>1, <2>3, <2>5 DEF Misses
<1> QED BY <1>1, <1>4, <1>5 DEF Whole

(* What comes next in the file is another n-gram.                          *)
Another(y, n) ==
  n \in 1 .. Len(ngrams) /\ n < Len(ngrams) /\ y.terms = ngrams[n].terms /\ ngrams[n + 1].terms # y.terms

(* It comes after all that were read, and the rest comes after what was    *)
(* read last.                                                              *)
LEMMA AnotherIs ==
  ASSUME ngrams \in Seq(Ngrams), Ascending(ngrams), NEW y, NEW n, Another(y, n)
  PROVE  /\ n + 1 \in 1 .. Len(ngrams) /\ n \in Nat /\ Len(ngrams) \in Nat
         /\ y.terms \in Seq(Nat) /\ ngrams[n + 1].terms \in Seq(Nat) /\ ngrams[n + 1].docid \in Nat
         /\ y.terms # <<>> /\ ngrams[n + 1].terms # <<>>
         /\ LexLess(y.terms, ngrams[n + 1].terms)
         /\ \A i \in 1 .. n : /\ i \in 1 .. Len(ngrams) /\ ngrams[i].terms \in Seq(Nat)
                              /\ LexLeq(ngrams[i].terms, y.terms)
                              /\ LexLess(ngrams[i].terms, ngrams[n + 1].terms)
         /\ \A i \in n + 1 .. Len(ngrams) : /\ i \in 1 .. Len(ngrams) /\ ngrams[i].terms \in Seq(Nat)
                                            /\ LexLeq(ngrams[n + 1].terms, ngrams[i].terms)
                                            /\ LexLess(y.terms, ngrams[i].terms)
<1> DEFINE U == ngrams[n + 1].terms
<1>1. /\ n \in 1 .. Len(ngrams) /\ n < Len(ngrams) /\ y.terms = ngrams[n].terms
      /\ U # y.terms /\ Len(ngrams) \in Nat
  BY FileIs DEF Another
<1>2. n + 1 \in 1 .. Len(ngrams) /\ n \in Nat /\ n <= n + 1
  BY <1>1
<1>3. y.terms \in Seq(Nat) /\ U \in Seq(Nat) /\ ngrams[n + 1].docid \in Nat /\ y.terms # <<>> /\ U # <<>>
  BY <1>1, <1>2, FileIs
<1>4. LexLess(y.terms, U)
  <2>1. LexLeq(ngrams[n].terms, ngrams[n + 1].terms)
    BY <1>1, <1>2, FileIs
  <2> QED BY <1>1, <2>1 DEF LexLeq
<1> HIDE DEF U
<1>5. ASSUME NEW i \in 1 .. n
      PROVE  /\ i \in 1 .. Len(ngrams) /\ ngrams[i].terms \in Seq(Nat)
             /\ LexLeq(ngrams[i].terms, y.terms) /\ LexLess(ngrams[i].terms, U)
  <2>1. i \in 1 .. Len(ngrams) /\ i <= n
    BY <1>1
  <2>2. ngrams[i].terms \in Seq(Nat) /\ LexLeq(ngrams[i].terms, y.terms)
    BY <1>1, <2>1, FileIs
  <2> QED BY <1>3, <1>4, <2>1, <2>2, LexSteps
<1>6. ASSUME NEW i \in n + 1 .. Len(ngrams)
      PROVE  /\ i \in 1 .. Len(ngrams) /\ ngrams[i].terms \in Seq(Nat)
             /\ LexLeq(U, ngrams[i].terms) /\ LexLess(y.terms, ngrams[i].terms)
  <2>1. i \in 1 .. Len(ngrams) /\ n + 1 <= i
    BY <1>1
  <2>2. ngrams[i].terms \in Seq(Nat) /\ LexLeq(U, ngrams[i].terms)
    BY <1>2, <2>1, FileIs DEF U
  <2> QED BY <1>3, <1>4, <2>1, <2>2, LexSteps
<1> QED BY <1>1, <1>2, <1>3, <1>4, <1>5, <1>6 DEF U

(* If it begins with another term what was collected is whole.             *)
LEMMA WholeAtOther ==
  ASSUME ngrams \in Seq(Ngrams), Ascending(ngrams), NEW s, NEW y, NEW n, Gather(s, y, n),
         Another(y, n), ~Shares(y.terms, ngrams[n + 1].terms, 1)
  PROVE  Whole(Append(s, y))
<1> DEFINE q == Append(s, y)
           N == Len(ngrams)
           U == ngrams[n + 1].terms
<1>1. /\ Len(q) = Len(s) + 1 /\ RunOK(q, n) /\ WasRead(q, n) /\ n \in Nat
      /\ \A m \in 1 .. Len(q) : q[m].terms \in Seq(Nat) /\ LexLeq(q[m].terms, y.terms)
  BY GatherIs
<1>2. /\ n + 1 \in 1 .. N /\ N \in Nat /\ y.terms \in Seq(Nat) /\ U \in Seq(Nat)
      /\ LexLess(y.terms, U)
      /\ \A i \in n + 1 .. N : /\ i \in 1 .. N /\ ngrams[i].terms \in Seq(Nat)
                               /\ LexLeq(U, ngrams[i].terms) /\ LexLess(y.terms, ngrams[i].terms)
  BY AnotherIs
<1>3. \A i \in 1 .. n : ~Misses(q, i)
  BY DEF Gather
<1> HIDE DEF q, N, U
<1>4. \A m \in 1 .. Len(q), i \in n + 1 .. N : ngrams[i].terms # q[m].terms
  <2> SUFFICES ASSUME NEW m \in 1 .. Len(q), NEW i \in n + 1 .. N PROVE ngrams[i].terms # q[m].terms
    OBVIOUS
  <2>1. LexLess(q[m].terms, ngrams[i].terms)
    BY <1>1, <1>2, LexSteps
  <2> QED BY <1>1, <1>2, <2>1, LexSteps
<1>5. RunOK(q, N) /\ WasRead(q, N)
  <2>1. n <= N
    BY <1>1, <1>2
  <2> QED BY <1>1, <1>2, <1>4, <2>1, RunStays
<1>6. \A m \in 1 .. Len(q) : q[m].terms # Kpe!Last(ngrams).terms
  <2>1. N \in n + 1 .. N
    BY <1>1, <1>2
  <2> QED BY <1>4, <2>1 DEF Kpe!Last, N
<1>7. ASSUME NEW i \in Kpe!Counted PROVE ~Misses(q, i)
  <2>1. i \in 1 .. N
    BY FileIs DEF Kpe!Counted, N
  <2>2. CASE i \in 1 .. n
    BY <1>3, <2>2
  <2>3. CASE i \in n + 1 .. N
    <3> SUFFICES ASSUME NEW m \in 1 .. Len(q), Shares(ngrams[i].terms, q[m].terms, 1) PROVE FALSE
      BY DEF Misses
    <3>1. ngrams[i].terms \in Seq(Nat) /\ q[m].terms \in Seq(Nat) /\ 1 \in Nat
      BY <1>1, <1>2, <2>3
    <3>2. Shares(q[m].terms, ngrams[i].terms, 1)
      BY <3>1, SharesIs
    <3>3. LexLeq(y.terms, ngrams[i].terms) /\ LexLeq(y.terms, U)
      BY <1>2, <2>3 DEF LexLeq
    <3>4. Shares(y.terms, ngrams[i].terms, 1)
      BY <1>1, <1>2, <3>1, <3>2, <3>3, LexWithin
    <3>5. Shares(y.terms, U, 1)
      BY <1>2, <2>3, <3>1, <3>3, <3>4, LexWithin
    <3> QED BY <3>5 DEF U
  <2> QED BY <1>1, <2>1, <2>2, <2>3
<1>8. Whole(q)
  BY <1>5, <1>6, <1>7 DEF Whole, N
<1> QED BY <1>8 DEF q

(* A new collection, of which there was nothing before.                    *)
LEMMA GatherNew ==
  ASSUME ngrams \in Seq(Ngrams), Ascending(ngrams), NEW n \in Nat, n < Len(ngrams), NEW z \in Groups,
         z.inc = 0, z.terms = ngrams[n + 1].terms,
         \A d \in Nat : Tally(z.docs, At(n + 1, z.terms, d), d),
         \A i \in 1 .. n : ~Shares(ngrams[i].terms, z.terms, 1)
  PROVE  Gather(<<>>, z, n + 1)
<1> DEFINE q == Append(<<>>, z)
<1>1. n + 1 \in 1 .. Len(ngrams)
  BY FileIs
<1>2. Len(<<>>) = 0 /\ Len(q) = 1 /\ q[1] = z
  OBVIOUS
<1>3. RunOK(<<>>, n + 1)
  BY NothingRuns
<1>4. WasRead(<<>>, n + 1)
  BY <1>2 DEF WasRead
<1>5. Fits(<<>>, z)
  BY <1>2 DEF Fits, Groups
<1> HIDE DEF q
<1>6. ASSUME NEW i \in 1 .. n + 1, Misses(q, i) PROVE FALSE
  <2>1. 1 \in 1 .. Len(q) /\ \A m \in 1 .. Len(q) : m = 1
    BY <1>2
  <2>2. z.terms # ngrams[i].terms /\ Shares(ngrams[i].terms, z.terms, 1)
    BY <1>2, <1>6, <2>1 DEF Misses
  <2>3. i \in 1 .. n
    BY <2>2
  <2> QED BY <2>2, <2>3
<1> QED BY <1>1, <1>3, <1>4, <1>5, <1>6 DEF Gather, q

(* One more of the n-gram that was read last.                              *)
LEMMA GatherMore ==
  ASSUME ngrams \in Seq(Ngrams), Ascending(ngrams), NEW s, NEW y, NEW n, Gather(s, y, n),
         n < Len(ngrams), y.terms = ngrams[n + 1].terms,
         NEW z, z = [y EXCEPT !.terms = ngrams[n + 1].terms,
                              !.docs = Kpe!(+)(y.docs, One(ngrams[n + 1].docid))]
  PROVE  Gather(s, z, n + 1)
<1> DEFINE q == Append(s, y)
           p == Append(s, z)
<1>1. /\ n \in 1 .. Len(ngrams) /\ RunOK(s, n) /\ WasRead(s, n)
      /\ y \in Groups /\ Fits(s, y) /\ \A d \in Nat : Tally(y.docs, At(n, y.terms, d), d)
      /\ \A i \in 1 .. n : ~Misses(q, i)
  BY DEF Gather
<1>2. n \in Nat /\ n + 1 \in 1 .. Len(ngrams) /\ n <= n + 1 /\ n + 1 \in Nat
  BY <1>1, FileIs
<1>3. ngrams[n + 1].docid \in Nat
  BY <1>2, FileIs
<1>4. y.docs \in DocBags /\ y.terms \in Seq(Nat) \ {<<>>} /\ y.inc \in Nat
      /\ y = [inc |-> y.inc, terms |-> y.terms, docs |-> y.docs]
  BY <1>1 DEF Groups
<1> DEFINE docs == Kpe!(+)(y.docs, One(ngrams[n + 1].docid))
<1>5. docs \in DocBags /\ \A d \in Nat : Tally(docs, At(n + 1, y.terms, d), d)
  BY <1>1, <1>2, <1>3, <1>4, OneMore
<1> HIDE DEF docs
<1>6. z.inc = y.inc /\ z.terms = y.terms /\ z.docs = docs /\ z \in Groups
  <2>1. z = [y EXCEPT !.terms = y.terms, !.docs = docs]
    BY DEF docs
  <2>2. z = [inc |-> y.inc, terms |-> y.terms, docs |-> docs]
    BY <1>4, <2>1
  <2> DEFINE w == [inc |-> y.inc, terms |-> y.terms, docs |-> docs]
  <2>3. w.inc = y.inc /\ w.terms = y.terms /\ w.docs = docs
    OBVIOUS
  <2>4. w \in Groups
    BY <1>4, <1>5 DEF Groups
  <2>5. z = w
    BY <2>2
  <2> HIDE DEF w
  <2> QED BY <2>3, <2>4, <2>5
<1>7. Fits(s, z)
  BY <1>1, <1>6 DEF Fits
<1>8. /\ Len(s) \in Nat /\ s \in Seq(Groups)
      /\ \A m \in 1 .. Len(s) : s[m].terms \in Seq(Nat) /\ LexLess(s[m].terms, y.terms)
  BY <1>1, GatherIs, RunTerms
<1>9. \A m \in 1 .. Len(s), i \in n + 1 .. n + 1 : ngrams[i].terms # s[m].terms
  <2> SUFFICES ASSUME NEW m \in 1 .. Len(s), NEW i \in n + 1 .. n + 1 PROVE ngrams[i].terms # s[m].terms
    OBVIOUS
  <2>1. i = n + 1
    BY <1>2
  <2>2. s[m].terms # y.terms
    BY <1>4, <1>8, LexSteps
  <2> QED BY <2>1, <2>2
<1>10. RunOK(s, n + 1) /\ WasRead(s, n + 1)
  BY <1>1, <1>2, <1>9, RunStays
<1>11. /\ Len(p) = Len(s) + 1 /\ Len(q) = Len(s) + 1
       /\ \A m \in 1 .. Len(s) + 1 : p[m].terms = q[m].terms
       /\ Len(s) + 1 \in 1 .. Len(s) + 1 /\ q[Len(s) + 1] = y
  <2>1. Len(p) = Len(s) + 1 /\ Len(q) = Len(s) + 1 /\ p[Len(s) + 1] = z /\ q[Len(s) + 1] = y
    BY <1>8
  <2>2. \A m \in 1 .. Len(s) : p[m] = s[m] /\ q[m] = s[m]
    BY <1>8
  <2>3. \A m \in 1 .. Len(s) + 1 : m \in 1 .. Len(s) \/ m = Len(s) + 1
    BY <1>8
  <2> HIDE DEF p, q
  <2>4. \A m \in 1 .. Len(s) : p[m].terms = q[m].terms
    BY <2>2
  <2>5. p[Len(s) + 1].terms = q[Len(s) + 1].terms
    BY <1>6, <2>1
  <2>6. \A m \in 1 .. Len(s) + 1 : p[m].terms = q[m].terms
    BY <2>3, <2>4, <2>5
  <2>7. Len(s) + 1 \in 1 .. Len(s) + 1
    BY <1>8
  <2> QED BY <2>1, <2>6, <2>7
<1> HIDE DEF p, q
<1>12. ASSUME NEW i \in 1 .. n + 1, Misses(p, i) PROVE FALSE
  <2>1. Misses(q, i)
    BY <1>11, <1>12 DEF Misses
  <2>2. i = n + 1
    BY <1>1, <1>2, <2>1
  <2> QED BY <1>11, <2>1, <2>2 DEF Misses
<1>13. z.terms = ngrams[n + 1].terms /\ \A d \in Nat : Tally(z.docs, At(n + 1, z.terms, d), d)
  BY <1>5, <1>6
<1> QED BY <1>2, <1>6, <1>7, <1>10, <1>12, <1>13 DEF Gather, p

(* Another one that shares terms with it.                                  *)
LEMMA GatherOn ==
  ASSUME ngrams \in Seq(Ngrams), Ascending(ngrams), NEW s, NEW y, NEW n, Gather(s, y, n),
         Another(y, n), NEW z,
         z = [inc |-> Kpe!GetInc(y.terms, ngrams[n + 1].terms), terms |-> ngrams[n + 1].terms,
              docs |-> One(ngrams[n + 1].docid)]
  PROVE  /\ z \in Groups /\ z.terms = ngrams[n + 1].terms
         /\ \A d \in Nat : Tally(z.docs, At(n + 1, z.terms, d), d)
         /\ \A x \in Nat : Shares(y.terms, z.terms, x) <=> x <= z.inc
         /\ z.inc = 0 => \A i \in 1 .. n : ~Shares(ngrams[i].terms, z.terms, 1)
         /\ z.inc # 0 => Gather(Append(s, y), z, n + 1)
<1> DEFINE q == Append(s, y)
           p == Append(q, z)
           U == ngrams[n + 1].terms
<1>1. /\ Len(q) = Len(s) + 1 /\ q[Len(s) + 1] = y /\ Len(s) \in Nat /\ RunOK(q, n) /\ WasRead(q, n)
      /\ \A m \in 1 .. Len(s) + 1 : q[m].terms \in Seq(Nat) /\ LexLeq(q[m].terms, y.terms)
      /\ \A m \in 1 .. Len(s) : q[m] = s[m]
  BY GatherIs
<1>2. /\ n + 1 \in 1 .. Len(ngrams) /\ n \in Nat /\ y.terms \in Seq(Nat) /\ U \in Seq(Nat)
      /\ ngrams[n + 1].docid \in Nat /\ U # <<>>
      /\ LexLess(y.terms, U)
      /\ \A i \in 1 .. n : /\ ngrams[i].terms \in Seq(Nat)
                           /\ LexLeq(ngrams[i].terms, y.terms) /\ LexLess(ngrams[i].terms, U)
  BY AnotherIs
<1>3. \A i \in 1 .. n : ~Misses(q, i)
  BY DEF Gather
<1>4. z.inc \in Nat /\ z.terms = U /\ z.docs = One(ngrams[n + 1].docid)
      /\ \A x \in Nat : Shares(y.terms, U, x) <=> x <= z.inc
  <2>1. Kpe!GetInc(y.terms, U) \in Nat /\ \A x \in Nat : Shares(y.terms, U, x) <=> x <= Kpe!GetInc(y.terms, U)
    BY <1>2, IncIs
  <2>2. z.inc = Kpe!GetInc(y.terms, U) /\ z.terms = U /\ z.docs = One(ngrams[n + 1].docid)
    OBVIOUS
  <2> QED BY <2>1, <2>2
<1>5. z \in Groups
  <2>1. z.docs \in DocBags
    BY <1>2, <1>4, OneDoc
  <2>2. z = [inc |-> z.inc, terms |-> z.terms, docs |-> z.docs]
    OBVIOUS
  <2> HIDE DEF U
  <2> QED BY <1>2, <1>4, <2>1, <2>2 DEF Groups
<1> HIDE DEF q, U
<1>6. \A i \in 1 .. n : ngrams[i].terms # U
  BY <1>2, LexSteps
<1>7. \A d \in Nat : Tally(z.docs, At(n + 1, z.terms, d), d)
  BY <1>2, <1>4, <1>6, FirstOne DEF U
<1>8. ASSUME NEW i \in 1 .. n, Shares(ngrams[i].terms, U, 1)
      PROVE  Shares(y.terms, U, 1) /\ Shares(ngrams[i].terms, y.terms, 1)
  <2>1. LexLeq(y.terms, U)
    BY <1>2 DEF LexLeq
  <2> QED BY <1>2, <1>8, <2>1, LexWithin
<1>9. z.inc = 0 => \A i \in 1 .. n : ~Shares(ngrams[i].terms, z.terms, 1)
  BY <1>4, <1>8
<1>10. ASSUME z.inc # 0 PROVE Gather(q, z, n + 1)
  <2>1. \A m \in 1 .. Len(q), i \in n + 1 .. n + 1 : ngrams[i].terms # q[m].terms
    <3> SUFFICES ASSUME NEW m \in 1 .. Len(q), NEW i \in n + 1 .. n + 1 PROVE ngrams[i].terms # q[m].terms
      OBVIOUS
    <3>1. i = n + 1
      BY <1>2
    <3>2. LexLess(q[m].terms, U)
      BY <1>1, <1>2, LexSteps
    <3> QED BY <1>1, <1>2, <3>1, <3>2, LexSteps DEF U
  <2>2. RunOK(q, n + 1) /\ WasRead(q, n + 1)
    <3>1. n <= n + 1 /\ n + 1 \in Nat
      BY <1>2
    <3> QED BY <1>1, <1>2, <2>1, <3>1, RunStays
  <2>3. Fits(q, z)
    <3>1. z.inc >= 1 /\ Len(q) > 0 /\ q[Len(q)] = y
      BY <1>1, <1>4, <1>10
    <3> QED BY <1>2, <1>4, <3>1 DEF Fits
  <2>4. q \in Seq(Groups)
    BY <2>2, RunTerms
  <2>5. /\ Len(p) = Len(q) + 1 /\ p[Len(q) + 1] = z /\ Len(q) \in Nat
        /\ \A m \in 1 .. Len(q) : p[m] = q[m]
    BY <2>4
  <2> HIDE DEF p
  <2>6. ASSUME NEW i \in 1 .. n + 1, Misses(p, i) PROVE FALSE
    <3>1. \A m \in 1 .. Len(q) : m \in 1 .. Len(p)
      BY <2>5
    <3>2. Len(q) + 1 \in 1 .. Len(p) /\ \A m \in 1 .. Len(p) : m \in 1 .. Len(q) \/ m = Len(q) + 1
      BY <2>5
    <3>3. U # ngrams[i].terms
      BY <1>4, <2>5, <2>6, <3>2 DEF Misses
    <3>4. i \in 1 .. n
      BY <1>2, <3>3 DEF U
    <3>5. \A m \in 1 .. Len(q) : q[m].terms # ngrams[i].terms
      BY <2>5, <2>6, <3>1 DEF Misses
    <3>6. PICK m \in 1 .. Len(p) : Shares(ngrams[i].terms, p[m].terms, 1)
      BY <2>6 DEF Misses
    <3>7. \E x \in 1 .. Len(q) : Shares(ngrams[i].terms, q[x].terms, 1)
      <4>1. CASE m \in 1 .. Len(q)
        BY <2>5, <3>6, <4>1
      <4>2. CASE m = Len(q) + 1
        <5>1. Shares(ngrams[i].terms, U, 1)
          BY <1>4, <2>5, <3>6, <4>2
        <5>2. Shares(ngrams[i].terms, y.terms, 1)
          BY <1>8, <3>4, <5>1
        <5>3. Len(q) \in 1 .. Len(q) /\ q[Len(q)] = y
          BY <1>1
        <5> QED BY <5>2, <5>3
      <4> QED BY <3>2, <4>1, <4>2
    <3> QED BY <1>3, <3>4, <3>5, <3>7 DEF Misses
  <2> QED BY <1>2, <1>4, <1>5, <1>7, <2>2, <2>3, <2>6 DEF Gather, p, U
<1> QED BY <1>4, <1>5, <1>7, <1>9, <1>10 DEF q, U

-----------------------------------------------------------------------------
(* Of the file, as far as it was read, the last n-gram and those collected *)
(* for processing are a run from which nothing with its first term is      *)
(* missing, and the candidates got so far are covered.                     *)
CoverInv ==
  /\ PhraseInv
  /\ kpe_stage = "inserting" => next_ngram = 0
  /\ kpe_stage # "inserting" => Ascending(ngrams) /\ \A c \in candidates : Covered(c)
  /\ kpe_stage = "counting" => next_ngram <= Len(ngrams) /\ Len(ngrams) > 0
  /\ next_ngram = 0 => last_ngram = Kpe!NoNgram /\ for_process = <<>>
  /\ kpe_stage = "counting" /\ next_ngram > 0 => Gather(for_process, last_ngram, next_ngram)

LEMMA CoveredSame ==
  ASSUME ngrams' = ngrams
  PROVE  \A c : Covered(c)' <=> Covered(c)
<1>1. Kpe!Counted' = Kpe!Counted
  BY DEF Kpe!Counted
<1>2. \A terms, d : Kpe!Occurrences(terms, d)' = Kpe!Occurrences(terms, d)
  BY <1>1 DEF Kpe!Occurrences
<1>3. Kpe!PrefixClosed' <=> Kpe!PrefixClosed
  BY <1>1 DEF Kpe!PrefixClosed
<1> QED BY <1>2, <1>3 DEF Covered

(* Processing a whole run leaves all candidates covered.                   *)
LEMMA CandidatesCovered ==
  ASSUME ngrams \in Seq(Ngrams), NEW s, Whole(s), Kpe!GetCandidate_(s), \A c \in candidates : Covered(c)
  PROVE  \A c \in candidates' : Covered(c)
<1>1. \A item \in Kpe!Accumulated(s) : Covered(item)
  BY ItemsCover
<1>2. \A c \in candidates' : c \in candidates \/ c \in Kpe!Accumulated(s)
  BY DEF Kpe!GetCandidate_
<1> QED BY <1>1, <1>2

(* In the beginning nothing was read.                                      *)
LEMMA CoverStarts == Kpe!Init => CoverInv
<1> SUFFICES ASSUME Kpe!Init PROVE CoverInv
  OBVIOUS
<1>1. next_ngram = 0 /\ last_ngram = Kpe!NoNgram /\ for_process = <<>> /\ kpe_stage = "inserting"
  BY DEF Kpe!Init
<1> QED BY <1>1, PhraseStarts DEF CoverInv

(* One n-gram more was read.                                               *)
LEMMA CoverReads ==
  ASSUME CoverInv, PhraseInv', kpe_stage = "counting", UNCHANGED <<kpe_stage, ngrams>>,
         next_ngram < Len(ngrams), next_ngram' = next_ngram + 1,
         Gather(for_process', last_ngram', next_ngram'), \A c \in candidates' : Covered(c)
  PROVE  CoverInv'
<1>1. ngrams \in Seq(Ngrams) /\ next_ngram \in Nat /\ Ascending(ngrams)
  BY DEF CoverInv, PhraseInv
<1>2. Gather(for_process, last_ngram, next_ngram)'
  BY SameFile
<1>3. \A c \in candidates' : Covered(c)'
  BY CoveredSame
<1>4. Len(ngrams) \in Nat
  BY <1>1
<1>5. next_ngram' > 0 /\ next_ngram' <= Len(ngrams') /\ Len(ngrams') > 0 /\ next_ngram' # 0
  BY <1>1, <1>4
<1>6. Ascending(ngrams')
  BY <1>1
<1> QED BY <1>2, <1>3, <1>5, <1>6 DEF CoverInv

(* One more of the n-gram that was read last: its document is added.       *)
LEMMA CoverReadSame == CoverInv /\ PhraseInv' /\ Kpe!ReadSame => CoverInv'
<1> SUFFICES ASSUME CoverInv, PhraseInv', Kpe!ReadSame PROVE CoverInv'
  OBVIOUS
<1> DEFINE n == next_ngram
           y == last_ngram
           g == ngrams[n + 1]
           z == [y EXCEPT !.terms = ngrams[n + 1].terms, !.docs = Kpe!(+)(y.docs, One(ngrams[n + 1].docid))]
<1>1. /\ kpe_stage = "counting" /\ kpe_stage' = kpe_stage /\ ngrams' = ngrams
      /\ n < Len(ngrams) /\ next_ngram' = n + 1 /\ for_process' = for_process /\ candidates' = candidates
      /\ y.terms \in {<<>>, g.terms} /\ last_ngram' = z
  BY DEF Kpe!ReadSame, One
<1>2. ngrams \in Seq(Ngrams) /\ n \in Nat /\ Ascending(ngrams) /\ \A c \in candidates : Covered(c)
  BY <1>1 DEF CoverInv, PhraseInv
<1>3. n + 1 \in 1 .. Len(ngrams)
  BY <1>1, <1>2
<1>4. g.terms \in Seq(Nat) /\ g.terms # <<>> /\ g.docid \in Nat
  BY <1>2, <1>3, FileIs
<1> HIDE DEF g
<1>5. Gather(for_process, z, n + 1)
  <2>1. CASE n = 0
    <3>1. for_process = <<>> /\ y = Kpe!NoNgram
      BY <2>1 DEF CoverInv
    <3> DEFINE docs == Kpe!(+)(Kpe!EmptyBag, One(g.docid))
    <3>2. y.docs = Kpe!EmptyBag /\ y = [inc |-> 0, terms |-> <<>>, docs |-> Kpe!EmptyBag]
      BY <3>1 DEF Kpe!NoNgram
    <3>3. docs \in DocBags /\ \A d \in Nat : Tally(docs, At(n + 1, g.terms, d), d)
      <4>1. Kpe!EmptyBag \in DocBags
        BY <1>4, OneDoc
      <4>2. \A d : Tally(Kpe!EmptyBag, At(n, g.terms, d), d)
        <5>1. \A i \in 1 .. n : ngrams[i].terms # g.terms
          BY <2>1
        <5> QED BY <1>2, <1>4, <5>1, FirstOne DEF g
      <4> QED BY <1>2, <1>4, <4>1, <4>2, OneMore DEF g
    <3> DEFINE w == [inc |-> 0, terms |-> g.terms, docs |-> docs]
    <3>4. z = w
      <4>1. z = [y EXCEPT !.terms = g.terms, !.docs = docs]
        BY <3>2 DEF g
      <4> HIDE DEF y, z, docs
      <4>2. y.inc = 0 /\ y = [inc |-> y.inc, terms |-> y.terms, docs |-> y.docs]
        <5>1. y.inc = 0 /\ y.terms = <<>> /\ y.docs = Kpe!EmptyBag
          BY <3>2
        <5> QED BY <3>2, <5>1, Zenon
      <4>3. z = [inc |-> y.inc, terms |-> g.terms, docs |-> docs]
        BY <4>1, <4>2
      <4> QED BY <4>2, <4>3
    <3> HIDE DEF docs, z
    <3>5. w.inc = 0 /\ w.terms = g.terms /\ w.docs = docs /\ w \in Groups
      BY <1>4, <3>3 DEF Groups
    <3> HIDE DEF w
    <3>6. \A i \in 1 .. n : ~Shares(ngrams[i].terms, w.terms, 1)
      BY <2>1
    <3>7. Gather(<<>>, w, n + 1)
      BY <1>1, <1>2, <3>3, <3>5, <3>6, GatherNew DEF g
    <3> QED BY <3>1, <3>4, <3>7
  <2>2. CASE n # 0
    <3>1. Gather(for_process, y, n)
      BY <1>1, <1>2, <2>2 DEF CoverInv
    <3>2. y.terms # <<>>
      BY <3>1 DEF Gather, Groups
    <3>3. y.terms = ngrams[n + 1].terms
      BY <1>1, <3>2 DEF g
    <3> QED BY <1>1, <1>2, <3>1, <3>3, GatherMore
  <2> QED BY <2>1, <2>2
<1> HIDE DEF z
<1> QED BY <1>1, <1>2, <1>5, CoverReads

(* Another one: the run goes on, or is processed and a new one starts.     *)
LEMMA CoverReadOther == CoverInv /\ PhraseInv' /\ Kpe!ReadOther => CoverInv'
<1> SUFFICES ASSUME CoverInv, PhraseInv', Kpe!ReadOther PROVE CoverInv'
  OBVIOUS
<1> DEFINE n == next_ngram
           y == last_ngram
           q == Append(for_process, last_ngram)
           z == [inc |-> Kpe!GetInc(y.terms, ngrams[n + 1].terms), terms |-> ngrams[n + 1].terms,
                 docs |-> One(ngrams[n + 1].docid)]
<1>1. /\ kpe_stage = "counting" /\ kpe_stage' = kpe_stage /\ ngrams' = ngrams
      /\ n < Len(ngrams) /\ next_ngram' = n + 1
      /\ y.terms \notin {<<>>, ngrams[n + 1].terms} /\ last_ngram' = z
      /\ IF z.inc = 0 THEN Kpe!GetCandidate_(q) /\ for_process' = <<>>
                      ELSE for_process' = q /\ candidates' = candidates
  BY DEF Kpe!ReadOther, One
<1>2. ngrams \in Seq(Ngrams) /\ n \in Nat /\ Ascending(ngrams) /\ \A c \in candidates : Covered(c)
  BY <1>1 DEF CoverInv, PhraseInv
<1>3. n # 0
  <2> SUFFICES ASSUME n = 0 PROVE FALSE
    OBVIOUS
  <2>1. y = Kpe!NoNgram
    BY DEF CoverInv
  <2> QED BY <1>1, <2>1 DEF Kpe!NoNgram
<1>4. Gather(for_process, y, n)
  BY <1>1, <1>2, <1>3 DEF CoverInv
<1>5. Another(y, n)
  <2>1. n \in 1 .. Len(ngrams) /\ y.terms = ngrams[n].terms
    BY <1>4 DEF Gather
  <2> QED BY <1>1, <2>1 DEF Another
<1>6. /\ z \in Groups /\ z.terms = ngrams[n + 1].terms
      /\ \A d \in Nat : Tally(z.docs, At(n + 1, z.terms, d), d)
      /\ \A x \in Nat : Shares(y.terms, z.terms, x) <=> x <= z.inc
      /\ z.inc = 0 => \A i \in 1 .. n : ~Shares(ngrams[i].terms, z.terms, 1)
      /\ z.inc # 0 => Gather(q, z, n + 1)
  BY <1>2, <1>4, <1>5, GatherOn
<1> HIDE DEF q, z
<1>7. CASE z.inc = 0
  <2>1. Kpe!GetCandidate_(q) /\ for_process' = <<>>
    BY <1>1, <1>7
  <2>2. ~Shares(y.terms, ngrams[n + 1].terms, 1)
    BY <1>6, <1>7
  <2>3. Whole(q)
    BY <1>2, <1>4, <1>5, <2>2, WholeAtOther DEF q
  <2>4. \A c \in candidates' : Covered(c)
    BY <1>2, <2>1, <2>3, CandidatesCovered
  <2>5. Gather(<<>>, z, n + 1)
    BY <1>1, <1>2, <1>6, <1>7, GatherNew
  <2> QED BY <1>1, <2>1, <2>4, <2>5, CoverReads
<1>8. CASE z.inc # 0
  <2>1. for_process' = q /\ candidates' = candidates
    BY <1>1, <1>8
  <2> QED BY <1>1, <1>2, <1>6, <1>8, <2>1, CoverReads
<1> QED BY <1>7, <1>8

(* The end of the file: the n-gram read last is not processed.             *)
LEMMA CoverEnds == CoverInv /\ PhraseInv' /\ Kpe!EndCounting => CoverInv'
<1> SUFFICES ASSUME CoverInv, PhraseInv', Kpe!EndCounting PROVE CoverInv'
  OBVIOUS
<1>1. /\ kpe_stage = "counting" /\ kpe_stage' = "merging" /\ ngrams' = ngrams /\ next_ngram = Len(ngrams)
      /\ next_ngram' = next_ngram /\ last_ngram' = last_ngram /\ for_process' = for_process
      /\ Kpe!GetCandidate_(for_process)
  BY DEF Kpe!EndCounting
<1>2. ngrams \in Seq(Ngrams) /\ Ascending(ngrams) /\ (\A c \in candidates : Covered(c)) /\ Len(ngrams) > 0
  BY <1>1 DEF CoverInv, PhraseInv
<1>3. Gather(for_process, last_ngram, Len(ngrams))
  BY <1>1, <1>2 DEF CoverInv
<1>4. Whole(for_process)
  BY <1>2, <1>3, WholeAtEnd
<1>5. \A c \in candidates' : Covered(c)
  BY <1>1, <1>2, <1>4, CandidatesCovered
<1>6. \A c \in candidates' : Covered(c)'
  BY <1>1, <1>5, CoveredSame
<1>7. next_ngram' # 0 /\ Ascending(ngrams')
  BY <1>1, <1>2
<1> QED BY <1>1, <1>6, <1>7 DEF CoverInv

(* Nothing of the file, and no candidate, changes any more.                *)
LEMMA CoverStays ==
  ASSUME CoverInv, PhraseInv', UNCHANGED <<ngrams, candidates, next_ngram, last_ngram, for_process>>,
         kpe_stage' = kpe_stage \/ (kpe_stage # "inserting" /\ kpe_stage' \in {"judging", "done"})
  PROVE  CoverInv'
<1>1. \A c : Covered(c)' <=> Covered(c)
  BY CoveredSame
<1>2. Gather(for_process, last_ngram, next_ngram)' <=> Gather(for_process, last_ngram, next_ngram)
  BY SameFile
<1>3. Ascending(ngrams') <=> Ascending(ngrams)
  OBVIOUS
<1>4. kpe_stage' = "inserting" => kpe_stage = "inserting"
  OBVIOUS
<1>5. kpe_stage' # "inserting" => kpe_stage # "inserting"
  OBVIOUS
<1>6. kpe_stage' = "counting" => kpe_stage = "counting"
  OBVIOUS
<1> QED BY <1>1, <1>2, <1>3, <1>4, <1>5, <1>6 DEF CoverInv

(* Each step of the counting keeps it.                                     *)
LEMMA CoverKept == CoverInv /\ [Kpe!Next]_(Kpe!vars) => CoverInv'
<1> SUFFICES ASSUME CoverInv, [Kpe!Next]_(Kpe!vars) PROVE CoverInv'
  OBVIOUS
<1>1. PhraseInv' /\ PhraseInv
  BY PhraseKept DEF CoverInv
<1>2. CASE Kpe!Insert
  <2>1. /\ kpe_stage = "inserting" /\ kpe_stage' = kpe_stage /\ next_ngram' = next_ngram
        /\ last_ngram' = last_ngram /\ for_process' = for_process
    BY <1>2 DEF Kpe!Insert
  <2> QED BY <1>1, <2>1 DEF CoverInv
<1>3. CASE Kpe!Close
  <2>1. /\ kpe_stage = "inserting" /\ kpe_stage' \in {"counting", "done"} /\ next_ngram' = next_ngram
        /\ last_ngram' = last_ngram /\ for_process' = for_process /\ candidates' = candidates
        /\ kpe_stage' = "counting" => ngrams # <<>>
    BY <1>3 DEF Kpe!Close
  <2>2. ngrams \in Seq(Ngrams) /\ candidates = {} /\ next_ngram = 0
    BY <1>1, <2>1 DEF PhraseInv, CoverInv
  <2>3. Len(ngrams') = Len(ngrams) /\ Ascending(ngrams')
    BY <1>3, <2>2, ClosedFile
  <2>4. kpe_stage' = "counting" => next_ngram' <= Len(ngrams') /\ Len(ngrams') > 0
    <3>1. ngrams # <<>> => Len(ngrams) > 0
      BY <2>2
    <3> QED BY <2>1, <2>2, <2>3, <3>1
  <2> QED BY <1>1, <2>1, <2>2, <2>3, <2>4 DEF CoverInv
<1>4. CASE Kpe!ReadSame
  BY <1>1, <1>4, CoverReadSame
<1>5. CASE Kpe!ReadOther
  BY <1>1, <1>5, CoverReadOther
<1>6. CASE Kpe!EndCounting
  BY <1>1, <1>6, CoverEnds
<1>7. CASE Kpe!CollectCounts
  <2>1. /\ UNCHANGED <<ngrams, candidates, next_ngram, last_ngram, for_process>>
        /\ kpe_stage = "merging" /\ kpe_stage' = "judging"
    BY <1>7 DEF Kpe!CollectCounts
  <2> QED BY <1>1, <2>1, CoverStays
<1>8. CASE Kpe!Judge
  <2>1. /\ UNCHANGED <<ngrams, candidates, next_ngram, last_ngram, for_process>>
        /\ kpe_stage = "judging" /\ kpe_stage' = "done"
    BY <1>8 DEF Kpe!Judge
  <2> QED BY <1>1, <2>1, CoverStays
<1>9. CASE UNCHANGED Kpe!vars
  <2>1. UNCHANGED <<ngrams, candidates, next_ngram, last_ngram, for_process, kpe_stage>>
    BY <1>9 DEF Kpe!vars
  <2> QED BY <1>1, <2>1, CoverStays
<1> QED BY <1>2, <1>3, <1>4, <1>5, <1>6, <1>7, <1>8, <1>9 DEF Kpe!Next

(* In each document a candidate is counted at least as often as it occurs, *)
(* and just as often when what n-grams share are n-grams, for any          *)
(* documents and any numbers: the stack of GetCandidate_ adds up, for each *)
(* n-gram, its own documents and those of the n-grams that begin with it,  *)
(* and takes nothing twice.                                                *)
THEOREM CandidatesAreCovered == PartsSpec => []CountsCoverOccurrences
<1>1. CoverInv => CountsCoverOccurrences
  <2> SUFFICES ASSUME CoverInv, kpe_stage \in {"merging", "judging", "done"},
                      NEW c \in candidates, NEW d \in 1 .. doc_count_
               PROVE  /\ Kpe!Copies(c.docs, d) >= Kpe!Occurrences(c.terms, d)
                      /\ Kpe!PrefixClosed => Kpe!Copies(c.docs, d) = Kpe!Occurrences(c.terms, d)
    BY DEF CountsCoverOccurrences, Kpe!CountsCoverOccurrences
  <2>1. d \in Nat
    BY DEF CoverInv, PhraseInv
  <2>2. Covered(c)
    BY DEF CoverInv
  <2> QED BY <2>1, <2>2 DEF Covered
<1> QED BY <1>1, CoverStarts, CoverKept, PartsRunKpe, PTL DEF Kpe!Spec
=============================================================================
