--------------------------- MODULE PatternProofs ---------------------------
(***************************************************************************)
(* Item sets.  The maximal sets of a source are found, for any sources of  *)
(* sets, any limits and any searches that failed before, and nothing else  *)
(* if their items ascend (MaximalSetsAreFound).  The tree of transactions  *)
(* has the supports of all sets of frequent items (TreeKeepsSupport), and  *)
(* the trees it is projected on are well formed (TreesAreSound), for any   *)
(* transactions.                                                           *)
(***************************************************************************)
EXTENDS Parts, FoldLemmas

-----------------------------------------------------------------------------
(* Sequences of numbers in ascending order, and their binary search.       *)
Ascending(s) == \A i, j \in 1 .. Len(s) : i < j => s[i] < s[j]

Halving(it, s, v, n) ==
  [from \in 1 .. Len(s) + 1 - n |->
     IF n = 0 THEN from
     ELSE IF s[from + (n \div 2)] < v THEN it[n - (n \div 2) - 1][from + (n \div 2) + 1]
     ELSE it[n \div 2][from]]

IsSearch(it, s, v, m) == it = [n \in 0 .. m |-> Halving(it, s, v, n)]

LEMMA Halves ==
  ASSUME NEW n \in Nat \ {0}
  PROVE  n \div 2 \in 0 .. n - 1 /\ n - (n \div 2) - 1 \in 0 .. n - 1
OBVIOUS

(* The search is defined ...                                               *)
LEMMA SearchExists ==
  ASSUME NEW s, NEW v, NEW m \in Nat
  PROVE  \E it : IsSearch(it, s, v, m)
<1> DEFINE T == {kk \in 0 .. m : \E it : IsSearch(it, s, v, kk)}
<1>1. 0 \in T
  <2> DEFINE it == [n \in 0 .. 0 |-> [from \in 1 .. Len(s) + 1 |-> from]]
  <2>1. Halving(it, s, v, 0) = [from \in 1 .. Len(s) + 1 - 0 |-> from]
    BY DEF Halving
  <2>2. IsSearch(it, s, v, 0)
    BY <2>1 DEF IsSearch
  <2> QED BY <2>2
<1>2. ASSUME NEW kk \in 1 .. m, kk - 1 \in T PROVE kk \in T
  <2>1. PICK it : IsSearch(it, s, v, kk - 1)
    BY <1>2
  <2> DEFINE more == [n \in 0 .. kk |-> IF n = kk THEN Halving(it, s, v, kk) ELSE it[n]]
  <2>2. ASSUME NEW n \in 0 .. kk PROVE Halving(more, s, v, n) = Halving(it, s, v, n)
    <3>1. CASE n = 0
      BY <3>1 DEF Halving
    <3>2. CASE n # 0
      <4>1. n \div 2 \in 0 .. kk - 1 /\ n - (n \div 2) - 1 \in 0 .. kk - 1
        BY <3>2, Halves
      <4>2. more[n \div 2] = it[n \div 2] /\ more[n - (n \div 2) - 1] = it[n - (n \div 2) - 1]
        BY <4>1
      <4> HIDE DEF more
      <4> QED BY <4>2 DEF Halving
    <3> QED BY <3>1, <3>2
  <2>3. ASSUME NEW n \in 0 .. kk PROVE more[n] = Halving(it, s, v, n)
    <3>1. CASE n = kk
      BY <3>1
    <3>2. CASE n # kk
      <4>1. n \in 0 .. kk - 1
        BY <3>2
      <4> QED BY <2>1, <3>2, <4>1 DEF IsSearch
    <3> QED BY <3>1, <3>2
  <2>4. more = [n \in 0 .. kk |-> Halving(more, s, v, n)]
    <3>1. \A n \in 0 .. kk : more[n] = Halving(more, s, v, n)
      BY <2>2, <2>3
    <3>2. DOMAIN more = 0 .. kk /\ more = [n \in 0 .. kk |-> more[n]]
      OBVIOUS
    <3> HIDE DEF more
    <3> QED BY <3>1, <3>2
  <2>5. IsSearch(more, s, v, kk)
    BY <2>4 DEF IsSearch
  <2> QED BY <2>5
<1>3. 0 .. m \subseteq T
  <2> HIDE DEF T
  <2> QED BY <1>1, <1>2, UpToInduction
<1> QED BY <1>3

(* ... and ends at an item that is not less than v, or at the end; it is   *)
(* the first such item if the items ascend.                                *)
Parted(s, v, from, n, at) ==
  /\ \A i \in from .. at - 1 : s[i] < v
  /\ \A i \in at .. from + n - 1 : s[i] >= v

Found(s, v, from, n, at) ==
  /\ at \in from .. from + n
  /\ at # from + n => s[at] >= v
  /\ Ascending(s) => Parted(s, v, from, n, at)

LEMMA HalfFinds ==
  ASSUME NEW s \in Seq(Int), NEW v \in Int,
         NEW n \in 1 .. Len(s), NEW from \in 1 .. Len(s) + 1 - n, NEW h \in 0 .. n - 1, NEW at,
         s[from + h] < v => Found(s, v, from + h + 1, n - h - 1, at),
         ~(s[from + h] < v) => Found(s, v, from, h, at)
  PROVE  Found(s, v, from, n, at)
<1> DEFINE l == Len(s)
           mid == from + h
<1>0. l \in Nat
  OBVIOUS
<1> HIDE DEF l
<1>1. mid \in 1 .. l /\ mid \in Int /\ h \in Nat /\ from \in Nat /\ n \in Nat /\ from + n <= l + 1
  BY <1>0 DEF l
<1>2. \A i \in 1 .. l : s[i] \in Int
  BY DEF l
<1>3. mid < from + n /\ from <= mid
  BY <1>0
<1>4. CASE s[mid] < v
  <2>1. (mid + 1) + (n - h - 1) = from + n
    BY <1>1
  <2>2. Found(s, v, mid + 1, n - h - 1, at)
    BY <1>4
  <2> HIDE DEF mid
  <2>3. at \in mid + 1 .. from + n /\ (at # from + n => s[at] >= v)
    BY <2>1, <2>2 DEF Found
  <2>4. at \in from .. from + n
    BY <1>1, <1>3, <2>3
  <2>5. ASSUME Ascending(s) PROVE Parted(s, v, from, n, at)
    <3>1. \A i, j \in 1 .. l : i < j => s[i] < s[j]
      BY <2>5 DEF Ascending, l
    <3>2. /\ \A i \in mid + 1 .. at - 1 : s[i] < v
          /\ \A i \in at .. from + n - 1 : s[i] >= v
      <4> DEFINE last == (mid + 1) + (n - h - 1) - 1
      <4>1. (\A i \in mid + 1 .. at - 1 : s[i] < v) /\ \A i \in at .. last : s[i] >= v
        BY <2>2, <2>5 DEF Found, Parted
      <4>2. last = from + n - 1
        BY <1>1, <2>1
      <4> HIDE DEF last
      <4> QED BY <4>1, <4>2
    <3>3. \A i \in from .. at - 1 : s[i] < v
      <4> SUFFICES ASSUME NEW i \in from .. at - 1 PROVE s[i] < v
        OBVIOUS
      <4>1. CASE i > mid
        <5>1. i \in mid + 1 .. at - 1
          BY <1>1, <4>1
        <5> QED BY <3>2, <5>1
      <4>2. CASE i = mid
        BY <1>4, <4>2
      <4>3. CASE i < mid
        <5>1. i \in 1 .. l
          BY <1>0, <1>1, <4>3
        <5>2. s[i] < s[mid] /\ s[i] \in Int /\ s[mid] \in Int
          BY <1>1, <1>2, <3>1, <4>3, <5>1
        <5> QED BY <1>4, <5>2
      <4> QED BY <1>1, <4>1, <4>2, <4>3
    <3> QED BY <3>2, <3>3 DEF Parted
  <2> QED BY <2>3, <2>4, <2>5 DEF Found
<1>5. CASE ~(s[mid] < v)
  <2>1. Found(s, v, from, h, at)
    BY <1>5
  <2>2. s[mid] \in Int /\ s[mid] >= v
    <3>1. s[mid] \in Int
      BY <1>1, <1>2
    <3> QED BY <1>5, <3>1
  <2>3. at \in from .. mid /\ (at # mid => s[at] >= v)
    BY <2>1 DEF Found
  <2>4. Ascending(s) => /\ \A i \in from .. at - 1 : s[i] < v
                        /\ \A i \in at .. mid - 1 : s[i] >= v
    BY <2>1 DEF Found, Parted
  <2> HIDE DEF mid
  <2>5. at \in from .. from + n /\ s[at] >= v
    BY <1>1, <1>3, <2>2, <2>3
  <2>6. ASSUME Ascending(s) PROVE Parted(s, v, from, n, at)
    <3>1. \A i, j \in 1 .. l : i < j => s[i] < s[j]
      BY <2>6 DEF Ascending, l
    <3>2. \A i \in at .. from + n - 1 : s[i] >= v
      <4> SUFFICES ASSUME NEW i \in at .. from + n - 1 PROVE s[i] >= v
        OBVIOUS
      <4>0. i \in 1 .. l
        BY <1>0, <1>1, <2>3
      <4>1. CASE i < mid
        <5>1. i \in at .. mid - 1
          BY <1>1, <4>1
        <5> QED BY <2>4, <2>6, <5>1
      <4>2. CASE i = mid
        BY <2>2, <4>2
      <4>3. CASE i > mid
        <5>1. s[mid] < s[i] /\ s[i] \in Int
          BY <1>1, <1>2, <3>1, <4>0, <4>3
        <5> QED BY <2>2, <5>1
      <4> QED BY <1>1, <4>1, <4>2, <4>3
    <3> QED BY <2>4, <2>6, <3>2 DEF Parted
  <2> QED BY <2>5, <2>6 DEF Found
<1> QED BY <1>4, <1>5

(* So does the search of any stretch of a sequence.                        *)
LEMMA SearchFinds ==
  ASSUME NEW s \in Seq(Int), NEW v \in Int, NEW it, IsSearch(it, s, v, Len(s)),
         NEW n \in 0 .. Len(s), NEW from \in 1 .. Len(s) + 1 - n
  PROVE  Found(s, v, from, n, it[n][from])
<1> DEFINE l == Len(s)
           Fails(kk, x) == x \in 1 .. l + 1 - kk /\ ~Found(s, v, x, kk, it[kk][x])
           Bad == {kk \in 0 .. l : \E x : Fails(kk, x)}
<1>1. SUFFICES ASSUME Bad # {} PROVE FALSE
  OBVIOUS
<1>2. PICK kk \in Bad : \A h \in Bad : kk <= h
  <2>1. Bad \in SUBSET Nat
    OBVIOUS
  <2> HIDE DEF Bad
  <2> QED BY <1>1, <2>1, MinNat
<1>3. kk \in 0 .. l /\ \E x : Fails(kk, x)
  BY <1>2
<1>4. PICK x : Fails(kk, x)
  BY <1>3
<1>5. x \in 1 .. l + 1 - kk /\ ~Found(s, v, x, kk, it[kk][x])
  BY <1>4
<1>6. it[kk] = Halving(it, s, v, kk)
  BY <1>3 DEF IsSearch
<1>7. \A h \in 0 .. kk - 1 : \A y : ~Fails(h, y)
  <2> SUFFICES ASSUME NEW h \in 0 .. kk - 1, NEW y, Fails(h, y) PROVE FALSE
    OBVIOUS
  <2>1. h \in 0 .. l /\ ~(kk <= h)
    BY <1>3
  <2>2. h \in Bad
    BY <2>1
  <2> HIDE DEF Bad
  <2> QED BY <1>2, <2>1, <2>2
<1> HIDE DEF Bad
<1>8. l \in Nat
  OBVIOUS
<1>9. CASE kk = 0
  <2>1. it[kk][x] = x
    BY <1>5, <1>6, <1>9 DEF Halving
  <2> QED BY <1>5, <1>8, <1>9, <2>1 DEF Found, Parted
<1>10. CASE kk # 0
  <2> DEFINE h == kk \div 2
  <2>0. kk \in Nat \ {0} /\ kk \in 1 .. l
    BY <1>3, <1>10
  <2>1. h \in 0 .. kk - 1 /\ kk - h - 1 \in 0 .. kk - 1
    BY <2>0, Halves
  <2>2. it[kk][x] = IF s[x + h] < v THEN it[kk - h - 1][x + h + 1] ELSE it[h][x]
    BY <1>5, <1>6, <1>10 DEF Halving
  <2> HIDE DEF h
  <2>3. x + h + 1 \in 1 .. l + 1 - (kk - h - 1) /\ x \in 1 .. l + 1 - h
    <3>1. x \in Nat /\ 1 <= x /\ x + kk <= l + 1 /\ h \in Nat /\ h < kk /\ kk \in Nat
      BY <1>5, <1>8, <2>0, <2>1
    <3>2. 1 <= x + h + 1 /\ x + h + 1 <= l + 1 - (kk - h - 1) /\ x <= l + 1 - h
      BY <1>8, <3>1
    <3> HIDE DEF l
    <3> QED BY <1>8, <3>1, <3>2
  <2>4. Found(s, v, x + h + 1, kk - h - 1, it[kk - h - 1][x + h + 1])
    BY <1>7, <2>1, <2>3
  <2>5. Found(s, v, x, h, it[h][x])
    BY <1>7, <2>1, <2>3
  <2>6. s[x + h] < v => Found(s, v, x + h + 1, kk - h - 1, it[kk][x])
    BY <2>2, <2>4
  <2>7. ~(s[x + h] < v) => Found(s, v, x, h, it[kk][x])
    BY <2>2, <2>5
  <2>8. Found(s, v, x, kk, it[kk][x])
    BY <1>5, <2>0, <2>1, <2>6, <2>7, HalfFinds
  <2> QED BY <1>5, <2>8
<1> QED BY <1>9, <1>10

LEMMA LowerBoundIs ==
  ASSUME NEW s \in Seq(Int), NEW v \in Int, NEW first \in 1 .. Len(s) + 1
  PROVE  LET to == Sets!LowerBound(s, first, v)
         IN  /\ to \in first .. Len(s) + 1
             /\ to <= Len(s) => s[to] >= v
             /\ Ascending(s) => /\ \A i \in first .. to - 1 : s[i] < v
                                /\ \A i \in to .. Len(s) : s[i] >= v
<1> DEFINE it == CHOOSE x : IsSearch(x, s, v, Len(s))
           n == Len(s) - first + 1
<1>1. IsSearch(it, s, v, Len(s))
  BY SearchExists
<1>2. Sets!LowerBound(s, first, v) = it[n][first]
  BY DEF Sets!LowerBound, IsSearch, Halving
<1>3. n \in 0 .. Len(s) /\ first \in 1 .. Len(s) + 1 - n /\ first + n = Len(s) + 1
  OBVIOUS
<1> HIDE DEF it, n
<1>4. Found(s, v, first, n, it[n][first])
  BY <1>1, <1>3, SearchFinds
<1>5. first + n - 1 = Len(s) /\ first + n = Len(s) + 1 /\ Len(s) \in Nat
  BY <1>3
<1> QED BY <1>2, <1>3, <1>4, <1>5 DEF Found, Parted

-----------------------------------------------------------------------------
(* One item after the other is looked for; at is where the search for the  *)
(* next one begins, or 0.                                                  *)
Look(b, at, v) ==
  IF at = 0 THEN 0
  ELSE IF Sets!LowerBound(b, at, v) > Len(b) THEN 0
  ELSE IF b[Sets!LowerBound(b, at, v)] > v THEN 0
  ELSE Sets!LowerBound(b, at, v) + 1

Has(b, v) == \E j \in 1 .. Len(b) : b[j] = v

(* The first n items of a were looked for in b.                            *)
Looked(a, b, n, at) ==
  /\ at \in 0 .. Len(b) + 1
  /\ at # 0 => \A i \in 1 .. n : Has(b, a[i])
  /\ Ascending(a) /\ Ascending(b) =>
       /\ at = 0 => \E i \in 1 .. n : ~Has(b, a[i])
       /\ at # 0 => \A j \in 1 .. at - 1 : n # 0 /\ b[j] <= a[n]

LEMMA LookKeeps ==
  ASSUME NEW a \in Seq(Int), NEW b \in Seq(Int), NEW n \in 1 .. Len(a), NEW at, Looked(a, b, n - 1, at)
  PROVE  Looked(a, b, n, Look(b, at, a[n]))
<1> DEFINE la == Len(a)
           lb == Len(b)
           v == a[n]
           to == Sets!LowerBound(b, at, v)
           new == Look(b, at, v)
<1>0. la \in Nat /\ lb \in Nat /\ v \in Int /\ n \in 1 .. la /\ n \in Nat
  OBVIOUS
<1>1. \A j \in 1 .. lb : b[j] \in Int
  OBVIOUS
<1>2. ASSUME Ascending(b) PROVE \A i, j \in 1 .. lb : i < j => b[i] < b[j]
  BY <1>2 DEF Ascending
<1>3. \A i \in 1 .. n : i = n \/ i \in 1 .. n - 1
  BY <1>0
<1>4. at \in 0 .. lb + 1
  BY DEF Looked
<1>5. CASE at = 0
  <2>1. new = 0
    BY <1>5 DEF Look
  <2>2. ASSUME Ascending(a), Ascending(b) PROVE \E i \in 1 .. n : ~Has(b, a[i])
    <3>1. PICK i \in 1 .. n - 1 : ~Has(b, a[i])
      BY <1>5, <2>2 DEF Looked
    <3>2. i \in 1 .. n
      BY <1>0
    <3> QED BY <3>1, <3>2
  <2>3. Looked(a, b, n, 0)
    BY <1>0, <2>2 DEF Looked
  <2> QED BY <2>1, <2>3
<1>6. CASE at # 0
  <2>1. \A i \in 1 .. n - 1 : Has(b, a[i])
    BY <1>6 DEF Looked
  <2>2. at \in 1 .. lb + 1
    BY <1>4, <1>6, <1>0
  <2>3. to \in at .. lb + 1 /\ (to <= lb => b[to] >= v)
    BY <1>0, <2>2, LowerBoundIs
  <2>4. to \in Int /\ to >= 1 /\ to <= lb + 1
    BY <1>0, <2>2, <2>3
  <2>5. new = IF to > lb THEN 0 ELSE IF b[to] > v THEN 0 ELSE to + 1
    BY <1>6 DEF Look
  <2>6. ASSUME Ascending(a), Ascending(b) PROVE \A j \in 1 .. to - 1 : b[j] < v
    <3> SUFFICES ASSUME NEW j \in 1 .. to - 1 PROVE b[j] < v
      OBVIOUS
    <3>1. CASE j >= at
      <4>1. j \in at .. to - 1
        BY <2>2, <2>4, <3>1
      <4> QED BY <1>0, <2>2, <2>6, <4>1, LowerBoundIs
    <3>2. CASE j < at
      <4>1. j \in 1 .. at - 1 /\ j \in 1 .. lb
        BY <1>0, <2>2, <2>4, <3>2
      <4>2. n - 1 # 0 /\ b[j] <= a[n - 1] /\ b[j] \in Int
        BY <1>1, <1>6, <2>6, <4>1 DEF Looked
      <4>3. n - 1 \in 1 .. la /\ n - 1 < n
        BY <1>0, <4>2
      <4>4. a[n - 1] \in Int
        BY <4>3
      <4>5. a[n - 1] < a[n]
        <5>1. n \in 1 .. Len(a) /\ n - 1 \in 1 .. Len(a)
          BY <4>3
        <5> QED BY <2>6, <4>3, <5>1 DEF Ascending
      <4> QED BY <1>0, <4>2, <4>4, <4>5
    <3> QED BY <2>2, <2>4, <3>1, <3>2
  <2>7. ASSUME Ascending(b) PROVE \A j \in to .. lb : b[j] >= v
    BY <1>0, <2>2, <2>7, LowerBoundIs
  <2> HIDE DEF to, new, lb, la, v
  <2>8. CASE new = 0
    <3>1. ASSUME Ascending(a), Ascending(b), NEW j \in 1 .. lb PROVE b[j] # v
      <4>1. b[j] \in Int /\ j \in Int
        BY <1>1
      <4>2. CASE j < to
        <5>1. j \in 1 .. to - 1
          BY <2>4, <4>1, <4>2
        <5> QED BY <2>6, <1>0, <3>1, <4>1, <5>1
      <4>3. CASE j >= to
        <5>1. to \in 1 .. lb /\ to <= lb
          BY <1>0, <2>4, <4>3
        <5>2. b[to] > v /\ b[to] \in Int
          BY <1>0, <1>1, <2>4, <2>5, <2>8, <5>1
        <5>3. b[to] <= b[j]
          BY <1>2, <3>1, <4>1, <4>3, <5>1, <5>2
        <5> QED BY <1>0, <4>1, <5>2, <5>3
      <4> QED BY <2>4, <4>1, <4>2, <4>3
    <3>2. ASSUME Ascending(a), Ascending(b) PROVE ~Has(b, a[n]) /\ n \in 1 .. n
      BY <1>0, <3>1, <3>2 DEF Has, lb, v
    <3>3. Looked(a, b, n, 0)
      BY <1>0, <3>2 DEF Looked, lb
    <3> QED BY <2>8, <3>3 DEF new, v
  <2>9. CASE new # 0
    <3>1. to \in 1 .. lb /\ b[to] \in Int /\ ~(b[to] > v) /\ new = to + 1 /\ b[to] >= v
      <4>1. ~(to > lb) /\ ~(b[to] > v) /\ new = to + 1
        BY <2>5, <2>9
      <4>2. to \in 1 .. lb /\ to <= lb
        BY <1>0, <2>4, <4>1
      <4> QED BY <1>1, <2>3, <4>1, <4>2
    <3>2. b[to] = v
      BY <1>0, <3>1
    <3>3. Has(b, v)
      BY <3>1, <3>2 DEF Has, lb
    <3>4. \A i \in 1 .. n : Has(b, a[i])
      BY <1>3, <2>1, <3>3 DEF v
    <3>5. ASSUME Ascending(a), Ascending(b) PROVE \A j \in 1 .. new - 1 : n # 0 /\ b[j] <= a[n]
      <4> SUFFICES ASSUME NEW j \in 1 .. new - 1 PROVE b[j] <= v
        BY <1>0 DEF v
      <4>1. j = to \/ j \in 1 .. to - 1
        BY <2>4, <3>1
      <4>2. j \in 1 .. lb
        BY <1>0, <2>4, <3>1
      <4> QED BY <1>0, <1>1, <2>6, <3>2, <3>5, <4>1, <4>2
    <3>6. new \in 0 .. lb + 1
      BY <1>0, <3>1
    <3>7. Looked(a, b, n, new)
      BY <2>9, <3>4, <3>5, <3>6 DEF Looked, lb
    <3> QED BY <3>7 DEF new, v
  <2> QED BY <2>8, <2>9
<1> QED BY <1>5, <1>6

LEMMA SubsumedIs ==
  ASSUME NEW a \in Seq(Int), NEW b \in Seq(Int)
  PROVE  /\ Sets!IsSubsumedBy(a, b) => Len(a) < Len(b) /\ \A i \in 1 .. Len(a) : Has(b, a[i])
         /\ Ascending(a) /\ Ascending(b) /\ Len(a) < Len(b) /\ (\A i \in 1 .. Len(a) : Has(b, a[i]))
              => Sets!IsSubsumedBy(a, b)
<1> DEFINE l == Len(a)
           D == 1 .. l
           V == 0 .. Len(b) + 1
           z == 1
           c == LastOf(l)
           New(at, v) == IF at \in V THEN Look(b, at, v) ELSE 0
           step == [n \in D |-> [at \in V |-> Look(b, at, a[n])]]
           Satisfies(it) == it = [s \in SUBSET D |->
             IF s = {} THEN 1 ELSE Look(b, it[s \ {Sets!Max(s)}], a[Sets!Max(s)])]
           fold == CHOOSE it : Satisfies(it)
<1>1. Sets!IsSubsumedBy(a, b) <=> Len(a) < Len(b) /\ fold[D] # 0
  <2>1. DOMAIN a = D
    OBVIOUS
  <2> HIDE DEF D
  <2> QED BY <2>1 DEF Sets!IsSubsumedBy, Sets!FoldLeft, Sets!MapThenFoldSet, Look
<1>0. l \in Nat /\ \A n \in D : a[n] \in Int
  OBVIOUS
<1>2. \A n \in D, at \in V : Look(b, at, a[n]) \in V
  <2> SUFFICES ASSUME NEW n \in D, NEW at \in V PROVE Look(b, at, a[n]) \in V
    OBVIOUS
  <2>1. CASE at = 0
    BY <2>1 DEF Look
  <2>2. CASE at # 0
    <3>1. at \in 1 .. Len(b) + 1 /\ Len(b) \in Nat
      BY <2>2
    <3>2. Sets!LowerBound(b, at, a[n]) \in at .. Len(b) + 1
      BY <1>0, <3>1, LowerBoundIs
    <3> DEFINE to == Sets!LowerBound(b, at, a[n])
    <3>3. to \in Int /\ 1 <= to
      BY <3>1, <3>2
    <3>4. Look(b, at, a[n]) = 0 \/ (Look(b, at, a[n]) = to + 1 /\ ~(to > Len(b)))
      BY DEF Look
    <3> HIDE DEF to
    <3> QED BY <3>1, <3>3, <3>4
  <2> QED BY <2>1, <2>2
<1>3. step \in [D -> [V -> V]] /\ z \in V /\ \A n \in D, at \in V : step[n][at] = Look(b, at, a[n])
  BY <1>2
<1>4. /\ \E it \in [SUBSET D -> V] : IsFold(it, D, z, step, c)
      /\ \A it : IsFold(it, D, z, step, c) =>
           /\ it[{}] = z /\ \A n \in 0 .. l : it[1 .. n] \in V
           /\ \A n \in 1 .. l : it[1 .. n] = step[n][it[1 .. n - 1]]
  <2>1. FoldsFromLeft(l, V, z, step)
    <3> HIDE DEF V, z, step, l
    <3> QED BY <1>0, <1>3, FoldFromLeft
  <2> HIDE DEF V, z, step, l
  <2> QED BY <2>1 DEF FoldsFromLeft, FromLeft
<1>5. \A s \in SUBSET D : s # {} => c[s] = Sets!Max(s) /\ c[s] \in s
  <2>1. IsChoice(c, D)
    BY <1>0, LastIsChoice
  <2>2. \A s \in SUBSET D : c[s] = Sets!Max(s)
    BY DEF LastOf, Sets!Max
  <2> HIDE DEF c, D
  <2> QED BY <2>1, <2>2 DEF IsChoice
<1> HIDE DEF c, step, V, z
<1>6. \E it : Satisfies(it)
  <2>1. PICK it \in [SUBSET D -> V] : IsFold(it, D, z, step, c)
    BY <1>4
  <2>2. ASSUME NEW s \in SUBSET D, s # {}
        PROVE  it[s] = Look(b, it[s \ {Sets!Max(s)}], a[Sets!Max(s)])
    <3> DEFINE x == Sets!Max(s)
    <3>1. x = c[s] /\ x \in D /\ it[s \ {x}] \in V
      BY <1>5, <2>1, <2>2
    <3>2. it[s] = step[x][it[s \ {x}]]
      BY <2>1, <2>2, <3>1 DEF IsFold
    <3> HIDE DEF x, D
    <3> QED BY <1>3, <3>1, <3>2 DEF x
  <2>3. it[{}] = 1
    BY <2>1 DEF IsFold, z
  <2>4. it = [s \in SUBSET D |-> it[s]]
    BY <2>1
  <2> HIDE DEF D
  <2>5. Satisfies(it)
    BY <2>2, <2>3, <2>4
  <2> QED BY <2>5
<1>7. Satisfies(fold)
  <2> HIDE DEF Satisfies
  <2> QED BY <1>6
<1>8. fold[{}] = 1 /\ \A n \in 1 .. l : fold[1 .. n] = Look(b, fold[1 .. n - 1], a[n])
  <2> HIDE DEF fold
  <2>1. fold[{}] = 1
    BY <1>7
  <2>2. ASSUME NEW n \in 1 .. l PROVE fold[1 .. n] = Look(b, fold[1 .. n - 1], a[n])
    <3>1. (1 .. n) \in SUBSET D /\ n \in 1 .. n /\ (1 .. n) \ {n} = 1 .. n - 1
      OBVIOUS
    <3>2. Sets!Max(1 .. n) = n
      BY <1>0, LastIsChoice DEF LastOf, Sets!Max
    <3> DEFINE s == 1 .. n
    <3>3. s \in SUBSET D /\ s # {} /\ Sets!Max(s) = n /\ s \ {n} = 1 .. n - 1
      BY <3>1, <3>2
    <3>4. fold[s] = Look(b, fold[s \ {Sets!Max(s)}], a[Sets!Max(s)])
      <4> HIDE DEF s, D
      <4> QED BY <1>7, <3>3
    <3> HIDE DEF s
    <3>5. fold[s] = Look(b, fold[1 .. n - 1], a[n])
      BY <3>3, <3>4, Zenon
    <3> QED BY <3>5 DEF s
  <2> QED BY <2>1, <2>2
<1> DEFINE T == {n \in 0 .. l : Looked(a, b, n, fold[1 .. n])}
<1>9. 0 \in T
  <2>1. 1 .. 0 = {}
    OBVIOUS
  <2>2. fold[1 .. 0] = 1
    <3> HIDE DEF fold
    <3> QED BY <1>8, <2>1, Zenon
  <2>3. Looked(a, b, 0, 1)
    BY DEF Looked
  <2> HIDE DEF fold
  <2> QED BY <1>0, <2>2, <2>3
<1>10. ASSUME NEW n \in 1 .. l, n - 1 \in T PROVE n \in T
  <2> HIDE DEF fold
  <2>1. Looked(a, b, n - 1, fold[1 .. n - 1])
    BY <1>10
  <2>2. Looked(a, b, n, Look(b, fold[1 .. n - 1], a[n]))
    BY <2>1, LookKeeps
  <2>3. Looked(a, b, n, fold[1 .. n])
    BY <1>8, <2>2
  <2>4. n \in 0 .. l
    OBVIOUS
  <2> QED BY <2>3, <2>4
<1>11. 0 .. l \subseteq T
  <2> HIDE DEF T
  <2> QED BY <1>0, <1>9, <1>10, UpToInduction
<1>12. Looked(a, b, l, fold[D])
  <2> HIDE DEF fold
  <2>1. l \in T
    BY <1>0, <1>11
  <2> QED BY <2>1
<1>13. /\ fold[D] # 0 => \A i \in 1 .. l : Has(b, a[i])
       /\ Ascending(a) /\ Ascending(b) /\ (\A i \in 1 .. l : Has(b, a[i])) => fold[D] # 0
  <2> HIDE DEF fold
  <2> QED BY <1>12 DEF Looked
<1> HIDE DEF fold
<1> QED BY <1>1, <1>13

-----------------------------------------------------------------------------
(* Of sequences of distinct items the one that is shorter is the smaller   *)
(* set.                                                                    *)
Distinct(s) == \A i, j \in 1 .. Len(s) : i # j => s[i] # s[j]

LEMMA DistinctCounts ==
  ASSUME NEW s \in Seq(Int), Distinct(s)
  PROVE  IsFiniteSet(Sets!AsSet(s)) /\ Cardinality(Sets!AsSet(s)) = Len(s)
<1> DEFINE l == Len(s)
           S == Sets!AsSet(s)
<1>1. l \in Nat /\ s \in [1 .. l -> S] /\ S = {s[i] : i \in 1 .. l} /\ \A i \in 1 .. l : s[i] \in Int
  BY DEF Sets!AsSet, Sets!ToSet
<1>2. \A i, j \in 1 .. l : s[i] = s[j] => i = j
  BY DEF Distinct
<1> HIDE DEF l, S
<1>3. s \in Bijection(1 .. l, S)
  BY <1>1, <1>2 DEF Bijection, Injection, Surjection, IsInjective
<1>4. ExistsBijection(1 .. l, S)
  BY <1>3 DEF ExistsBijection
<1>5. Cardinality(S) = l
  BY <1>1, <1>4, FS_CountingElements
<1>6. IsFiniteSet(S)
  BY <1>1, <1>4, FS_NatBijection
<1> QED BY <1>5, <1>6 DEF l, S

LEMMA ProperlyIn ==
  ASSUME NEW a \in Seq(Int), NEW b \in Seq(Int), Distinct(a), Distinct(b)
  PROVE  LET proper == Sets!AsSet(a) \subseteq Sets!AsSet(b) /\ Sets!AsSet(a) # Sets!AsSet(b)
         IN  /\ Sets!IsSubsumedBy(a, b) => proper
             /\ Ascending(a) /\ Ascending(b) /\ proper => Sets!IsSubsumedBy(a, b)
<1>1. (\A i \in 1 .. Len(a) : Has(b, a[i])) <=> Sets!AsSet(a) \subseteq Sets!AsSet(b)
  <2>0. DOMAIN b = 1 .. Len(b)
    OBVIOUS
  <2>1. \A v : Has(b, v) <=> v \in Sets!AsSet(b)
    BY <2>0, Zenon DEF Has, Sets!AsSet, Sets!ToSet
  <2>2. Sets!AsSet(a) = {a[i] : i \in 1 .. Len(a)}
    BY DEF Sets!AsSet, Sets!ToSet
  <2> QED BY <2>1, <2>2
<1> DEFINE A == Sets!AsSet(a)
           B == Sets!AsSet(b)
<1>2. IsFiniteSet(A) /\ Cardinality(A) = Len(a) /\ IsFiniteSet(B) /\ Cardinality(B) = Len(b)
  BY DistinctCounts
<1>3. Len(a) \in Nat /\ Len(b) \in Nat
  OBVIOUS
<1> HIDE DEF A, B
<1>4. A \subseteq B => Cardinality(A) <= Cardinality(B) /\ (Cardinality(A) = Cardinality(B) => A = B)
  BY <1>2, FS_Subset
<1>5. A = B => Cardinality(A) = Cardinality(B)
  BY Zenon
<1>6. A \subseteq B => (Len(a) < Len(b) <=> A # B)
  <2> SUFFICES ASSUME A \subseteq B PROVE Len(a) < Len(b) <=> A # B
    OBVIOUS
  <2>1. CASE A = B
    BY <1>2, <1>3, <1>5, <2>1
  <2>2. CASE A # B
    BY <1>2, <1>3, <1>4, <2>2
  <2> QED BY <2>1, <2>2
<1>7. /\ Sets!IsSubsumedBy(a, b) => Len(a) < Len(b) /\ A \subseteq B
      /\ Ascending(a) /\ Ascending(b) /\ Len(a) < Len(b) /\ A \subseteq B => Sets!IsSubsumedBy(a, b)
  BY <1>1, SubsumedIs DEF A, B
<1> QED BY <1>6, <1>7 DEF A, B

-----------------------------------------------------------------------------
(* The sets of a source, what is known of the first n, and what of them is *)
(* written.                                                                *)
ValidSource(d) ==
  /\ d \in Seq(Seq(Int))
  /\ \A n \in 1 .. Len(d) : Len(d[n]) > 0 /\ Distinct(d[n]) /\ Sets!AsSet(d[n]) \subseteq Sets!Items

Sorted(d) == \A n \in 1 .. Len(d) : Ascending(d[n])

OccursUpTo(d, n) == [x \in Sets!Items |-> {i \in 1 .. n : x \in Sets!AsSet(d[i])}]

Maximal(d, s) ==
  \A n \in 1 .. Len(d) :
    Sets!AsSet(s) = Sets!AsSet(d[n]) \/ ~(Sets!AsSet(s) \subseteq Sets!AsSet(d[n]))

Written(d, n, o) == IF Maximal(d, d[n]) THEN Append(o, d[n]) ELSE o

IsWritten(o, d, n) ==
  \E r : /\ r[0] = <<>> /\ \A m \in 1 .. n : r[m] = Written(d, m, r[m - 1])
         /\ o = r[n]

(* No maximal set is missing among what was written of the first n; if the *)
(* items ascend there is nothing else.                                     *)
WrittenOK(o, d, n) ==
  /\ o \in Seq(Seq(Int))
  /\ \A m \in 1 .. n : Maximal(d, d[m]) => \E i \in 1 .. Len(o) : o[i] = d[m]
  /\ Sorted(d) => IsWritten(o, d, n)

SetsInv ==
  /\ search \in {"reading", "checking", "found"} => ValidSource(data)
  /\ search \notin {"reading", "checking"} => all_sets_ = <<>>
  /\ search = "reading" =>
       /\ next_set \in 0 .. Len(data) /\ all_sets_ = [i \in 1 .. next_set |-> data[i]]
       /\ occurs_ = OccursUpTo(data, next_set) /\ os = <<>>
  /\ search = "checking" =>
       /\ next_set \in 0 .. Len(data) /\ all_sets_ = data
       /\ occurs_ = OccursUpTo(data, Len(data)) /\ WrittenOK(os, data, next_set)
  /\ search = "found" => WrittenOK(os, data, Len(data))

LEMMA SourcesAreValid == \A d \in Sources : ValidSource(d)
<1> SUFFICES ASSUME NEW d \in Sources PROVE ValidSource(d)
  OBVIOUS
<1>1. /\ MaxItem \in Nat /\ d \in Seq(Seq(1 .. MaxItem))
      /\ \A n \in DOMAIN d : d[n] # <<>> /\ \A i, j \in DOMAIN d[n] : i # j => d[n][i] # d[n][j]
  BY SourcesAssumption
<1>2. ASSUME NEW n \in 1 .. Len(d)
      PROVE  /\ d[n] \in Seq(Int) /\ Len(d[n]) > 0 /\ Distinct(d[n])
             /\ Sets!AsSet(d[n]) \subseteq Sets!Items
  <2> DEFINE s == d[n]
  <2>1. n \in DOMAIN d /\ s \in Seq(1 .. MaxItem)
    BY <1>1
  <2>2. s # <<>> /\ \A i, j \in DOMAIN s : i # j => s[i] # s[j]
    BY <1>1, <2>1
  <2> HIDE DEF s
  <2>0. Len(s) \in Nat /\ s \in [1 .. Len(s) -> 1 .. MaxItem] /\ DOMAIN s = 1 .. Len(s)
    <3> DEFINE I == 1 .. MaxItem
    <3>1. s \in Seq(I)
      BY <2>1
    <3> HIDE DEF I
    <3>2. Len(s) \in Nat /\ s \in [1 .. Len(s) -> I] /\ DOMAIN s = 1 .. Len(s)
      BY <3>1
    <3> QED BY <3>2 DEF I
  <2>3. s \in Seq(Int) /\ Len(s) > 0
    <3>1. \A i \in 1 .. Len(s) : s[i] \in Int
      BY <1>1, <2>0
    <3>2. s \in [1 .. Len(s) -> Int]
      BY <2>0, <3>1
    <3>3. s \in Seq(Int)
      BY <2>0, <3>2
    <3> QED BY <2>0, <2>1, <2>2
  <2>4. Distinct(s)
    BY <2>0, <2>2 DEF Distinct
  <2>5. Sets!AsSet(s) \subseteq Sets!Items
    BY <2>0 DEF Sets!AsSet, Sets!ToSet, Sets!Items
  <2> QED BY <2>3, <2>4, <2>5 DEF s
<1>3. d \in Seq(Seq(Int))
  BY <1>1, <1>2
<1> QED BY <1>2, <1>3 DEF ValidSource

(* A set of the source is written unless it is in another.                 *)
LEMMA SubsumedIsNotMaximal ==
  ASSUME ValidSource(data), all_sets_ = data, occurs_ = OccursUpTo(data, Len(data)),
         NEW n \in 1 .. Len(data)
  PROVE  /\ Sets!IsSubsumed(data[n]) => ~Maximal(data, data[n])
         /\ Sorted(data) /\ ~Maximal(data, data[n]) => Sets!IsSubsumed(data[n])
<1> DEFINE s == data[n]
           l == Len(data)
<1>1. /\ s \in Seq(Int) /\ Len(s) > 0 /\ Distinct(s) /\ Sets!AsSet(s) \subseteq Sets!Items
      /\ \A m \in 1 .. l : data[m] \in Seq(Int) /\ Distinct(data[m])
      /\ Sorted(data) => Ascending(s) /\ \A m \in 1 .. l : Ascending(data[m])
  BY DEF ValidSource, Sorted
<1> HIDE DEF s, l
<1>2. Head(s) \in Sets!AsSet(s)
  BY <1>1 DEF Sets!AsSet, Sets!ToSet
<1>3. occurs_[Head(s)] = {i \in 1 .. l : Head(s) \in Sets!AsSet(data[i])}
  BY <1>1, <1>2 DEF OccursUpTo, l
<1>4. Sets!IsSubsumed(s) <=> \E m \in 1 .. l : Head(s) \in Sets!AsSet(data[m]) /\ Sets!IsSubsumedBy(s, data[m])
  BY <1>3 DEF Sets!IsSubsumed
<1>5. \A m \in 1 .. l : Sets!IsSubsumedBy(s, data[m])
        => Sets!AsSet(s) \subseteq Sets!AsSet(data[m]) /\ Sets!AsSet(s) # Sets!AsSet(data[m])
  BY <1>1, ProperlyIn
<1>6. ASSUME Sorted(data), NEW m \in 1 .. l,
             Sets!AsSet(s) \subseteq Sets!AsSet(data[m]), Sets!AsSet(s) # Sets!AsSet(data[m])
      PROVE  Sets!IsSubsumedBy(s, data[m])
  BY <1>1, <1>6, ProperlyIn
<1> QED BY <1>2, <1>4, <1>5, <1>6 DEF Maximal, s, l

(* The fold of the claim goes through the source as the search does.       *)
LEMMA WrittenIsFold ==
  ASSUME data \in Seq(Seq(Int)), IsWritten(os, data, Len(data))
  PROVE  os = Sets!MaximalSets
<1> DEFINE l == Len(data)
           D == 1 .. l
           V == Seq(Seq(Int))
           z == <<>>
           c == LastOf(l)
           step == [n \in D |-> [o \in V |-> Written(data, n, o)]]
           Satisfies(it) == it = [s \in SUBSET D |->
             IF s = {} THEN <<>> ELSE Written(data, Sets!Max(s), it[s \ {Sets!Max(s)}])]
           fold == CHOOSE it : Satisfies(it)
<1>1. Sets!MaximalSets = fold[D]
  <2>1. DOMAIN data = D
    OBVIOUS
  <2>2. \A s : Sets!IsMaximal(s) <=> Maximal(data, s)
    <3> HIDE DEF D
    <3> QED BY <2>1 DEF Sets!IsMaximal, Maximal, D
  <2> DEFINE Claimed(it) == it = [s \in SUBSET D |->
             IF s = {} THEN <<>>
             ELSE IF Sets!IsMaximal(data[Sets!Max(s)])
                  THEN Append(it[s \ {Sets!Max(s)}], data[Sets!Max(s)]) ELSE it[s \ {Sets!Max(s)}]]
  <2>3. \A it : Claimed(it) <=> Satisfies(it)
    <3> HIDE DEF D
    <3> QED BY <2>2 DEF Written
  <2>4. (CHOOSE it : Claimed(it)) = fold
    <3> HIDE DEF Claimed, Satisfies
    <3> QED BY <2>3
  <2> HIDE DEF D
  <2>5. Sets!MaximalSets = (CHOOSE it : Claimed(it))[D]
    BY <2>1 DEF Sets!MaximalSets, Sets!FoldLeft, Sets!MapThenFoldSet
  <2> HIDE DEF Claimed, fold
  <2> QED BY <2>4, <2>5
<1>0. l \in Nat /\ \A n \in D : data[n] \in Seq(Int)
  OBVIOUS
<1>2. \A n \in D, o \in V : Written(data, n, o) \in V /\ step[n][o] = Written(data, n, o)
  BY <1>0 DEF Written
<1>3. step \in [D -> [V -> V]] /\ z \in V
  BY <1>2
<1>4. FoldsFromLeft(l, V, z, step)
  <2> HIDE DEF V, z, step, l
  <2> QED BY <1>0, <1>3, FoldFromLeft
<1>5. \A s \in SUBSET D : s # {} => c[s] = Sets!Max(s) /\ c[s] \in s
  <2>1. IsChoice(c, D)
    BY <1>0, LastIsChoice
  <2>2. \A s \in SUBSET D : c[s] = Sets!Max(s)
    BY DEF LastOf, Sets!Max
  <2> HIDE DEF c, D
  <2> QED BY <2>1, <2>2 DEF IsChoice
<1> HIDE DEF step, V, z, l
<1>6. PICK it \in [SUBSET D -> V] : IsFold(it, D, z, step, c)
  BY <1>4 DEF FoldsFromLeft
<1>7. /\ it[{}] = z /\ \A n \in 0 .. l : it[1 .. n] \in V
      /\ \A n \in 1 .. l : it[1 .. n] = step[n][it[1 .. n - 1]]
  BY <1>4, <1>6 DEF FoldsFromLeft, FromLeft
<1> HIDE DEF c
<1>8. Satisfies(it)
  <2>2. ASSUME NEW s \in SUBSET D, s # {}
        PROVE  it[s] = Written(data, Sets!Max(s), it[s \ {Sets!Max(s)}])
    <3> DEFINE x == Sets!Max(s)
    <3>1. x = c[s] /\ x \in D /\ it[s \ {x}] \in V
      BY <1>5, <1>6, <2>2
    <3>2. it[s] = step[x][it[s \ {x}]]
      BY <1>6, <2>2, <3>1 DEF IsFold
    <3> HIDE DEF x, D
    <3> QED BY <1>2, <3>1, <3>2 DEF x
  <2>3. it[{}] = <<>>
    BY <1>7 DEF z
  <2>4. it = [s \in SUBSET D |-> it[s]]
    BY <1>6
  <2> HIDE DEF D
  <2> QED BY <2>2, <2>3, <2>4
<1>9. \A x : Satisfies(x) => x = it
  <2> SUFFICES ASSUME NEW x, Satisfies(x) PROVE x = it
    OBVIOUS
  <2>0. DOMAIN x = SUBSET D /\ x = [s \in SUBSET D |-> x[s]]
    OBVIOUS
  <2> DEFINE T == {s \in SUBSET D : x[s] = it[s]}
  <2>1. {} \in T
    <3> HIDE DEF D
    <3>1. x[{}] = <<>> /\ it[{}] = <<>>
      BY <1>8
    <3> QED BY <3>1
  <2>2. ASSUME NEW s \in SUBSET D, \A y \in s : s \ {y} \in T PROVE s \in T
    <3>1. CASE s = {}
      BY <2>1, <3>1
    <3>2. CASE s # {}
      <4> DEFINE y == Sets!Max(s)
      <4>1. y \in s
        BY <1>5, <3>2
      <4> HIDE DEF D
      <4>2. x[s] = Written(data, y, x[s \ {y}]) /\ it[s] = Written(data, y, it[s \ {y}])
        BY <1>8, <3>2
      <4> HIDE DEF y
      <4> QED BY <2>2, <4>1, <4>2
    <3> QED BY <3>1, <3>2
  <2>3. \A s \in SUBSET D : s \in T
    <3> DEFINE Bad == (SUBSET D) \ T
    <3> SUFFICES ASSUME Bad # {} PROVE FALSE
      OBVIOUS
    <3>1. IsFiniteSet(D) /\ Bad \in SUBSET SUBSET D
      BY <1>0, FS_Interval
    <3>2. PICK s \in Bad : \A t \in Bad : t \subseteq s => t = s
      <4> HIDE DEF Bad, D
      <4> QED BY <3>1, MinSubset
    <3>3. \A y \in s : s \ {y} \in T
      <4> HIDE DEF T
      <4> QED BY <3>2
    <3> HIDE DEF T
    <3> QED BY <2>2, <3>2, <3>3
  <2> HIDE DEF D
  <2> QED BY <1>6, <2>0, <2>3
<1>10. fold = it
  <2> HIDE DEF Satisfies
  <2> QED BY <1>8, <1>9
<1>11. PICK r : /\ r[0] = <<>> /\ \A m \in 1 .. l : r[m] = Written(data, m, r[m - 1])
                /\ os = r[l]
  BY DEF IsWritten, l
<1> DEFINE Same == {n \in 0 .. l : it[1 .. n] = r[n]}
<1>12. 0 \in Same
  <2>1. 1 .. 0 = {}
    OBVIOUS
  <2>2. it[1 .. 0] = <<>>
    BY <1>7, <2>1, Zenon DEF z
  <2> QED BY <1>0, <1>11, <2>2
<1>13. ASSUME NEW n \in 1 .. l, n - 1 \in Same PROVE n \in Same
  <2>1. n - 1 \in 0 .. l /\ n \in 0 .. l /\ it[1 .. n - 1] = r[n - 1]
    BY <1>0, <1>13
  <2>2. it[1 .. n] = Written(data, n, it[1 .. n - 1])
    BY <1>2, <1>7, <2>1
  <2>3. it[1 .. n] = r[n]
    BY <1>11, <2>1, <2>2
  <2> QED BY <2>1, <2>3
<1>14. 0 .. l \subseteq Same
  <2> HIDE DEF Same
  <2> QED BY <1>0, <1>12, <1>13, UpToInduction
<1>15. it[D] = r[l]
  <2>1. l \in Same
    BY <1>0, <1>14
  <2> QED BY <2>1
<1> HIDE DEF fold
<1> QED BY <1>1, <1>10, <1>11, <1>15

(* Each step of the search for maximal sets keeps what is said of it.      *)
LEMMA SetsKept ==
  ASSUME SetsInv, [Sets!Next]_(Sets!vars)
  PROVE  SetsInv'
<1>1. CASE Sets!Begin
  <2>1. /\ search \notin {"reading", "checking"} /\ search' \in {"reading", "failed"} /\ data' \in Sources
        /\ occurs_' = Sets!NoOccurs /\ next_set' = 0 /\ os' = <<>> /\ all_sets_' = all_sets_
    BY <1>1 DEF Sets!Begin
  <2>2. all_sets_' = <<>> /\ ValidSource(data')
    BY <2>1, SourcesAreValid DEF SetsInv
  <2>3. occurs_' = OccursUpTo(data', 0)
    BY <2>1 DEF Sets!NoOccurs, OccursUpTo
  <2>4. Len(data') \in Nat
    BY <2>2 DEF ValidSource
  <2>5. all_sets_' = [i \in 1 .. 0 |-> data'[i]]
    BY <2>2
  <2>6. search' = "reading" =>
       /\ next_set' \in 0 .. Len(data') /\ all_sets_' = [i \in 1 .. next_set' |-> data'[i]]
       /\ occurs_' = OccursUpTo(data', next_set') /\ os' = <<>>
    BY <2>1, <2>3, <2>4, <2>5
  <2>7. ValidSource(data)'
    BY <2>2 DEF ValidSource
  <2>8. OccursUpTo(data, next_set)' = OccursUpTo(data', next_set')
    BY DEF OccursUpTo
  <2> QED BY <2>1, <2>2, <2>6, <2>7, <2>8 DEF SetsInv
<1>2. ASSUME data' = data
      PROVE  /\ ValidSource(data)' = ValidSource(data)
             /\ \A n : OccursUpTo(data, n)' = OccursUpTo(data, n)
             /\ \A n : WrittenOK(os, data, n)' = WrittenOK(os', data, n)
             /\ Len(data)' = Len(data)
  BY <1>2 DEF ValidSource, OccursUpTo, WrittenOK, Sorted, IsWritten, Written, Maximal
<1>3. CASE Sets!ReadSet
  <2> DEFINE n == next_set
             s == data[n + 1]
  <2>1. /\ search = "reading" /\ n < Len(data) /\ data' = data /\ os' = os /\ search' = search
        /\ all_sets_' = Append(all_sets_, s) /\ next_set' = n + 1
        /\ occurs_' = [x \in Sets!Items |-> occurs_[x] \cup
                         (IF x \in Sets!AsSet(s) THEN {Len(all_sets_) + 1} ELSE {})]
    BY <1>3 DEF Sets!ReadSet
  <2>2. /\ ValidSource(data) /\ n \in 0 .. Len(data) /\ all_sets_ = [i \in 1 .. n |-> data[i]]
        /\ occurs_ = OccursUpTo(data, n) /\ os = <<>>
    BY <2>1 DEF SetsInv
  <2>3. data \in Seq(Seq(Int)) /\ n \in Nat /\ n + 1 \in 1 .. Len(data) /\ Len(data) \in Nat
    BY <2>1, <2>2 DEF ValidSource
  <2>4. all_sets_ \in Seq(Seq(Int)) /\ Len(all_sets_) = n
    BY <2>2, <2>3
  <2>5. all_sets_' = [i \in 1 .. n + 1 |-> data[i]]
    <3> DEFINE more == [i \in 1 .. n + 1 |-> data[i]]
    <3>1. more \in Seq(Seq(Int)) /\ Len(more) = n + 1
      BY <2>3
    <3>2. s \in Seq(Int)
      BY <2>3
    <3>3. Append(all_sets_, s) = more
      BY <2>2, <2>3, <2>4, <3>1, <3>2
    <3> QED BY <2>1, <3>3
  <2>6. occurs_' = OccursUpTo(data, n + 1)
    <3>1. ASSUME NEW x \in Sets!Items
          PROVE  occurs_[x] \cup (IF x \in Sets!AsSet(s) THEN {Len(all_sets_) + 1} ELSE {})
                   = {i \in 1 .. n + 1 : x \in Sets!AsSet(data[i])}
      <4>1. occurs_[x] = {i \in 1 .. n : x \in Sets!AsSet(data[i])}
        BY <2>2 DEF OccursUpTo
      <4>2. \A i : i \in 1 .. n + 1 <=> i \in 1 .. n \/ i = n + 1
        BY <2>3
      <4> QED BY <2>4, <4>1, <4>2
    <3> DEFINE lhs(x) == occurs_[x] \cup (IF x \in Sets!AsSet(s) THEN {Len(all_sets_) + 1} ELSE {})
               rhs(x) == {i \in 1 .. n + 1 : x \in Sets!AsSet(data[i])}
    <3>2. \A x \in Sets!Items : lhs(x) = rhs(x)
      BY <3>1
    <3> HIDE DEF lhs, rhs
    <3>3. [x \in Sets!Items |-> lhs(x)] = [x \in Sets!Items |-> rhs(x)]
      BY <3>2
    <3> QED BY <2>1, <3>3 DEF OccursUpTo, lhs, rhs
  <2>7. n + 1 \in 0 .. Len(data)
    BY <2>3
  <2> HIDE DEF n, s
  <2> QED BY <1>2, <2>1, <2>2, <2>5, <2>6, <2>7 DEF SetsInv
<1>4. CASE Sets!Fail
  BY <1>2, <1>4 DEF Sets!Fail, SetsInv
<1>5. CASE Sets!EndReading
  <2>1. /\ search = "reading" /\ next_set = Len(data) /\ search' = "checking" /\ next_set' = 0
        /\ UNCHANGED <<data, all_sets_, occurs_, os>>
    BY <1>5 DEF Sets!EndReading
  <2>2. /\ ValidSource(data) /\ all_sets_ = [i \in 1 .. Len(data) |-> data[i]]
        /\ occurs_ = OccursUpTo(data, Len(data)) /\ os = <<>>
    BY <2>1 DEF SetsInv
  <2>3. data \in Seq(Seq(Int)) /\ Len(data) \in Nat
    BY <2>2 DEF ValidSource
  <2>4. all_sets_ = data
    BY <2>2, <2>3
  <2>5. IsWritten(<<>>, data, 0)
    <3> DEFINE r == [m \in 0 .. 0 |-> <<>>]
    <3>1. r[0] = <<>> /\ 1 .. 0 = {}
      OBVIOUS
    <3> HIDE DEF r
    <3> QED BY <3>1 DEF IsWritten
  <2>6. WrittenOK(<<>>, data, 0)
    <3>1. <<>> \in Seq(Seq(Int)) /\ 1 .. 0 = {}
      OBVIOUS
    <3> QED BY <2>5, <3>1 DEF WrittenOK
  <2> QED BY <1>2, <2>1, <2>2, <2>3, <2>4, <2>6 DEF SetsInv
<1>6. CASE Sets!CheckSet
  <2> DEFINE n == next_set
  <2>1. /\ search = "checking" /\ n < Len(all_sets_) /\ next_set' = n + 1
        /\ os' = IF Sets!IsSubsumed(all_sets_[n + 1]) THEN os ELSE Append(os, all_sets_[n + 1])
        /\ UNCHANGED <<data, all_sets_, occurs_, search>>
    BY <1>6 DEF Sets!CheckSet
  <2>2. /\ ValidSource(data) /\ n \in 0 .. Len(data) /\ all_sets_ = data
        /\ occurs_ = OccursUpTo(data, Len(data)) /\ WrittenOK(os, data, n)
    BY <2>1 DEF SetsInv
  <2>3. n \in Nat /\ n + 1 \in 1 .. Len(data) /\ n + 1 \in 0 .. Len(data) /\ Len(data) \in Nat
    BY <2>1, <2>2 DEF ValidSource
  <2> HIDE DEF n
  <2>4. /\ os \in Seq(Seq(Int)) /\ data[n + 1] \in Seq(Int)
        /\ os' \in Seq(Seq(Int)) /\ Len(os') \in Nat /\ Len(os) \in Nat
        /\ \A i \in 1 .. Len(os) : i \in 1 .. Len(os') /\ os'[i] = os[i]
        /\ ~Sets!IsSubsumed(data[n + 1]) => Len(os') > 0 /\ os'[Len(os')] = data[n + 1]
    <3>1. os \in Seq(Seq(Int)) /\ data[n + 1] \in Seq(Int)
      BY <2>2, <2>3 DEF WrittenOK, ValidSource
    <3>2. \A R : \A o \in Seq(R), x \in R :
            /\ Append(o, x) \in Seq(R) /\ Len(Append(o, x)) = Len(o) + 1 /\ Len(o) \in Nat
            /\ Append(o, x)[Len(o) + 1] = x /\ \A i \in 1 .. Len(o) : Append(o, x)[i] = o[i]
      OBVIOUS
    <3>3. CASE Sets!IsSubsumed(data[n + 1])
      <4>1. os' = os
        BY <2>1, <2>2, <3>3
      <4> QED BY <3>1, <3>3, <4>1
    <3>4. CASE ~Sets!IsSubsumed(data[n + 1])
      <4>1. os' = Append(os, data[n + 1])
        BY <2>1, <2>2, <3>4
      <4> QED BY <3>1, <3>2, <4>1
    <3> QED BY <3>3, <3>4
  <2>5. ASSUME NEW m \in 1 .. n + 1, Maximal(data, data[m])
        PROVE  \E i \in 1 .. Len(os') : os'[i] = data[m]
    <3>1. CASE m = n + 1
      <4>1. ~Sets!IsSubsumed(data[n + 1])
        BY <2>2, <2>3, <2>5, <3>1, SubsumedIsNotMaximal
      <4> QED BY <2>4, <3>1, <4>1
    <3>2. CASE m # n + 1
      <4>1. m \in 1 .. n
        BY <2>3, <3>2
      <4>2. PICK i \in 1 .. Len(os) : os[i] = data[m]
        BY <2>2, <2>5, <4>1 DEF WrittenOK
      <4> QED BY <2>4, <4>2
    <3> QED BY <3>1, <3>2
  <2>6. ASSUME Sorted(data) PROVE IsWritten(os', data, n + 1)
    <3>1. os' = Written(data, n + 1, os)
      BY <2>1, <2>2, <2>3, <2>6, SubsumedIsNotMaximal DEF Written
    <3>2. PICK r : /\ r[0] = <<>> /\ \A m \in 1 .. n : r[m] = Written(data, m, r[m - 1])
                   /\ os = r[n]
      BY <2>2, <2>6 DEF WrittenOK, IsWritten
    <3> DEFINE more == [m \in 0 .. n + 1 |-> IF m = n + 1 THEN os' ELSE r[m]]
    <3>3. more[0] = <<>> /\ more[n + 1] = os'
      BY <2>3, <3>2
    <3>4. ASSUME NEW m \in 1 .. n + 1 PROVE more[m] = Written(data, m, more[m - 1])
      <4>1. m \in 0 .. n + 1 /\ m - 1 \in 0 .. n + 1 /\ m - 1 # n + 1
        BY <2>3
      <4>2. more[m - 1] = r[m - 1]
        BY <4>1
      <4>3. CASE m = n + 1
        <5>1. m - 1 = n /\ more[m] = os'
          BY <2>3, <3>3, <4>3
        <5> HIDE DEF more
        <5> QED BY <3>1, <3>2, <4>2, <4>3, <5>1
      <4>4. CASE m # n + 1
        <5>1. m \in 1 .. n /\ more[m] = r[m]
          BY <2>3, <4>1, <4>4
        <5> HIDE DEF more
        <5> QED BY <3>2, <4>2, <5>1
      <4> QED BY <4>3, <4>4
    <3> HIDE DEF more
    <3> QED BY <3>3, <3>4 DEF IsWritten
  <2>7. WrittenOK(os', data, n + 1)
    BY <2>4, <2>5, <2>6 DEF WrittenOK
  <2> QED BY <1>2, <2>1, <2>2, <2>3, <2>7 DEF SetsInv, n
<1>7. CASE Sets!Finish
  <2>1. /\ search = "checking" /\ next_set = Len(all_sets_) /\ search' = "found" /\ all_sets_' = <<>>
        /\ UNCHANGED <<data, next_set, occurs_, os>>
    BY <1>7 DEF Sets!Finish
  <2>2. ValidSource(data) /\ all_sets_ = data /\ WrittenOK(os, data, next_set)
    BY <2>1 DEF SetsInv
  <2> QED BY <1>2, <2>1, <2>2 DEF SetsInv
<1>8. CASE UNCHANGED Sets!vars
  BY <1>2, <1>8 DEF Sets!vars, SetsInv
<1> QED BY <1>1, <1>3, <1>4, <1>5, <1>6, <1>7, <1>8 DEF Sets!Next

LEMMA PartsRunSets == PartsSpec => Sets!Spec
<1>1. PartsInit => Sets!Init BY DEF PartsInit
<1>2. [PartsNext]_partsVars => [Sets!Next]_(Sets!vars)
  BY DEF PartsNext, partsVars, setsVars, Sets!vars
<1> QED BY <1>1, <1>2, PTL DEF PartsSpec, Sets!Spec

(* A search that succeeds has written the sets of its source that are      *)
(* properly contained in no other, for any source of sets, in any order of *)
(* their items, and whatever searches of the object failed before; if the  *)
(* items ascend, in the order of the source and nothing else               *)
(* (FindAllMaximalSets).                                                   *)
THEOREM MaximalSetsAreWritten == PartsSpec => []MaximalSetsAreFound
<1>1. Sets!Init => SetsInv
  BY DEF Sets!Init, SetsInv
<1>2. SetsInv => MaximalSetsAreFound
  <2> SUFFICES ASSUME SetsInv, search = "found" PROVE Sets!MaximalSetsAreFound
    BY DEF MaximalSetsAreFound, Sets!MaximalSetsAreFound
  <2>1. data \in Seq(Seq(Int)) /\ WrittenOK(os, data, Len(data)) /\ DOMAIN data = 1 .. Len(data)
    BY DEF SetsInv, ValidSource
  <2>2. ASSUME NEW n \in DOMAIN data, Sets!IsMaximal(data[n]) PROVE data[n] \in Sets!ToSet(os)
    <3>1. Maximal(data, data[n])
      BY <2>1, <2>2 DEF Sets!IsMaximal, Maximal
    <3>2. \E i \in 1 .. Len(os) : os[i] = data[n]
      BY <2>1, <2>2, <3>1 DEF WrittenOK
    <3>3. DOMAIN os = 1 .. Len(os)
      BY <2>1 DEF WrittenOK
    <3> QED BY <3>2, <3>3 DEF Sets!ToSet
  <2>3. ASSUME \A n \in DOMAIN data : Sets!IsAscending(data[n]) PROVE os = Sets!MaximalSets
    <3>1. \A n \in 1 .. Len(data) : data[n] \in Seq(Int)
      BY <2>1
    <3>2. Sorted(data)
      <4> SUFFICES ASSUME NEW n \in 1 .. Len(data) PROVE Ascending(data[n])
        BY DEF Sorted
      <4>1. DOMAIN data[n] = 1 .. Len(data[n])
        BY <3>1
      <4>2. \A i, j \in DOMAIN data[n] : i < j => data[n][i] < data[n][j]
        BY <2>1, <2>3 DEF Sets!IsAscending
      <4> QED BY <4>1, <4>2 DEF Ascending
    <3> QED BY <2>1, <3>2, WrittenIsFold DEF WrittenOK
  <2> QED BY <2>2, <2>3 DEF Sets!MaximalSetsAreFound
<1> QED BY <1>1, <1>2, SetsKept, PartsRunSets, PTL DEF Sets!Spec

-----------------------------------------------------------------------------
(* The items in the order of their supports.                               *)
Transactions(db) == db \in Seq(SUBSET Nat)
Frequent == {x \in 1 .. item_num_ : Tree!Support({x}) >= min_sup}

LEMMA TreeCounts == \A S : Tree!Cardinality(S) = Cardinality(S)
BY DEF Tree!Cardinality, Cardinality

LEMMA SupportsAreNumbers ==
  ASSUME Transactions(data_)
  PROVE  \A S : Tree!Support(S) \in Nat
<1> SUFFICES ASSUME NEW S PROVE Tree!Support(S) \in Nat
  OBVIOUS
<1> DEFINE D == {n \in DOMAIN data_ : S \subseteq data_[n]}
<1>1. D \in SUBSET (1 .. Len(data_)) /\ Len(data_) \in Nat
  BY DEF Transactions
<1>2. IsFiniteSet(D)
  <2>1. IsFiniteSet(1 .. Len(data_))
    BY <1>1, FS_Interval
  <2> HIDE DEF D
  <2> QED BY <1>1, <2>1, FS_Subset
<1>3. Cardinality(D) \in Nat
  <2> HIDE DEF D
  <2> QED BY <1>2, FS_CardinalityType
<1> QED BY <1>3, TreeCounts DEF Tree!Support

Precedence(S) == {p \in S \X S : Tree!Precedes(p[1], p[2])}

(* More support first, and of equal support the greater item: a strict     *)
(* order.                                                                  *)
LEMMA PrecedesOrders ==
  ASSUME Transactions(data_), NEW S \in SUBSET (1 .. item_num_)
  PROVE  Orders(Precedence(S), S)
<1>1. \A x \in S : x \in Int
  BY PatternsAssumption
<1>2. \A x, y \in S : <<x, y>> \in Precedence(S) <=> Tree!Precedes(x, y)
  BY DEF Precedence
<1>3. \A x \in S : ~Tree!Precedes(x, x)
  BY <1>1, SupportsAreNumbers DEF Tree!Precedes
<1>4. \A x, y \in S : x = y \/ Tree!Precedes(x, y) \/ Tree!Precedes(y, x)
  BY <1>1, SupportsAreNumbers DEF Tree!Precedes
<1>5. \A x, y, z \in S : Tree!Precedes(x, y) /\ Tree!Precedes(y, z) => Tree!Precedes(x, z)
  BY <1>1, SupportsAreNumbers DEF Tree!Precedes
<1> QED BY <1>2, <1>3, <1>4, <1>5 DEF Orders

(* A sequence of the elements of S, each once, the most frequent first.    *)
Listed(r, S) ==
  /\ r \in Seq(S) /\ \A x \in S : \E n \in 1 .. Len(r) : r[n] = x
  /\ \A m, n \in 1 .. Len(r) : m < n <=> Tree!Precedes(r[m], r[n])

LEMMA RankedIsListed ==
  ASSUME NEW S, Cardinality(S) \in Nat, NEW r, Ranked(r, Precedence(S), S)
  PROVE  Listed(r, S)
<1> DEFINE c == Cardinality(S)
<1>1. c \in Nat /\ r \in [1 .. c -> S]
  BY DEF Ranked
<1> HIDE DEF c
<1>2. r \in Seq(S) /\ Len(r) = c
  BY <1>1
<1>3. \A m, n \in 1 .. c : <<r[m], r[n]>> \in Precedence(S) <=> Tree!Precedes(r[m], r[n])
  <2>1. \A n \in 1 .. c : r[n] \in S
    BY <1>1
  <2> QED BY <2>1 DEF Precedence
<1> QED BY <1>2, <1>3 DEF c, Ranked, Listed

(* InOrder lists the items of a set by it.                                 *)
LEMMA ListedInOrder ==
  ASSUME Transactions(data_), NEW S \in SUBSET (1 .. item_num_), NEW r,
         r = [n \in 1 .. Tree!Cardinality(S) |->
                CHOOSE x \in S : Tree!Cardinality({y \in S : Tree!Precedes(y, x)}) = n - 1]
  PROVE  Listed(r, S)
<1> DEFINE R == Precedence(S)
           P(n, x) == Tree!Cardinality({y \in S : Tree!Precedes(y, x)}) = n - 1
           Q(n, x) == Cardinality(Below(R, S, x)) = n - 1
<1>1. IsFiniteSet(S) /\ Cardinality(S) \in Nat
  <2>1. IsFiniteSet(1 .. item_num_)
    BY PatternsAssumption, FS_Interval
  <2>2. IsFiniteSet(S)
    BY <2>1, FS_Subset
  <2> QED BY <2>2, FS_CardinalityType
<1>2. \A n, x : x \in S => (P(n, x) <=> Q(n, x))
  <2>1. \A x \in S : {y \in S : Tree!Precedes(y, x)} = Below(R, S, x)
    BY DEF Below, Precedence
  <2> QED BY <2>1, TreeCounts
<1>3. \A n : (CHOOSE x \in S : P(n, x)) = (CHOOSE x \in S : Q(n, x))
  <2> HIDE DEF P, Q
  <2> QED BY <1>2
<1>4. r = [n \in 1 .. Cardinality(S) |-> CHOOSE x \in S : P(n, x)]
  <2>1. Tree!Cardinality(S) = Cardinality(S)
    BY TreeCounts
  <2> QED BY <2>1, Zenon
<1> HIDE DEF P
<1>5. r = [n \in 1 .. Cardinality(S) |-> CHOOSE x \in S : Q(n, x)]
  <2> HIDE DEF Q
  <2> QED BY <1>3, <1>4
<1> HIDE DEF R
<1>6. Ranked(r, R, S)
  BY <1>1, <1>5, PrecedesOrders, RanksOrder DEF R
<1> QED BY <1>1, <1>6, RankedIsListed DEF R

(* So find_freq_items lists the frequent items ...                         *)
LEMMA FrequentListed ==
  ASSUME Transactions(data_)
  PROVE  Listed(Tree!freq_items_, Frequent) /\ Tree!Range(Tree!freq_items_) = Frequent
<1> DEFINE r == Tree!freq_items_
<1>1. Listed(r, Frequent)
  BY ListedInOrder DEF Frequent, Tree!freq_items_, Tree!InOrder
<1> HIDE DEF r
<1>2. r \in Seq(Frequent) /\ \A x \in Frequent : \E n \in 1 .. Len(r) : r[n] = x
  BY <1>1 DEF Listed
<1>3. DOMAIN r = 1 .. Len(r) /\ \A n \in 1 .. Len(r) : r[n] \in Frequent
  BY <1>2
<1>4. Tree!Range(r) = Frequent
  BY <1>2, <1>3 DEF Tree!Range
<1> QED BY <1>1, <1>4 DEF r

(* ... and sort_and_filter those of a transaction.                         *)
LEMMA PathListed ==
  ASSUME Transactions(data_), NEW items
  PROVE  Listed(Tree!order_by(items), Frequent \cap items)
<1> DEFINE S == Frequent \cap items
<1>1. S \in SUBSET (1 .. item_num_) /\ Tree!Range(Tree!freq_items_) \cap items = S
  BY FrequentListed DEF Frequent
<1>2. Tree!order_by(items) = [n \in 1 .. Tree!Cardinality(S) |->
                CHOOSE x \in S : Tree!Cardinality({y \in S : Tree!Precedes(y, x)}) = n - 1]
  <2> DEFINE U == Tree!Range(Tree!freq_items_) \cap items
  <2>1. Tree!order_by(items) = [n \in 1 .. Tree!Cardinality(U) |->
                CHOOSE x \in U : Tree!Cardinality({y \in U : Tree!Precedes(y, x)}) = n - 1]
    BY DEF Tree!order_by, Tree!InOrder
  <2>2. U = S
    BY <1>1
  <2> HIDE DEF U, S
  <2> QED BY <2>1, <2>2, Zenon
<1> HIDE DEF S
<1>3. Listed(Tree!order_by(items), S)
  BY <1>1, <1>2, ListedInOrder
<1> QED BY <1>3 DEF S

LEMMA PatternData ==
  ASSUME data_ \in Databases
  PROVE  Transactions(data_) /\ Len(data_) \in Nat /\ \A n \in 1 .. Len(data_) : data_[n] \in SUBSET Nat
BY PatternsAssumption DEF Transactions

-----------------------------------------------------------------------------
(* The sums the properties speak of.                                       *)
LEMMA TreeSum ==
  ASSUME NEW D, IsFiniteSet(D), NEW w, \A x \in D : w[x] \in Int
  PROVE  Tree!SumOf(w, D) = SumOver(D, w) /\ SumOver(D, w) \in Int
<1> DEFINE g == CHOOSE it : it = [s \in SUBSET D |->
                  IF s = {} THEN 0
                  ELSE w[CHOOSE y \in s : TRUE] + it[s \ {CHOOSE y \in s : TRUE}]]
<1>1. Tree!SumOf(w, D) = g[D]
  BY DEF Tree!SumOf, Tree!MapThenSumSet, Tree!MapThenFoldSet
<1>2. PICK it : IsSum(it, D, w)
  BY SumExists
<1>3. IsSum(g, D, w)
  <2>1. it = [s \in SUBSET D |->
                  IF s = {} THEN 0
                  ELSE w[CHOOSE y \in s : TRUE] + it[s \ {CHOOSE y \in s : TRUE}]]
    BY <1>2 DEF IsSum
  <2> QED BY <2>1 DEF IsSum
<1> HIDE DEF g
<1> QED BY <1>1, <1>3, SumIsUnique

(* The item of a set that comes last.                                      *)
Rarest(S) == CHOOSE y \in S : \A z \in S \ {y} : Tree!Precedes(z, y)

(* A set of items has a rarest one, which all others precede.              *)
LEMMA RarestIs ==
  ASSUME Transactions(data_), NEW S \in SUBSET Frequent, S # {}
  PROVE  Rarest(S) \in S /\ \A z \in S \ {Rarest(S)} : Tree!Precedes(z, Rarest(S))
<1> DEFINE r == Tree!order_by(S)
<1>1. Listed(r, S)
  <2>1. Frequent \cap S = S
    OBVIOUS
  <2> QED BY <2>1, PathListed
<1> HIDE DEF r
<1>2. Len(r) \in Nat /\ \A n \in 1 .. Len(r) : r[n] \in S
  BY <1>1 DEF Listed
<1>3. Len(r) \in 1 .. Len(r)
  BY <1>1, <1>2 DEF Listed
<1> DEFINE y == r[Len(r)]
<1>4. y \in S
  BY <1>2, <1>3
<1>5. ASSUME NEW z \in S \ {y} PROVE Tree!Precedes(z, y)
  <2>1. PICK n \in 1 .. Len(r) : r[n] = z
    BY <1>1 DEF Listed
  <2>2. n # Len(r)
    BY <2>1
  <2>3. n < Len(r)
    BY <1>2, <2>2
  <2> QED BY <1>1, <1>3, <2>1, <2>3 DEF Listed
<1> HIDE DEF y
<1>6. \E u \in S : \A z \in S \ {u} : Tree!Precedes(z, u)
  BY <1>4, <1>5
<1> QED BY <1>6 DEF Rarest

(* Of the beginnings of the path of a transaction one ends with the rarest *)
(* item of a set and has the others, if the transaction has all of them.   *)
Steps(path) == {SubSeq(path, 1, n) : n \in 1 .. Len(path)}
EndsAt(n, S) == Tree!Last(n) = Rarest(S) /\ S \subseteq Tree!Range(n)

(* The steps of a path are its beginnings.                                 *)
LEMMA StepIs ==
  ASSUME NEW X, NEW path \in Seq(X), NEW n \in 1 .. Len(path)
  PROVE  /\ SubSeq(path, 1, n) \in Seq(X) /\ SubSeq(path, 1, n) # <<>>
         /\ Tree!Last(SubSeq(path, 1, n)) = path[n]
         /\ Tree!Range(SubSeq(path, 1, n)) = {path[m] : m \in 1 .. n}
<1> DEFINE s == SubSeq(path, 1, n)
<1>1. s \in Seq(X) /\ Len(s) = n /\ \A m \in 1 .. n : s[m] = path[m]
  OBVIOUS
<1>2. DOMAIN s = 1 .. n
  BY <1>1
<1> HIDE DEF s
<1>3. s # <<>> /\ s[n] = path[n] /\ {s[m] : m \in 1 .. n} = {path[m] : m \in 1 .. n}
  BY <1>1
<1> QED BY <1>1, <1>2, <1>3 DEF s, Tree!Last, Tree!Range

(* A path has one step that counts for a set if its items have the set, or *)
(* none.                                                                   *)
LEMMA PathEnds ==
  ASSUME Transactions(data_), NEW items, NEW S \in SUBSET Frequent, S # {}
  PROVE  /\ ~(S \subseteq items) => \A n \in Steps(Tree!order_by(items)) : ~EndsAt(n, S)
         /\ S \subseteq items =>
              \E p \in Steps(Tree!order_by(items)) :
                EndsAt(p, S) /\ \A n \in Steps(Tree!order_by(items)) : EndsAt(n, S) => n = p
<1> DEFINE path == Tree!order_by(items)
           X == Frequent \cap items
           x == Rarest(S)
<1>1. Listed(path, X)
  BY PathListed
<1>2. x \in S /\ \A z \in S \ {x} : Tree!Precedes(z, x)
  BY RarestIs
<1> HIDE DEF path, x
<1>3. path \in Seq(X) /\ Len(path) \in Nat /\ \A n \in 1 .. Len(path) : path[n] \in X
  BY <1>1 DEF Listed
<1>4. ASSUME NEW n \in 1 .. Len(path)
      PROVE  EndsAt(SubSeq(path, 1, n), S) <=> path[n] = x /\ S \subseteq {path[m] : m \in 1 .. n}
  BY <1>3, StepIs DEF EndsAt, x
<1>5. ASSUME ~(S \subseteq items) PROVE \A n \in Steps(path) : ~EndsAt(n, S)
  <2>1. \A n \in 1 .. Len(path) : {path[m] : m \in 1 .. n} \subseteq items
    BY <1>3
  <2> QED BY <1>4, <1>5, <2>1 DEF Steps
<1>6. ASSUME S \subseteq items
      PROVE  \E p \in Steps(path) : EndsAt(p, S) /\ \A n \in Steps(path) : EndsAt(n, S) => n = p
  <2>1. PICK n \in 1 .. Len(path) : path[n] = x
    BY <1>1, <1>2, <1>6 DEF Listed
  <2>2. S \subseteq {path[m] : m \in 1 .. n}
    <3> SUFFICES ASSUME NEW z \in S, z # x PROVE z \in {path[m] : m \in 1 .. n}
      BY <1>3, <2>1
    <3>1. PICK m \in 1 .. Len(path) : path[m] = z
      BY <1>1, <1>6 DEF Listed
    <3>2. m < n
      BY <1>1, <1>2, <2>1, <3>1 DEF Listed
    <3> QED BY <1>3, <3>1, <3>2
  <2>3. EndsAt(SubSeq(path, 1, n), S)
    BY <1>4, <2>1, <2>2
  <2>4. ASSUME NEW m \in 1 .. Len(path), path[m] = x PROVE m = n
    <3>1. ~(m < n) /\ ~(n < m)
      <4>1. ~Tree!Precedes(x, x)
        BY <1>2, <1>1, <2>1 DEF Listed
      <4> QED BY <1>1, <2>1, <2>4, <4>1 DEF Listed
    <3> QED BY <1>3, <3>1
  <2>5. ASSUME NEW q \in Steps(path), EndsAt(q, S) PROVE q = SubSeq(path, 1, n)
    <3>1. PICK m \in 1 .. Len(path) : q = SubSeq(path, 1, m)
      BY DEF Steps
    <3>2. path[m] = x
      BY <1>4, <2>5, <3>1
    <3> QED BY <2>4, <3>1, <3>2
  <2>6. SubSeq(path, 1, n) \in Steps(path)
    BY DEF Steps
  <2> QED BY <2>3, <2>5, <2>6
<1> QED BY <1>5, <1>6 DEF path

-----------------------------------------------------------------------------
(* The tree has the supports among the transactions read so far.           *)
IsTree(t) ==
  /\ IsFiniteSet(Tree!Node(t))
  /\ \A n \in Tree!Node(t) : n \in Seq(Nat) /\ n # <<>> /\ t.sup[n] \in Nat

EndsOf(t, S) == {n \in Tree!Node(t) : EndsAt(n, S)}
Having(db, m, S) == {n \in 1 .. m : S \subseteq db[n]}
KeepsSupport(t, m) ==
  \A S \in SUBSET Frequent : S # {} => SumOver(EndsOf(t, S), t.sup) = Cardinality(Having(data_, m, S))

(* What is proved of the tree is what TreeKeepsSupport says of it.         *)
LEMMA KeepsIsKept ==
  ASSUME Transactions(data_), IsTree(tree), mining = "inserting"
  PROVE  KeepsSupport(tree, read) <=> TreeKeepsSupport
<1> DEFINE Rare(S) == CHOOSE y \in S : \A z \in S \ {y} : Tree!Precedes(z, y)
           Ends(S) == {n \in Tree!Node(tree) : Tree!Last(n) = Rare(S) /\ S \subseteq Tree!Range(n)}
<1>1. TreeKeepsSupport <=>
        \A S \in (SUBSET Tree!Range(Tree!freq_items_)) \ {{}} :
          Tree!SumOf(tree.sup, Ends(S)) = Tree!Cardinality(Having(data_, read, S))
  BY DEF TreeKeepsSupport, Tree!TreeKeepsSupport, Having
<1>2. \A S : Ends(S) = EndsOf(tree, S)
  BY DEF EndsOf, EndsAt, Rarest
<1> HIDE DEF Ends
<1>3. \A S : Tree!SumOf(tree.sup, EndsOf(tree, S)) = SumOver(EndsOf(tree, S), tree.sup)
  <2> SUFFICES ASSUME NEW S
               PROVE  Tree!SumOf(tree.sup, EndsOf(tree, S)) = SumOver(EndsOf(tree, S), tree.sup)
    OBVIOUS
  <2>1. IsFiniteSet(EndsOf(tree, S))
    BY FS_Subset DEF EndsOf, IsTree
  <2>2. \A n \in EndsOf(tree, S) : tree.sup[n] \in Int
    BY DEF EndsOf, IsTree
  <2> QED BY <2>1, <2>2, TreeSum
<1>4. Tree!Range(Tree!freq_items_) = Frequent
  BY FrequentListed
<1>5. TreeKeepsSupport <=>
        \A S \in (SUBSET Frequent) \ {{}} :
          SumOver(EndsOf(tree, S), tree.sup) = Cardinality(Having(data_, read, S))
  BY <1>1, <1>2, <1>3, <1>4, TreeCounts
<1> DEFINE P(S) == SumOver(EndsOf(tree, S), tree.sup) = Cardinality(Having(data_, read, S))
<1>6. (\A S \in (SUBSET Frequent) \ {{}} : P(S)) <=> (\A S \in SUBSET Frequent : S # {} => P(S))
  <2> HIDE DEF P
  <2> QED OBVIOUS
<1> QED BY <1>5, <1>6, Zenon DEF KeepsSupport

(* One more transaction counts for a set if it has the set.                *)
LEMMA HavingMore ==
  ASSUME Transactions(data_), NEW m \in 0 .. Len(data_) - 1, NEW S
  PROVE  Cardinality(Having(data_, m + 1, S)) =
           Cardinality(Having(data_, m, S)) + IF S \subseteq data_[m + 1] THEN 1 ELSE 0
<1> DEFINE H == Having(data_, m, S)
<1>0. Len(data_) \in Nat /\ m \in Nat
  BY DEF Transactions
<1>1. IsFiniteSet(H) /\ Cardinality(H) \in Nat
  <2>1. IsFiniteSet(1 .. m)
    BY <1>0, FS_Interval
  <2>2. H \in SUBSET (1 .. m)
    BY DEF Having
  <2> HIDE DEF H
  <2> QED BY <2>1, <2>2, FS_Subset, FS_CardinalityType
<1>2. m + 1 \notin H
  BY <1>0 DEF Having
<1>3. CASE S \subseteq data_[m + 1]
  <2>1. Having(data_, m + 1, S) = H \cup {m + 1}
    BY <1>0, <1>3 DEF Having
  <2> HIDE DEF H
  <2>2. Cardinality(H \cup {m + 1}) = Cardinality(H) + 1
    BY <1>1, <1>2, FS_AddElement
  <2> QED BY <1>3, <2>1, <2>2 DEF H
<1>4. CASE ~(S \subseteq data_[m + 1])
  <2>1. Having(data_, m + 1, S) = H
    BY <1>0, <1>4 DEF Having
  <2> HIDE DEF H
  <2> QED BY <1>1, <1>4, <2>1 DEF H
<1> QED BY <1>3, <1>4

(* Inserting a path adds one to the nodes on it.                           *)
Inserted(t, u, path) ==
  /\ Tree!Node(u) = Tree!Node(t) \cup Steps(path)
  /\ \A n \in Tree!Node(u) :
       u.sup[n] = (IF n \in Steps(path) THEN 1 ELSE 0) + (IF n \in Tree!Node(t) THEN t.sup[n] ELSE 0)

LEMMA InsertInserts ==
  \A t, path : Inserted(t, Tree!insert_tree(t, path), path)
BY DEF Inserted, Tree!insert_tree, Tree!Node, Steps

LEMMA StepsAreNodes ==
  ASSUME Transactions(data_), NEW items
  PROVE  /\ IsFiniteSet(Steps(Tree!order_by(items)))
         /\ \A n \in Steps(Tree!order_by(items)) : n \in Seq(Nat) /\ n # <<>>
<1> DEFINE path == Tree!order_by(items)
<1>1. path \in Seq(Nat) /\ Len(path) \in Nat
  <2>1. path \in Seq(Frequent \cap items)
    BY PathListed DEF Listed
  <2>2. Frequent \cap items \subseteq Nat
    BY PatternsAssumption DEF Frequent
  <2> HIDE DEF path
  <2> QED BY <2>1, <2>2
<1> HIDE DEF path
<1>2. \A n \in 1 .. Len(path) : SubSeq(path, 1, n) \in Seq(Nat) /\ SubSeq(path, 1, n) # <<>>
  BY <1>1, StepIs
<1>3. IsFiniteSet(Steps(path))
  <2>1. IsFiniteSet(1 .. Len(path))
    BY <1>1, FS_Interval
  <2> DEFINE s == [n \in 1 .. Len(path) |-> SubSeq(path, 1, n)]
  <2>2. s \in Surjection(1 .. Len(path), Steps(path))
    BY DEF Steps, Surjection
  <2> HIDE DEF s
  <2> QED BY <2>1, <2>2, FS_Surjection
<1> QED BY <1>2, <1>3 DEF Steps, path

(* So insert_tree keeps the supports, of every set.                        *)
LEMMA InsertKeepsSupport ==
  ASSUME Transactions(data_), IsTree(tree), NEW m \in 0 .. Len(data_) - 1, KeepsSupport(tree, m),
         NEW u, Inserted(tree, u, Tree!order_by(data_[m + 1]))
  PROVE  IsTree(u) /\ KeepsSupport(u, m + 1)
<1> DEFINE items == data_[m + 1]
           path == Tree!order_by(items)
           steps == Steps(path)
<1>1. IsFiniteSet(steps) /\ \A n \in steps : n \in Seq(Nat) /\ n # <<>>
  BY StepsAreNodes
<1>2. /\ Tree!Node(u) = Tree!Node(tree) \cup steps
      /\ \A n \in Tree!Node(u) :
           u.sup[n] = (IF n \in steps THEN 1 ELSE 0) + (IF n \in Tree!Node(tree) THEN tree.sup[n] ELSE 0)
  BY DEF Inserted
<1>p. \A S \in SUBSET Frequent : S # {} =>
        /\ ~(S \subseteq items) => \A n \in steps : ~EndsAt(n, S)
        /\ S \subseteq items =>
             \E p \in steps : EndsAt(p, S) /\ \A n \in steps : EndsAt(n, S) => n = p
  BY PathEnds
<1>h. \A S : Cardinality(Having(data_, m + 1, S)) =
               Cardinality(Having(data_, m, S)) + IF S \subseteq items THEN 1 ELSE 0
  BY HavingMore
<1> HIDE DEF items, path, steps
<1>3. IsFiniteSet(Tree!Node(u))
  BY <1>1, <1>2, FS_Union DEF IsTree
<1>4. \A n \in Tree!Node(u) : n \in Seq(Nat) /\ n # <<>> /\ u.sup[n] \in Nat
  BY <1>1, <1>2 DEF IsTree
<1>5. ASSUME NEW S \in SUBSET Frequent, S # {}
      PROVE  SumOver(EndsOf(u, S), u.sup) = Cardinality(Having(data_, m + 1, S))
  <2> DEFINE E == EndsOf(tree, S)
             F == EndsOf(u, S)
             w == tree.sup
  <2>1. SumOver(E, w) = Cardinality(Having(data_, m, S))
    BY <1>5 DEF KeepsSupport
  <2>2. IsFiniteSet(E) /\ \A n \in E : w[n] \in Int /\ n \in Tree!Node(tree)
    BY FS_Subset DEF EndsOf, IsTree
  <2>3. IsFiniteSet(F) /\ \A n \in F : u.sup[n] \in Int
    BY <1>3, <1>4, FS_Subset DEF EndsOf
  <2>s. SumOver(E, w) \in Int
    BY <2>2, SumType
  <2>4. CASE ~(S \subseteq items)
    <3>1. \A n \in steps : ~EndsAt(n, S)
      BY <1>p, <1>5, <2>4
    <3>2. F = E
      BY <1>2, <3>1 DEF EndsOf
    <3>3. \A n \in E : w[n] \in Int /\ w[n] = u.sup[n]
      <4> SUFFICES ASSUME NEW n \in E PROVE w[n] = u.sup[n]
        BY <2>2
      <4>1. n \notin steps /\ n \in Tree!Node(tree) /\ n \in Tree!Node(u)
        BY <1>2, <3>1 DEF EndsOf
      <4> QED BY <1>2, <2>2, <4>1
    <3>4. SumOver(E, w) = SumOver(E, u.sup)
      <4> HIDE DEF E, w
      <4> QED BY <2>2, <3>3, SumSame
    <3>5. SumOver(F, u.sup) = SumOver(E, w)
      <4> HIDE DEF E, F, w
      <4> QED BY <3>2, <3>4, Zenon
    <3>6. Cardinality(Having(data_, m + 1, S)) = Cardinality(Having(data_, m, S)) + 0
      BY <1>h, <2>4
    <3> HIDE DEF E, F, w
    <3> QED BY <2>1, <2>s, <3>5, <3>6 DEF F
  <2>5. CASE S \subseteq items
    <3>1. PICK p \in steps : EndsAt(p, S) /\ \A n \in steps : EndsAt(n, S) => n = p
      BY <1>p, <1>5, <2>5
    <3>2. F = E \cup {p} /\ p \in F
      BY <1>2, <3>1 DEF EndsOf
    <3>3. \A n \in E \ {p} : n \notin steps
      BY <3>1 DEF EndsOf
    <3>4. \A n \in E \ {p} : w[n] = u.sup[n] /\ w[n] \in Int
      <4> SUFFICES ASSUME NEW n \in E \ {p} PROVE w[n] = u.sup[n]
        BY <2>2
      <4>1. n \notin steps /\ n \in Tree!Node(tree) /\ n \in Tree!Node(u)
        BY <1>2, <2>2, <3>3
      <4> QED BY <1>2, <2>2, <4>1
    <3>5. SumOver(F, u.sup) = u.sup[p] + SumOver(F \ {p}, u.sup)
      <4> HIDE DEF F
      <4> QED BY <2>3, <3>2, SumWithout
    <3>6. F \ {p} = E \ {p} /\ IsFiniteSet(E \ {p})
      BY <2>2, <3>2, FS_Subset
    <3>7. SumOver(E \ {p}, w) = SumOver(E \ {p}, u.sup) /\ SumOver(E \ {p}, w) \in Int
      <4> DEFINE G == E \ {p}
      <4>1. IsFiniteSet(G) /\ \A n \in G : w[n] \in Int /\ w[n] = u.sup[n]
        BY <3>4, <3>6
      <4> HIDE DEF G, w
      <4>2. SumOver(G, w) = SumOver(G, u.sup) /\ SumOver(G, w) \in Int
        BY <4>1, SumSame, SumType
      <4> QED BY <4>2 DEF G
    <3>a. SumOver(F, u.sup) = u.sup[p] + SumOver(E \ {p}, w)
      <4> HIDE DEF E, F, w
      <4> QED BY <3>5, <3>6, <3>7
    <3>8. CASE p \in Tree!Node(tree)
      <4>1. p \in E
        BY <3>1, <3>8 DEF EndsOf
      <4>2. SumOver(E, w) = w[p] + SumOver(E \ {p}, w)
        <5> HIDE DEF E, w
        <5> QED BY <2>2, <4>1, SumWithout
      <4>3. u.sup[p] = 1 + w[p] /\ w[p] \in Int
        BY <1>2, <2>2, <3>8, <4>1
      <4> HIDE DEF E, F, w
      <4>4. SumOver(F, u.sup) = SumOver(E, w) + 1
        BY <3>a, <3>7, <4>2, <4>3
      <4> QED BY <1>h, <2>1, <2>5, <2>s, <4>4 DEF F
    <3>9. CASE p \notin Tree!Node(tree)
      <4>1. E \ {p} = E
        BY <3>9 DEF EndsOf
      <4>2. u.sup[p] = 1
        BY <1>2, <3>9
      <4> HIDE DEF E, F, w
      <4>0. SumOver(E \ {p}, w) = SumOver(E, w)
        BY <4>1, Zenon
      <4>3. SumOver(F, u.sup) = SumOver(E, w) + 1
        BY <2>s, <3>a, <4>0, <4>2
      <4> QED BY <1>h, <2>1, <2>5, <2>s, <4>3 DEF F
    <3> QED BY <3>8, <3>9
  <2> QED BY <2>4, <2>5
<1> QED BY <1>3, <1>4, <1>5 DEF IsTree, KeepsSupport

-----------------------------------------------------------------------------
(* Sequences of the elements of a set.                                     *)
LEMMA SetAsSeq ==
  ASSUME NEW S, IsFiniteSet(S)
  PROVE  Tree!SetToSeq(S) \in Seq(S) /\ Tree!Range(Tree!SetToSeq(S)) = S
<1> DEFINE c == Cardinality(S)
           s == Tree!SetToSeq(S)
           Inj(g) == \A a, b \in DOMAIN g : g[a] = g[b] => a = b
<1>1. c \in Nat /\ ExistsBijection(1 .. c, S)
  BY FS_CardinalityType
<1>2. \E g \in [1 .. c -> S] : Inj(g)
  <2> HIDE DEF c
  <2>1. PICK g : g \in Bijection(1 .. c, S)
    BY <1>1 DEF ExistsBijection
  <2>2. g \in [1 .. c -> S] /\ \A a, b \in 1 .. c : g[a] = g[b] => a = b
    BY <2>1 DEF Bijection, Injection, Surjection, IsInjective
  <2> QED BY <2>2
<1>3. s = CHOOSE g \in [1 .. c -> S] : Inj(g)
  BY TreeCounts DEF Tree!SetToSeq, Tree!IsInjective
<1> HIDE DEF s, Inj
<1>4. s \in [1 .. c -> S] /\ Inj(s)
  BY <1>2, <1>3
<1>5. s \in Injection(1 .. c, S)
  <2> HIDE DEF c
  <2> QED BY <1>4 DEF Inj, Injection, IsInjective
<1>6. s \in Surjection(1 .. c, S)
  <2>1. Cardinality(1 .. c) = c
    <3> HIDE DEF c
    <3>1. 1 \in Int /\ c \in Int
      BY <1>1
    <3>2. Cardinality(1 .. c) = IF 1 > c THEN 0 ELSE c - 1 + 1
      BY <3>1, FS_Interval
    <3> QED BY <1>1, <3>2
  <2> QED BY <1>5, <2>1, FS_Injection
<1> HIDE DEF c
<1>7. s \in Seq(S) /\ DOMAIN s = 1 .. c
  BY <1>1, <1>4
<1>8. {s[n] : n \in 1 .. c} = S
  BY <1>4, <1>6 DEF Surjection
<1> QED BY <1>7, <1>8 DEF s, Tree!Range

LEMMA BothAre ==
  ASSUME NEW X, NEW s \in Seq(X), NEW r \in Seq(X)
  PROVE  /\ s \o r \in Seq(X) /\ Len(s \o r) = Len(s) + Len(r) /\ Len(s) \in Nat /\ Len(r) \in Nat
         /\ \A n \in 1 .. Len(s) : (s \o r)[n] = s[n]
         /\ \A n \in 1 .. Len(r) : (s \o r)[n + Len(s)] = r[n]
OBVIOUS

LEMMA RangeOfBoth ==
  ASSUME NEW X, NEW s \in Seq(X), NEW r \in Seq(X)
  PROVE  s \o r \in Seq(X) /\ Tree!Range(s \o r) = Tree!Range(s) \cup Tree!Range(r)
<1>1. /\ s \o r \in Seq(X) /\ Len(s \o r) = Len(s) + Len(r) /\ Len(s) \in Nat /\ Len(r) \in Nat
      /\ \A n \in 1 .. Len(s) : (s \o r)[n] = s[n]
      /\ \A n \in 1 .. Len(r) : (s \o r)[n + Len(s)] = r[n]
  BY BothAre
<1> DEFINE b == s \o r
<1>2. DOMAIN b = 1 .. Len(s) + Len(r) /\ DOMAIN s = 1 .. Len(s) /\ DOMAIN r = 1 .. Len(r)
  BY <1>1
<1> HIDE DEF b
<1>3. ASSUME NEW n \in 1 .. Len(s) + Len(r) PROVE b[n] \in Tree!Range(s) \cup Tree!Range(r)
  <2>1. CASE n <= Len(s)
    <3>1. n \in 1 .. Len(s) /\ b[n] = s[n]
      BY <1>1, <2>1 DEF b
    <3> QED BY <1>2, <3>1 DEF Tree!Range
  <2>2. CASE n > Len(s)
    <3>1. n - Len(s) \in 1 .. Len(r) /\ n = (n - Len(s)) + Len(s)
      BY <1>1, <2>2
    <3>2. b[n] = r[n - Len(s)]
      BY <1>1, <3>1 DEF b
    <3> QED BY <1>2, <3>1, <3>2 DEF Tree!Range
  <2> QED BY <1>1, <2>1, <2>2
<1>4. ASSUME NEW n \in 1 .. Len(s) PROVE s[n] \in Tree!Range(b)
  <2>1. n \in 1 .. Len(s) + Len(r) /\ b[n] = s[n]
    BY <1>1 DEF b
  <2> QED BY <1>2, <2>1 DEF Tree!Range
<1>5. ASSUME NEW n \in 1 .. Len(r) PROVE r[n] \in Tree!Range(b)
  <2>1. n + Len(s) \in 1 .. Len(s) + Len(r) /\ b[n + Len(s)] = r[n]
    BY <1>1 DEF b
  <2> QED BY <1>2, <2>1 DEF Tree!Range
<1>6. Tree!Range(b) \subseteq Tree!Range(s) \cup Tree!Range(r)
  BY <1>2, <1>3 DEF Tree!Range
<1>7. Tree!Range(s) \cup Tree!Range(r) \subseteq Tree!Range(b)
  BY <1>2, <1>4, <1>5 DEF Tree!Range
<1> QED BY <1>1, <1>6, <1>7 DEF b

-----------------------------------------------------------------------------
(* While it is made, the nodes of the tree are paths of frequent items,    *)
(* each below its beginning and listed under its last item.                *)
HeadRecord == [item : Nat, sup : Nat, nodes : Seq(Seq(Nat))]
Trees == [sup : UNION {[N -> Nat] : N \in SUBSET Seq(Nat)},
          parent : UNION {[N -> Seq(Nat)] : N \in SUBSET Seq(Nat)},
          heads : Seq(HeadRecord)]

NodesOf(N, x) == {n \in N : Tree!Last(n) = x}

HeadsList(N, heads) ==
  /\ heads \in Seq(HeadRecord)
  /\ \A m \in DOMAIN heads : Tree!Range(heads[m].nodes) = NodesOf(N, heads[m].item)
  /\ \A m, n \in DOMAIN heads : heads[m].item = heads[n].item => m = n
  /\ \A n \in N : \E m \in DOMAIN heads : heads[m].item = Tree!Last(n)

NodesArePaths(t) ==
  /\ DOMAIN t.parent = Tree!Node(t)
  /\ \A n \in Tree!Node(t) :
       /\ Tree!Last(n) \in Frequent
       /\ t.parent[n] = Tree!Front(n) /\ Tree!Front(n) \in Tree!Node(t) \cup {<<>>}

HeadsCount(t) ==
  /\ \A m \in DOMAIN t.heads :
       t.heads[m].item \in Frequent /\ t.heads[m].sup = Tree!Support({t.heads[m].item})
  /\ \A x \in Frequent : \E m \in DOMAIN t.heads : t.heads[m].item = x

MadeTree(t) ==
  t \in Trees /\ NodesArePaths(t) /\ HeadsList(Tree!Node(t), t.heads) /\ HeadsCount(t)

(* Before the first transaction there is nothing to count.                 *)
LEMMA NothingCounted ==
  ASSUME NEW t, Tree!Node(t) = {}
  PROVE  KeepsSupport(t, 0)
<1> SUFFICES ASSUME NEW S \in SUBSET Frequent, S # {}
             PROVE  SumOver(EndsOf(t, S), t.sup) = Cardinality(Having(data_, 0, S))
  BY DEF KeepsSupport
<1>1. EndsOf(t, S) = {} /\ Having(data_, 0, S) = {}
  BY DEF EndsOf, Having
<1>2. Cardinality({}) = 0
  BY FS_EmptySet
<1>3. SumOver({}, t.sup) = 0
  BY SumEmpty
<1> QED BY <1>1, <1>2, <1>3, Zenon

LEMMA AsSeq ==
  ASSUME NEW X, NEW c \in Nat, NEW s \in [1 .. c -> X]
  PROVE  s \in Seq(X) /\ Len(s) = c
OBVIOUS

(* The head table that create_fptree begins with.                          *)
LEMMA HeadsMade ==
  ASSUME Transactions(data_), Tree!FindFreqItems, tree = Tree!EmptyTree
  PROVE  MadeTree(tree') /\ Tree!Node(tree') = {} /\ IsTree(tree')
<1> DEFINE q == Tree!freq_items_
           l == Len(q)
           r == Tree!Reverse(q)
           h == [n \in DOMAIN q |-> [item |-> r[n], sup |-> Tree!Support({r[n]}), nodes |-> <<>>]]
<1>1. Listed(q, Frequent)
  BY FrequentListed
<1>0. tree' = [sup |-> <<>>, parent |-> <<>>, heads |-> h]
  BY DEF Tree!FindFreqItems, Tree!EmptyTree
<1>2. tree'.heads = h /\ tree'.sup = <<>> /\ tree'.parent = <<>>
  BY <1>0
<1>3. r = [n \in 1 .. l |-> q[(l - n) + 1]]
  BY DEF Tree!Reverse
<1> HIDE DEF q, r
<1>4. q \in Seq(Frequent) /\ l \in Nat /\ DOMAIN q = 1 .. l /\ \A n \in 1 .. l : q[n] \in Frequent
  BY <1>1 DEF Listed
<1>5. \A n \in 1 .. l : (l - n) + 1 \in 1 .. l /\ (l - ((l - n) + 1)) + 1 = n
  BY <1>4
<1>6. \A n \in 1 .. l : r[n] = q[(l - n) + 1] /\ r[n] \in Frequent
  BY <1>3, <1>4, <1>5
<1>7. \A m, n \in 1 .. l : r[m] = r[n] => m = n
  <2> SUFFICES ASSUME NEW m \in 1 .. l, NEW n \in 1 .. l, r[m] = r[n] PROVE m = n
    OBVIOUS
  <2> DEFINE a == (l - m) + 1
             b == (l - n) + 1
  <2>1. a \in 1 .. l /\ b \in 1 .. l /\ q[a] = q[b]
    BY <1>5, <1>6
  <2> HIDE DEF a, b
  <2>2. ~(a < b) /\ ~(b < a)
    <3>1. (a < a <=> Tree!Precedes(q[a], q[a])) /\ ~(a < a)
      BY <1>1, <1>4, <2>1 DEF Listed
    <3>2. a < b <=> Tree!Precedes(q[a], q[b])
      BY <1>1, <2>1 DEF Listed
    <3>3. b < a <=> Tree!Precedes(q[b], q[a])
      BY <1>1, <2>1 DEF Listed
    <3> QED BY <2>1, <3>1, <3>2, <3>3
  <2>3. a = b
    BY <1>4, <2>1, <2>2
  <2> QED BY <1>4, <2>3 DEF a, b
<1>8. \A x \in Frequent : \E n \in 1 .. l : r[n] = x
  <2> SUFFICES ASSUME NEW x \in Frequent PROVE \E n \in 1 .. l : r[n] = x
    OBVIOUS
  <2>1. PICK n \in 1 .. l : q[n] = x
    BY <1>1 DEF Listed
  <2>2. r[(l - n) + 1] = x /\ (l - n) + 1 \in 1 .. l
    BY <1>5, <1>6, <2>1
  <2> QED BY <2>2
<1>9. \A n \in 1 .. l : h[n] = [item |-> r[n], sup |-> Tree!Support({r[n]}), nodes |-> <<>>]
  BY <1>4
<1>10. DOMAIN h = 1 .. l
  BY <1>4
<1> HIDE DEF h, l
<1>11. Tree!Node(tree') = {}
  BY <1>2 DEF Tree!Node
<1>12. NodesArePaths(tree')
  BY <1>2, <1>11 DEF NodesArePaths
<1>13. ASSUME NEW n \in 1 .. l
       PROVE  h[n].item = r[n] /\ h[n].sup = Tree!Support({r[n]}) /\ h[n].nodes = <<>>
  <2> DEFINE supp == Tree!Support({r[n]})
             rec == [item |-> r[n], sup |-> supp, nodes |-> <<>>]
  <2>1. h[n] = rec
    BY <1>9
  <2> HIDE DEF supp
  <2>2. rec.item = r[n] /\ rec.sup = supp /\ rec.nodes = <<>>
    OBVIOUS
  <2> QED BY <2>1, <2>2 DEF supp
<1>14. HeadsList({}, h)
  <2>1. \A n \in 1 .. l : [item |-> r[n], sup |-> Tree!Support({r[n]}), nodes |-> <<>>] \in HeadRecord
    <3> SUFFICES ASSUME NEW n \in 1 .. l
                 PROVE  [item |-> r[n], sup |-> Tree!Support({r[n]}), nodes |-> <<>>] \in HeadRecord
      OBVIOUS
    <3> DEFINE Nodes == Seq(Seq(Nat))
               supp == Tree!Support({r[n]})
    <3>1. r[n] \in Nat
      <4>1. Frequent \subseteq Nat
        BY PatternsAssumption DEF Frequent
      <4> QED BY <1>6, <4>1
    <3>2. supp \in Nat
      BY SupportsAreNumbers
    <3>3. <<>> \in Nodes
      OBVIOUS
    <3> HIDE DEF Nodes, supp
    <3> QED BY <3>1, <3>2, <3>3 DEF HeadRecord, Nodes, supp
  <2>2. h \in Seq(HeadRecord)
    <3>1. h \in [1 .. l -> HeadRecord]
      BY <1>10, <2>1 DEF h
    <3> QED BY <1>4, <3>1, AsSeq
  <2>3. \A n \in 1 .. l : Tree!Range(h[n].nodes) = NodesOf({}, h[n].item)
    <3>1. \A n \in 1 .. l : h[n].nodes = <<>>
      BY <1>13
    <3>2. Tree!Range(<<>>) = {}
      BY DEF Tree!Range
    <3>3. \A x : NodesOf({}, x) = {}
      BY DEF NodesOf
    <3> QED BY <3>1, <3>2, <3>3
  <2>4. \A m, n \in 1 .. l : h[m].item = h[n].item => m = n
    <3>1. \A n \in 1 .. l : h[n].item = r[n]
      BY <1>13
    <3> QED BY <1>7, <3>1
  <2> QED BY <1>10, <2>2, <2>3, <2>4 DEF HeadsList
<1>15. HeadsCount(tree')
  <2>1. \A n \in 1 .. l : h[n].item \in Frequent /\ h[n].sup = Tree!Support({h[n].item})
    BY <1>6, <1>13
  <2>2. \A x \in Frequent : \E m \in 1 .. l : h[m].item = x
    BY <1>8, <1>13
  <2> QED BY <1>2, <1>10, <2>1, <2>2 DEF HeadsCount
<1>16. IsTree(tree')
  BY <1>11, FS_EmptySet DEF IsTree
<1>17. tree' \in Trees
  <2>2. <<>> \in [{} -> Nat] /\ <<>> \in [{} -> Seq(Nat)] /\ {} \in SUBSET Seq(Nat)
    OBVIOUS
  <2>3. h \in Seq(HeadRecord)
    BY <1>14 DEF HeadsList
  <2> QED BY <1>0, <2>2, <2>3 DEF Trees
<1> QED BY <1>2, <1>11, <1>12, <1>14, <1>15, <1>16, <1>17 DEF MadeTree

(* Each step but the first is below another.                               *)
LEMMA StepBefore ==
  ASSUME NEW X, NEW path \in Seq(X), NEW n \in 1 .. Len(path)
  PROVE  Tree!Front(SubSeq(path, 1, n)) = IF n = 1 THEN <<>> ELSE SubSeq(path, 1, n - 1)
<1> DEFINE s == SubSeq(path, 1, n)
           b == SubSeq(path, 1, n - 1)
<1>1. s \in Seq(X) /\ Len(s) = n /\ \A m \in 1 .. n : s[m] = path[m]
  OBVIOUS
<1>2. b \in Seq(X) /\ Len(b) = n - 1 /\ \A m \in 1 .. n - 1 : b[m] = path[m]
  OBVIOUS
<1>3. Tree!Front(s) = SubSeq(s, 1, n - 1)
  BY <1>1 DEF Tree!Front
<1> HIDE DEF s, b
<1> DEFINE q == SubSeq(s, 1, n - 1)
<1>4. q \in Seq(X) /\ Len(q) = n - 1 /\ \A m \in 1 .. n - 1 : q[m] = s[m]
  BY <1>1
<1> HIDE DEF q
<1>5. q = b
  BY <1>1, <1>2, <1>4
<1>6. n = 1 => q = <<>>
  BY <1>4
<1> QED BY <1>3, <1>5, <1>6 DEF q, b, s

(* Inserting the frequent items of a transaction.                          *)
LEMMA InsertMakes ==
  ASSUME Transactions(data_), NEW items, NEW t, IsTree(t), MadeTree(t),
         NEW u, IsTree(u), u = Tree!insert_tree(t, Tree!order_by(items))
  PROVE  MadeTree(u)
<1> DEFINE path == Tree!order_by(items)
           steps == Steps(path)
           N == Tree!Node(t)
           H == t.heads
           Made(m) == {n \in steps \ N : Tree!Last(n) = H[m].item}
           New(m) == [H[m] EXCEPT !.nodes = Tree!SetToSeq(Made(m)) \o @]
<1>1. path \in Seq(Frequent) /\ Len(path) \in Nat /\ Frequent \subseteq Nat
  <2>1. path \in Seq(Frequent \cap items)
    BY PathListed DEF Listed
  <2>2. Frequent \subseteq Nat
    BY PatternsAssumption DEF Frequent
  <2> HIDE DEF path
  <2> QED BY <2>1, <2>2
<1>2. /\ u.parent = [n \in N \cup steps |-> Tree!Front(n)] /\ Tree!Node(u) = N \cup steps
      /\ u.heads = [m \in DOMAIN H |-> New(m)]
      /\ u = [sup |-> u.sup, parent |-> u.parent, heads |-> u.heads]
  BY DEF Tree!insert_tree, Tree!Node, Steps
<1>3. IsFiniteSet(steps) /\ \A n \in steps : n \in Seq(Nat) /\ n # <<>>
  BY StepsAreNodes
<1> HIDE DEF path
<1>4. ASSUME NEW n \in steps
      PROVE  Tree!Last(n) \in Frequent /\ Tree!Front(n) \in steps \cup {<<>>}
  <2>1. PICK m \in 1 .. Len(path) : n = SubSeq(path, 1, m)
    BY DEF Steps
  <2>2. Tree!Last(n) = path[m] /\ path[m] \in Frequent
    BY <1>1, <2>1, StepIs
  <2>3. Tree!Front(n) = IF m = 1 THEN <<>> ELSE SubSeq(path, 1, m - 1)
    BY <1>1, <2>1, StepBefore
  <2>4. m # 1 => SubSeq(path, 1, m - 1) \in steps
    <3>1. m # 1 => m - 1 \in 1 .. Len(path)
      BY <1>1
    <3> QED BY <3>1 DEF Steps
  <2> QED BY <2>2, <2>3, <2>4
<1> HIDE DEF steps, New, N
<1>5. NodesArePaths(u)
  BY <1>2, <1>4 DEF NodesArePaths, MadeTree, N
<1>6. H \in Seq(HeadRecord) /\ DOMAIN H = 1 .. Len(H) /\ Len(H) \in Nat
  BY DEF MadeTree, HeadsList
<1>7. ASSUME NEW m \in DOMAIN H
      PROVE  /\ New(m) \in HeadRecord /\ New(m).item = H[m].item /\ New(m).sup = H[m].sup
             /\ Tree!Range(New(m).nodes) = NodesOf(N \cup steps, H[m].item)
  <2> DEFINE s == Tree!SetToSeq(Made(m))
             b == s \o H[m].nodes
             S == Seq(Seq(Nat))
  <2>1. IsFiniteSet(Made(m)) /\ Made(m) \subseteq Seq(Nat)
    BY <1>3, FS_Subset
  <2>2. s \in S /\ Tree!Range(s) = Made(m)
    <3> HIDE DEF Made
    <3>1. s \in Seq(Made(m)) /\ Tree!Range(s) = Made(m)
      BY <2>1, SetAsSeq
    <3> QED BY <2>1, <3>1
  <2>3. H[m] \in [item : Nat, sup : Nat, nodes : S]
    <3>1. H[m] \in HeadRecord
      BY <1>6
    <3> QED BY <3>1 DEF HeadRecord
  <2>4. Tree!Range(H[m].nodes) = NodesOf(N, H[m].item)
    BY DEF MadeTree, HeadsList, N
  <2>5. b \in S /\ Tree!Range(b) = Made(m) \cup NodesOf(N, H[m].item)
    <3> HIDE DEF s, Made
    <3>1. H[m].nodes \in Seq(Seq(Nat)) /\ s \in Seq(Seq(Nat))
      BY <2>2, <2>3
    <3> QED BY <2>2, <2>4, <3>1, RangeOfBoth
  <2>6. Made(m) \cup NodesOf(N, H[m].item) = NodesOf(N \cup steps, H[m].item)
    BY DEF NodesOf
  <2>7. New(m) = [H[m] EXCEPT !.nodes = b]
    BY DEF New
  <2> HIDE DEF b, S
  <2>8. New(m) = [item |-> H[m].item, sup |-> H[m].sup, nodes |-> b]
    BY <2>3, <2>7
  <2> DEFINE nodes == b
  <2>9. New(m) \in [item : Nat, sup : Nat, nodes : S]
    BY <2>3, <2>5, <2>8
  <2>10. New(m).item = H[m].item /\ New(m).sup = H[m].sup /\ New(m).nodes = b
    BY <2>8
  <2> QED BY <2>5, <2>6, <2>9, <2>10 DEF HeadRecord, S
<1>8. HeadsList(N \cup steps, u.heads)
  <2>1. u.heads \in Seq(HeadRecord)
    <3>1. u.heads \in [1 .. Len(H) -> HeadRecord]
      BY <1>2, <1>6, <1>7
    <3> QED BY <1>6, <3>1, AsSeq
  <2>2. \A m \in DOMAIN H : u.heads[m].item = H[m].item /\
           Tree!Range(u.heads[m].nodes) = NodesOf(N \cup steps, H[m].item)
    BY <1>2, <1>7
  <2>3. \A m, n \in DOMAIN H : H[m].item = H[n].item => m = n
    BY DEF MadeTree, HeadsList
  <2>4. \A n \in N \cup steps : \E m \in DOMAIN H : H[m].item = Tree!Last(n)
    BY <1>4 DEF MadeTree, NodesArePaths, HeadsCount, N
  <2>5. DOMAIN u.heads = DOMAIN H
    BY <1>2
  <2> QED BY <2>1, <2>2, <2>3, <2>4, <2>5 DEF HeadsList
<1>9. HeadsCount(u)
  <2>1. \A m \in DOMAIN H : u.heads[m].item = H[m].item /\ u.heads[m].sup = H[m].sup
    BY <1>2, <1>7
  <2>2. DOMAIN u.heads = DOMAIN H
    BY <1>2
  <2> QED BY <2>1, <2>2 DEF MadeTree, HeadsCount
<1>10. u \in Trees
  <2>1. N \cup steps \in SUBSET Seq(Nat)
    BY <1>3 DEF IsTree, N
  <2>2. u.parent \in [N \cup steps -> Seq(Nat)]
    <3>1. \A n \in N \cup steps : Tree!Front(n) \in N \cup steps \cup {<<>>}
      BY <1>4 DEF MadeTree, NodesArePaths, N
    <3>2. <<>> \in Seq(Nat)
      OBVIOUS
    <3>3. \A n \in N \cup steps : Tree!Front(n) \in Seq(Nat)
      BY <2>1, <3>1, <3>2
    <3> QED BY <1>2, <3>3
  <2>3. u.sup \in [N \cup steps -> Nat]
    <3>1. \A n \in N \cup steps : u.sup[n] \in Nat
      BY <1>2 DEF IsTree
    <3>2. u.sup = [n \in N \cup steps |-> u.sup[n]]
      BY DEF Tree!insert_tree, Tree!Node, N, steps, Steps, path
    <3> QED BY <3>1, <3>2
  <2>4. u.heads \in Seq(HeadRecord)
    BY <1>8 DEF HeadsList
  <2> DEFINE M == N \cup steps
             Sups == UNION {[X -> Nat] : X \in SUBSET Seq(Nat)}
             Parents == UNION {[X -> Seq(Nat)] : X \in SUBSET Seq(Nat)}
  <2>5. u.sup \in Sups /\ u.parent \in Parents
    BY <2>1, <2>2, <2>3
  <2> HIDE DEF Sups, Parents
  <2>6. [sup |-> u.sup, parent |-> u.parent, heads |-> u.heads] \in [sup : Sups, parent : Parents, heads : Seq(HeadRecord)]
    BY <2>4, <2>5
  <2> QED BY <1>2, <2>6 DEF Trees, Sups, Parents
<1> QED BY <1>2, <1>5, <1>8, <1>9, <1>10 DEF MadeTree

-----------------------------------------------------------------------------
(* Trees whose links and heads are in order, whatever they are made of.    *)
ParentsAbove(t) ==
  /\ DOMAIN t.parent = Tree!Node(t)
  /\ \A n \in Tree!Node(t) :
       t.parent[n] = <<>> \/ (t.parent[n] \in Tree!Node(t) /\ Len(t.parent[n]) < Len(n))

HeadsSum(N, sup, heads) ==
  \A m \in DOMAIN heads : heads[m].sup = SumOver(NodesOf(N, heads[m].item), sup)

SoundTree(t) ==
  /\ t \in Trees /\ IsTree(t) /\ ParentsAbove(t)
  /\ HeadsList(Tree!Node(t), t.heads) /\ HeadsSum(Tree!Node(t), t.sup, t.heads)

(* It is what the property says.                                           *)
LEMMA SoundIsSound ==
  ASSUME NEW t, SoundTree(t)
  PROVE  /\ \A n \in Tree!Node(t) :
              /\ t.parent[n] \in Tree!Node(t) \cup {<<>>}
              /\ Tree!HasHead(t, Tree!Last(n))
              /\ n \in Tree!Range(t.heads[Tree!HeadOf(t, Tree!Last(n))].nodes)
         /\ \A m \in DOMAIN t.heads :
              t.heads[m].sup = Tree!SumOf(t.sup, Tree!Range(t.heads[m].nodes))
<1>1. ASSUME NEW n \in Tree!Node(t)
      PROVE  /\ t.parent[n] \in Tree!Node(t) \cup {<<>>}
             /\ Tree!HasHead(t, Tree!Last(n))
             /\ n \in Tree!Range(t.heads[Tree!HeadOf(t, Tree!Last(n))].nodes)
  <2> DEFINE x == Tree!Last(n)
             h == Tree!HeadOf(t, x)
  <2>1. \E m \in DOMAIN t.heads : t.heads[m].item = x
    BY DEF SoundTree, HeadsList
  <2>2. h \in DOMAIN t.heads /\ t.heads[h].item = x
    BY <2>1 DEF Tree!HeadOf
  <2> HIDE DEF h
  <2>3. n \in Tree!Range(t.heads[h].nodes)
    BY <2>2 DEF SoundTree, HeadsList, NodesOf
  <2> QED BY <2>1, <2>3 DEF Tree!HasHead, SoundTree, ParentsAbove, h
<1>2. ASSUME NEW m \in DOMAIN t.heads
      PROVE  t.heads[m].sup = Tree!SumOf(t.sup, Tree!Range(t.heads[m].nodes))
  <2> DEFINE D == NodesOf(Tree!Node(t), t.heads[m].item)
  <2>1. IsFiniteSet(D) /\ \A n \in D : t.sup[n] \in Int
    BY FS_Subset DEF SoundTree, IsTree, NodesOf
  <2>2. Tree!Range(t.heads[m].nodes) = D /\ t.heads[m].sup = SumOver(D, t.sup)
    BY DEF SoundTree, HeadsList, HeadsSum
  <2> HIDE DEF D
  <2> QED BY <2>1, <2>2, TreeSum
<1> QED BY <1>1, <1>2

(* The tree of all transactions is one.                                    *)
LEMMA MadeIsSound ==
  ASSUME Transactions(data_), NEW t, IsTree(t), MadeTree(t), KeepsSupport(t, Len(data_))
  PROVE  SoundTree(t)
<1> DEFINE N == Tree!Node(t)
<1>1. ParentsAbove(t)
  <2>1. ASSUME NEW n \in N, Tree!Front(n) # <<>> PROVE Len(Tree!Front(n)) < Len(n)
    <3>1. n \in Seq(Nat) /\ n # <<>>
      BY DEF IsTree
    <3>2. Len(n) \in Nat /\ Len(n) # 0
      BY <3>1
    <3> DEFINE l == Len(n) - 1
               q == SubSeq(n, 1, l)
    <3>3. Len(q) = l
      <4>1. l \in Nat /\ l <= Len(n)
        BY <3>2
      <4> HIDE DEF l
      <4> QED BY <3>1, <4>1
    <3> QED BY <3>2, <3>3 DEF Tree!Front
  <2> QED BY <2>1 DEF ParentsAbove, MadeTree, NodesArePaths
<1>2. ASSUME NEW x \in Frequent PROVE Tree!Support({x}) = SumOver(NodesOf(N, x), t.sup)
  <2>1. {x} \in SUBSET Frequent /\ {x} # {}
    OBVIOUS
  <2>2. Rarest({x}) = x
    BY <2>1, RarestIs
  <2>3. SumOver(EndsOf(t, {x}), t.sup) = Cardinality(Having(data_, Len(data_), {x}))
    BY <2>1 DEF KeepsSupport
  <2>4. Having(data_, Len(data_), {x}) = {n \in DOMAIN data_ : {x} \subseteq data_[n]}
    BY DEF Having, Transactions
  <2>5. EndsOf(t, {x}) = NodesOf(N, x)
    <3>1. ASSUME NEW n \in N, Tree!Last(n) = x PROVE {x} \subseteq Tree!Range(n)
      <4>1. n \in Seq(Nat) /\ n # <<>>
        BY DEF IsTree
      <4>2. Len(n) \in DOMAIN n
        BY <4>1
      <4> QED BY <3>1, <4>2 DEF Tree!Last, Tree!Range
    <3> QED BY <2>2, <3>1 DEF EndsOf, EndsAt, NodesOf
  <2> QED BY <2>3, <2>4, <2>5, TreeCounts DEF Tree!Support
<1>3. HeadsSum(N, t.sup, t.heads)
  BY <1>2 DEF HeadsSum, MadeTree, HeadsCount
<1> QED BY <1>1, <1>3 DEF SoundTree, MadeTree

-----------------------------------------------------------------------------
(* Recursion along links that lead to smaller things.                      *)
LinksDown(N, up, len) == \A n \in N : len[n] \in Nat /\ (up[n] \in N => len[up[n]] < len[n])

Carries(N, up, T) == \A n \in N : (up[n] \in N => up[n] \in T) => n \in T

(* What is so above is so below: induction along links that shorten a      *)
(* node.                                                                   *)
LEMMA DownInduction ==
  ASSUME NEW N, NEW up, NEW len, LinksDown(N, up, len),
         NEW T \in SUBSET N, Carries(N, up, T)
  PROVE  T = N
<1> DEFINE Bad == {len[n] : n \in N \ T}
<1> SUFFICES ASSUME N \ T # {} PROVE FALSE
  OBVIOUS
<1>1. Bad \in SUBSET Nat /\ Bad # {}
  BY DEF LinksDown
<1>2. PICK k0 \in Bad : \A j \in Bad : k0 <= j
  <2> HIDE DEF Bad
  <2> QED BY <1>1, MinNat
<1>3. PICK n \in N \ T : len[n] = k0
  BY <1>2
<1>4. up[n] \in N /\ up[n] \notin T
  BY <1>3 DEF Carries
<1>5. len[up[n]] \in Bad /\ len[up[n]] < len[n] /\ len[n] \in Nat /\ len[up[n]] \in Nat
  BY <1>3, <1>4 DEF LinksDown
<1> QED BY <1>2, <1>3, <1>5

IsAlong(w, N, up, base, step) ==
  \A n \in N : w[n] = IF up[n] \in N THEN step[n][w[up[n]]] ELSE base[n]

(* A function that is defined by what it is on the other end of a link     *)
(* exists.                                                                 *)
LEMMA AlongExists ==
  ASSUME NEW N, NEW up, NEW len, LinksDown(N, up, len), NEW m \in Nat, \A n \in N : len[n] < m,
         NEW V, NEW base \in [N -> V], NEW step \in [N -> [V -> V]]
  PROVE  \E w \in [N -> V] : IsAlong(w, N, up, base, step)
<1> DEFINE W == [N -> V]
           Next1(w) == [n \in N |-> IF up[n] \in N THEN step[n][w[up[n]]] ELSE base[n]]
           more == [j \in 1 .. m |-> [w \in W |-> Next1(w)]]
<1>1. ASSUME NEW w \in W PROVE Next1(w) \in W
  <2>1. ASSUME NEW n \in N PROVE (IF up[n] \in N THEN step[n][w[up[n]]] ELSE base[n]) \in V
    <3>1. CASE up[n] \in N
      <4>1. w[up[n]] \in V /\ step[n] \in [V -> V]
        BY <3>1
      <4> QED BY <3>1, <4>1
    <3>2. CASE up[n] \notin N
      BY <3>2
    <3> QED BY <3>1, <3>2
  <2> QED BY <2>1
<1>2. more \in [1 .. m -> [W -> W]]
  <2> HIDE DEF Next1, W
  <2> QED BY <1>1
<1>3. PICK it \in [0 .. m -> W] : IsRecursion(it, m, base, more)
  <2> HIDE DEF more
  <2>1. base \in W
    OBVIOUS
  <2> HIDE DEF W
  <2> QED BY <1>2, <2>1, RecursionExists
<1>4. ASSUME NEW j \in 1 .. m PROVE it[j] = Next1(it[j - 1]) /\ it[j - 1] \in W
  <2>1. j \in 0 .. m /\ j - 1 \in 0 .. m /\ j # 0
    OBVIOUS
  <2>2. it[j] = more[j][it[j - 1]] /\ it[j - 1] \in W
    BY <1>3, <2>1 DEF IsRecursion
  <2> HIDE DEF W, Next1
  <2> QED BY <2>2
<1> HIDE DEF more
<1>5. ASSUME NEW j \in 1 .. m, NEW n \in N
      PROVE  it[j][n] = IF up[n] \in N THEN step[n][it[j - 1][up[n]]] ELSE base[n]
  <2> DEFINE w == it[j - 1]
  <2>1. it[j] = Next1(w)
    BY <1>4
  <2> HIDE DEF w
  <2>2. Next1(w)[n] = IF up[n] \in N THEN step[n][w[up[n]]] ELSE base[n]
    OBVIOUS
  <2> HIDE DEF Next1
  <2> QED BY <2>1, <2>2 DEF w
<1> DEFINE T == {n \in N : \A j \in 1 .. m : len[n] < j => it[j][n] = it[m][n]}
<1>6. ASSUME NEW n \in N, up[n] \in N => up[n] \in T PROVE n \in T
  <2> SUFFICES ASSUME NEW j \in 1 .. m, len[n] < j PROVE it[j][n] = it[m][n]
    OBVIOUS
  <2>1. m \in 1 .. m /\ len[n] \in Nat /\ j \in Int /\ len[n] < m
    BY DEF LinksDown
  <2>2. it[j][n] = IF up[n] \in N THEN step[n][it[j - 1][up[n]]] ELSE base[n]
    BY <1>5
  <2>3. it[m][n] = IF up[n] \in N THEN step[n][it[m - 1][up[n]]] ELSE base[n]
    BY <1>5, <2>1
  <2>4. CASE up[n] \in N
    <3>1. len[up[n]] \in Nat /\ len[up[n]] < len[n]
      BY <2>4 DEF LinksDown
    <3>2. j - 1 \in 1 .. m /\ len[up[n]] < j - 1 /\ m - 1 \in 1 .. m /\ len[up[n]] < m - 1
      BY <2>1, <3>1
    <3>3. it[j - 1][up[n]] = it[m][up[n]] /\ it[m - 1][up[n]] = it[m][up[n]]
      BY <1>6, <2>4, <3>2
    <3> QED BY <2>2, <2>3, <2>4, <3>3
  <2>5. CASE up[n] \notin N
    BY <2>2, <2>3, <2>5
  <2> QED BY <2>4, <2>5
<1>7. T = N
  <2>1. T \in SUBSET N
    OBVIOUS
  <2>2. Carries(N, up, T)
    <3> HIDE DEF T
    <3> QED BY <1>6 DEF Carries
  <2> HIDE DEF T
  <2> QED BY <2>1, <2>2, DownInduction
<1>8. it[m] \in W
  BY <1>3
<1>9. IsAlong(it[m], N, up, base, step)
  <2> SUFFICES ASSUME NEW n \in N
               PROVE  it[m][n] = IF up[n] \in N THEN step[n][it[m][up[n]]] ELSE base[n]
    BY DEF IsAlong
  <2>1. m \in 1 .. m /\ len[n] \in Nat /\ len[n] < m
    BY DEF LinksDown
  <2>2. it[m][n] = IF up[n] \in N THEN step[n][it[m - 1][up[n]]] ELSE base[n]
    BY <1>5, <2>1
  <2>3. CASE up[n] \in N
    <3>1. len[up[n]] \in Nat /\ len[up[n]] < len[n] /\ up[n] \in T
      BY <1>7, <2>3 DEF LinksDown
    <3>2. m - 1 \in 1 .. m /\ len[up[n]] < m - 1
      BY <2>1, <3>1
    <3> QED BY <2>2, <2>3, <3>1, <3>2
  <2> QED BY <2>2, <2>3
<1> HIDE DEF W
<1> QED BY <1>8, <1>9 DEF W

(* The lengths of finitely many sequences are bounded.                     *)
LEMMA LengthsAreBounded ==
  ASSUME NEW N, IsFiniteSet(N), NEW len, \A n \in N : len[n] \in Nat
  PROVE  \E m \in Nat : \A n \in N : len[n] < m
<1> DEFINE T == {s \in SUBSET N : \E m \in Nat : \A n \in s : len[n] < m}
<1>1. {} \in T
  <2>1. \A n \in {} : len[n] < 0
    OBVIOUS
  <2> QED BY <2>1
<1>2. ASSUME NEW s \in SUBSET N, NEW x \in s, s \ {x} \in T PROVE s \in T
  <2>1. PICK m \in Nat : \A n \in s \ {x} : len[n] < m
    BY <1>2
  <2>2. m + len[x] + 1 \in Nat
    OBVIOUS
  <2>3. \A n \in s : len[n] < m + len[x] + 1
    <3> SUFFICES ASSUME NEW n \in s PROVE len[n] < m + len[x] + 1
      OBVIOUS
    <3>1. len[n] \in Nat /\ len[x] \in Nat
      OBVIOUS
    <3>2. n # x => len[n] < m
      BY <2>1
    <3> QED BY <3>1, <3>2
  <2> QED BY <2>2, <2>3
<1>3. SUBSET N \subseteq T
  <2> HIDE DEF T
  <2> QED BY <1>1, <1>2, SubsetInduction
<1> QED BY <1>3

-----------------------------------------------------------------------------
(* The way up follows the parents (WayUp).                                 *)
IsWay(t, s) ==
  /\ s \in Seq(Tree!Node(t)) /\ Len(s) >= 1
  /\ \A j \in 1 .. Len(s) - 1 : s[j + 1] = t.parent[s[j]]

IsBoth(b, s, r) ==
  /\ Len(b) = Len(s) + Len(r)
  /\ \A n \in 1 .. Len(s) : b[n] = s[n]
  /\ \A n \in 1 .. Len(r) : b[n + Len(s)] = r[n]

LEMMA BothIs ==
  ASSUME NEW X, NEW s \in Seq(X), NEW r \in Seq(X)
  PROVE  s \o r \in Seq(X) /\ IsBoth(s \o r, s, r)
BY BothAre DEF IsBoth

(* The first node of a way, and what comes after it.                       *)
LEMMA FirstIs ==
  ASSUME NEW N, NEW n \in N, NEW s \in Seq(N)
  PROVE  /\ <<n>> \o s \in Seq(N) /\ Len(<<n>> \o s) = Len(s) + 1
         /\ (<<n>> \o s)[1] = n /\ \A j \in 1 .. Len(s) : (<<n>> \o s)[j + 1] = s[j]
<1> DEFINE e == <<n>>
           b == e \o s
<1>1. e \in Seq(N) /\ Len(e) = 1 /\ e[1] = n
  OBVIOUS
<1>2. b \in Seq(N) /\ IsBoth(b, e, s)
  <2> HIDE DEF e
  <2> QED BY <1>1, BothIs
<1> HIDE DEF e, b
<1>5. Len(b) = Len(s) + 1 /\ b[1] = n /\ Len(s) \in Nat
  BY <1>1, <1>2 DEF IsBoth
<1>6. \A j \in 1 .. Len(s) : b[j + 1] = s[j]
  BY <1>1, <1>2 DEF IsBoth
<1> QED BY <1>2, <1>5, <1>6 DEF b, e

LEMMA WayGrows ==
  ASSUME NEW t, NEW n \in Tree!Node(t), NEW s, IsWay(t, s), s[1] = t.parent[n]
  PROVE  IsWay(t, <<n>> \o s) /\ (<<n>> \o s)[1] = n
<1> DEFINE N == Tree!Node(t)
           b == <<n>> \o s
<1>1. s \in Seq(N) /\ Len(s) \in Nat /\ Len(s) >= 1
  BY DEF IsWay
<1>2. b \in Seq(N) /\ Len(b) = Len(s) + 1 /\ b[1] = n /\ \A j \in 1 .. Len(s) : b[j + 1] = s[j]
  <2>1. n \in N /\ s \in Seq(N)
    BY <1>1
  <2> HIDE DEF N
  <2> QED BY <2>1, FirstIs
<1> HIDE DEF b
<1>3. ASSUME NEW j \in 1 .. Len(b) - 1 PROVE b[j + 1] = t.parent[b[j]]
  <2>1. j \in 1 .. Len(s) /\ b[j + 1] = s[j]
    BY <1>1, <1>2
  <2>2. CASE j = 1
    BY <1>2, <2>1, <2>2
  <2>3. CASE j # 1
    <3>1. j - 1 \in 1 .. Len(s) - 1 /\ j - 1 \in 1 .. Len(s) /\ (j - 1) + 1 = j
      BY <1>1, <2>1, <2>3
    <3>2. b[j] = s[j - 1] /\ s[j] = t.parent[s[j - 1]]
      BY <1>2, <3>1 DEF IsWay
    <3> QED BY <2>1, <3>2
  <2> QED BY <2>2, <2>3
<1> QED BY <1>1, <1>2, <1>3 DEF IsWay, b

(* The way up is a way in the tree, from the node.                         *)
LEMMA WayIs ==
  ASSUME NEW t, SoundTree(t), NEW node \in Tree!Node(t)
  PROVE  IsWay(t, Tree!WayUp(t, node))
<1> DEFINE N == Tree!Node(t)
           up == t.parent
           len == [n \in N |-> Len(n)]
           V == Seq(N)
           base == [n \in N |-> <<n>>]
           step == [n \in N |-> [s \in V |-> <<n>> \o s]]
           Is(w) == w = [n \in N |-> <<n>> \o (IF up[n] = <<>> THEN <<>> ELSE w[up[n]])]
           way == CHOOSE w : Is(w)
<1>1. Tree!WayUp(t, node) = way[node]
  BY DEF Tree!WayUp
<1>2. \A n \in N : n # <<>> /\ Len(n) \in Nat /\ (up[n] = <<>> \/ (up[n] \in N /\ Len(up[n]) < Len(n)))
  BY DEF SoundTree, ParentsAbove, IsTree
<1>3. LinksDown(N, up, len)
  BY <1>2 DEF LinksDown
<1>4. PICK m \in Nat : \A n \in N : len[n] < m
  <2>1. IsFiniteSet(N) /\ \A n \in N : len[n] \in Nat
    BY <1>2 DEF SoundTree, IsTree
  <2> HIDE DEF N, len
  <2> QED BY <2>1, LengthsAreBounded
<1>5. PICK w \in [N -> V] : IsAlong(w, N, up, base, step)
  <2>1. base \in [N -> V] /\ step \in [N -> [V -> V]]
    OBVIOUS
  <2> HIDE DEF N, V, len, base, step, up
  <2> QED BY <1>3, <1>4, <2>1, AlongExists
<1>6. Is(w)
  <2> SUFFICES ASSUME NEW n \in N
               PROVE  w[n] = <<n>> \o (IF up[n] = <<>> THEN <<>> ELSE w[up[n]])
    BY <1>5
  <2>1. w[n] = IF up[n] \in N THEN step[n][w[up[n]]] ELSE base[n]
    BY <1>5 DEF IsAlong
  <2>2. CASE up[n] = <<>>
    <3>1. up[n] \notin N /\ w[n] = <<n>>
      BY <1>2, <2>1, <2>2
    <3> QED BY <2>2, <3>1
  <2>3. CASE up[n] # <<>>
    <3>1. up[n] \in N /\ w[up[n]] \in V
      BY <1>2, <1>5, <2>3
    <3>2. step[n][w[up[n]]] = <<n>> \o w[up[n]]
      <4> HIDE DEF up, N, V
      <4> QED BY <3>1
    <3> QED BY <2>1, <2>3, <3>1, <3>2
  <2> QED BY <2>2, <2>3
<1>7. Is(way)
  <2> HIDE DEF Is
  <2> QED BY <1>6
<1>8. \A n \in N : way[n] = <<n>> \o (IF up[n] = <<>> THEN <<>> ELSE way[up[n]])
  <2> HIDE DEF way
  <2> QED BY <1>7
<1> HIDE DEF way, len
<1> DEFINE T == {n \in N : IsWay(t, way[n]) /\ way[n][1] = n}
<1>9. ASSUME NEW n \in N, up[n] \in N => up[n] \in T PROVE n \in T
  <2>1. CASE up[n] = <<>>
    <3> DEFINE e == <<n>>
    <3>1. e \in Seq(N) /\ Len(e) = 1 /\ e[1] = n
      OBVIOUS
    <3>2. way[n] = e \o <<>>
      BY <1>8, <2>1
    <3> HIDE DEF e
    <3>3. e \o <<>> = e
      BY <3>1
    <3>4. \A j \in 1 .. Len(e) - 1 : FALSE
      BY <3>1
    <3>5. IsWay(t, e)
      BY <3>1, <3>4 DEF IsWay
    <3> QED BY <3>1, <3>2, <3>3, <3>5
  <2>2. CASE up[n] # <<>>
    <3>1. way[n] = <<n>> \o way[up[n]] /\ up[n] \in T
      BY <1>2, <1>8, <1>9, <2>2
    <3>2. IsWay(t, <<n>> \o way[up[n]]) /\ (<<n>> \o way[up[n]])[1] = n
      BY <3>1, WayGrows
    <3> QED BY <3>1, <3>2
  <2> QED BY <2>1, <2>2
<1>10. T = N
  <2>1. T \in SUBSET N
    OBVIOUS
  <2>2. Carries(N, up, T)
    <3> HIDE DEF T
    <3> QED BY <1>9 DEF Carries
  <2> HIDE DEF T, up, N
  <2> QED BY <1>3, <2>1, <2>2, DownInduction
<1> QED BY <1>1, <1>10

-----------------------------------------------------------------------------
(* A node is made, or its support raised by a.                             *)
Grown(N, sup, sup2, up, a) ==
  /\ a \in Nat /\ sup2[up] = a + (IF up \in N THEN sup[up] ELSE 0)
  /\ \A n \in N : sup[n] \in Nat /\ (n # up => sup2[n] = sup[n])

LEMMA NodesOfMore ==
  ASSUME NEW N, NEW up
  PROVE  \A x : NodesOf(N \cup {up}, x) = IF Tree!Last(up) = x THEN NodesOf(N, x) \cup {up}
                                          ELSE NodesOf(N, x)
BY DEF NodesOf

(* Adding to one node adds as much to the sum over the nodes of its item,  *)
(* and to no other.                                                        *)
LEMMA SumGrows ==
  ASSUME NEW N, IsFiniteSet(N), NEW sup, NEW sup2, NEW up, NEW a, Grown(N, sup, sup2, up, a), NEW x
  PROVE  SumOver(NodesOf(N \cup {up}, x), sup2) =
           IF Tree!Last(up) = x THEN SumOver(NodesOf(N, x), sup) + a ELSE SumOver(NodesOf(N, x), sup)
<1> DEFINE D == NodesOf(N, x)
<1>1. IsFiniteSet(D) /\ \A n \in D : n \in N /\ sup[n] \in Int /\ sup[n] \in Nat
  BY FS_Subset DEF NodesOf, Grown
<1>2. SumOver(D, sup) \in Int /\ a \in Int
  <2> HIDE DEF D
  <2> QED BY <1>1, SumType DEF Grown
<1>3. NodesOf(N \cup {up}, x) = IF Tree!Last(up) = x THEN D \cup {up} ELSE D
  BY NodesOfMore
<1>4. up \in D => up \in N
  BY DEF NodesOf
<1>5. Tree!Last(up) = x /\ up \in N => up \in D
  BY DEF NodesOf
<1> HIDE DEF D
<1>6. CASE Tree!Last(up) # x
  <2>1. up \notin D
    BY <1>6 DEF D, NodesOf
  <2>2. \A n \in D : sup[n] \in Int /\ sup[n] = sup2[n]
    BY <1>1, <2>1 DEF Grown
  <2>3. SumOver(D, sup) = SumOver(D, sup2)
    BY <1>1, <2>2, SumSame
  <2> QED BY <1>3, <1>6, <2>3 DEF D
<1>7. CASE Tree!Last(up) = x /\ up \in N
  <2>1. RaisedAt(sup2, sup, D, up, a)
    BY <1>1, <1>2, <1>5, <1>7 DEF RaisedAt, Grown
  <2>2. SumOver(D, sup2) = SumOver(D, sup) + a
    BY <1>1, <2>1, SumRaised
  <2>3. NodesOf(N \cup {up}, x) = D
    BY <1>3, <1>5, <1>7
  <2> QED BY <1>7, <2>2, <2>3 DEF D
<1>8. CASE Tree!Last(up) = x /\ up \notin N
  <2> DEFINE E == D \cup {up}
  <2>1. up \notin D /\ up \in E /\ E \ {up} = D /\ NodesOf(N \cup {up}, x) = E
    BY <1>3, <1>4, <1>8
  <2>2. IsFiniteSet(E)
    BY <1>1, FS_AddElement
  <2>3. sup2[up] = a
    BY <1>2, <1>8 DEF Grown
  <2>4. \A n \in D : sup[n] \in Int /\ sup[n] = sup2[n]
    BY <1>1, <2>1 DEF Grown
  <2>5. \A n \in E : sup2[n] \in Int
    BY <1>2, <2>3, <2>4
  <2> HIDE DEF E
  <2>6. SumOver(E, sup2) = sup2[up] + SumOver(E \ {up}, sup2)
    BY <2>1, <2>2, <2>5, SumWithout
  <2>7. SumOver(D, sup) = SumOver(D, sup2)
    BY <1>1, <2>4, SumSame
  <2>8. SumOver(E, sup2) = a + SumOver(D, sup)
    BY <2>1, <2>3, <2>6, <2>7
  <2>9. a + SumOver(D, sup) = SumOver(D, sup) + a
    BY <1>2
  <2> QED BY <1>8, <2>1, <2>8, <2>9 DEF D
<1> QED BY <1>6, <1>7, <1>8

(* The head of a node that is made or raised, and the heads it is among.   *)
GrownHead(g, old, up, a) ==
  /\ g \in HeadRecord /\ g.item = old.item /\ g.sup = old.sup + a
  /\ Tree!Range(g.nodes) = Tree!Range(old.nodes) \cup {up}

(* The head of an item, when one of its nodes gets more or is added.       *)
LEMMA HeadGrows ==
  ASSUME NEW N, IsFiniteSet(N), NEW sup, NEW sup2, NEW up, NEW a, Grown(N, sup, sup2, up, a),
         NEW H, HeadsList(N, H), HeadsSum(N, sup, H),
         NEW h \in DOMAIN H, H[h].item = Tree!Last(up), NEW g, GrownHead(g, H[h], up, a),
         NEW J, J = [H EXCEPT ![h] = g]
  PROVE  HeadsList(N \cup {up}, J) /\ HeadsSum(N \cup {up}, sup2, J)
<1> DEFINE x == Tree!Last(up)
<1>1. H \in Seq(HeadRecord) /\ DOMAIN H = 1 .. Len(H) /\ Len(H) \in Nat
  BY DEF HeadsList
<1>2. J \in Seq(HeadRecord) /\ DOMAIN J = DOMAIN H /\ J[h] = g /\ \A m \in DOMAIN H : m # h => J[m] = H[m]
  <2>1. J \in [1 .. Len(H) -> HeadRecord]
    <3>1. g \in HeadRecord
      BY DEF GrownHead
    <3> QED BY <1>1, <3>1
  <2>2. J \in Seq(HeadRecord)
    BY <1>1, <2>1, AsSeq
  <2> QED BY <2>2
<1>3. \A m \in DOMAIN H : J[m].item = H[m].item
  BY <1>2 DEF GrownHead
<1>4. \A m \in DOMAIN H : m # h => H[m].item # x
  BY DEF HeadsList
<1>5. ASSUME NEW m \in DOMAIN H
      PROVE  Tree!Range(J[m].nodes) = NodesOf(N \cup {up}, J[m].item)
             /\ J[m].sup = SumOver(NodesOf(N \cup {up}, J[m].item), sup2)
  <2>1. /\ Tree!Range(H[m].nodes) = NodesOf(N, H[m].item)
        /\ H[m].sup = SumOver(NodesOf(N, H[m].item), sup)
    BY DEF HeadsList, HeadsSum
  <2>2. /\ SumOver(NodesOf(N \cup {up}, H[m].item), sup2) =
             IF x = H[m].item THEN SumOver(NodesOf(N, H[m].item), sup) + a
             ELSE SumOver(NodesOf(N, H[m].item), sup)
        /\ NodesOf(N \cup {up}, H[m].item) =
             IF x = H[m].item THEN NodesOf(N, H[m].item) \cup {up} ELSE NodesOf(N, H[m].item)
    <3>1. NodesOf(N \cup {up}, H[m].item) =
            IF x = H[m].item THEN NodesOf(N, H[m].item) \cup {up} ELSE NodesOf(N, H[m].item)
      BY NodesOfMore
    <3>2. SumOver(NodesOf(N \cup {up}, H[m].item), sup2) =
            IF x = H[m].item THEN SumOver(NodesOf(N, H[m].item), sup) + a
            ELSE SumOver(NodesOf(N, H[m].item), sup)
      BY SumGrows
    <3> QED BY <3>1, <3>2
  <2>3. CASE m = h
    BY <1>2, <1>3, <2>1, <2>2, <2>3 DEF GrownHead
  <2>4. CASE m # h
    <3>1. J[m] = H[m] /\ H[m].item # x
      BY <1>2, <1>4, <2>4
    <3> QED BY <2>1, <2>2, <3>1
  <2> QED BY <2>3, <2>4
<1>6. \A n \in N \cup {up} : \E m \in DOMAIN H : H[m].item = Tree!Last(n)
  BY DEF HeadsList
<1>7. \A m, n \in DOMAIN H : H[m].item = H[n].item => m = n
  BY DEF HeadsList
<1>8. HeadsList(N \cup {up}, J)
  <2>1. \A m \in DOMAIN J : Tree!Range(J[m].nodes) = NodesOf(N \cup {up}, J[m].item)
    BY <1>2, <1>5
  <2>2. \A m, n \in DOMAIN J : J[m].item = J[n].item => m = n
    BY <1>2, <1>3, <1>7
  <2>3. \A n \in N \cup {up} : \E m \in DOMAIN J : J[m].item = Tree!Last(n)
    BY <1>2, <1>3, <1>6
  <2> QED BY <1>2, <2>1, <2>2, <2>3 DEF HeadsList
<1>9. HeadsSum(N \cup {up}, sup2, J)
  BY <1>2, <1>5 DEF HeadsSum
<1> QED BY <1>8, <1>9

(* A head that is made for the first node of its item.                     *)
LEMMA HeadStarts ==
  ASSUME NEW N, IsFiniteSet(N), NEW sup, NEW sup2, NEW up, NEW a, Grown(N, sup, sup2, up, a),
         NEW H, HeadsList(N, H), HeadsSum(N, sup, H), \A m \in DOMAIN H : H[m].item # Tree!Last(up),
         NEW g \in HeadRecord, g.item = Tree!Last(up), g.sup = a, Tree!Range(g.nodes) = {up}
  PROVE  HeadsList(N \cup {up}, Append(H, g)) /\ HeadsSum(N \cup {up}, sup2, Append(H, g))
<1> DEFINE x == Tree!Last(up)
           J == Append(H, g)
           l == Len(H)
<1>1. H \in Seq(HeadRecord) /\ DOMAIN H = 1 .. l /\ l \in Nat
  BY DEF HeadsList
<1>2. J \in Seq(HeadRecord) /\ DOMAIN J = 1 .. l + 1 /\ J[l + 1] = g /\ \A m \in 1 .. l : J[m] = H[m]
  BY <1>1
<1> HIDE DEF J, l
<1>3. NodesOf(N, x) = {}
  BY DEF HeadsList, NodesOf
<1>4. ASSUME NEW m \in 1 .. l
      PROVE  /\ J[m].item # x /\ Tree!Range(J[m].nodes) = NodesOf(N \cup {up}, J[m].item)
             /\ J[m].sup = SumOver(NodesOf(N \cup {up}, J[m].item), sup2)
  <2>1. /\ Tree!Range(H[m].nodes) = NodesOf(N, H[m].item) /\ H[m].item # x
        /\ H[m].sup = SumOver(NodesOf(N, H[m].item), sup)
    BY <1>1 DEF HeadsList, HeadsSum
  <2>2. /\ SumOver(NodesOf(N \cup {up}, H[m].item), sup2) = SumOver(NodesOf(N, H[m].item), sup)
        /\ NodesOf(N \cup {up}, H[m].item) = NodesOf(N, H[m].item)
    <3>1. NodesOf(N \cup {up}, H[m].item) = NodesOf(N, H[m].item)
      BY <2>1, NodesOfMore
    <3>2. SumOver(NodesOf(N \cup {up}, H[m].item), sup2) = SumOver(NodesOf(N, H[m].item), sup)
      BY <2>1, SumGrows
    <3> QED BY <3>1, <3>2
  <2> QED BY <1>2, <2>1, <2>2
<1>5. g.sup = SumOver(NodesOf(N \cup {up}, x), sup2) /\ Tree!Range(g.nodes) = NodesOf(N \cup {up}, x)
  <2>1. /\ SumOver(NodesOf(N \cup {up}, x), sup2) = SumOver(NodesOf(N, x), sup) + a
        /\ NodesOf(N \cup {up}, x) = NodesOf(N, x) \cup {up}
    <3>1. NodesOf(N \cup {up}, x) = NodesOf(N, x) \cup {up}
      BY NodesOfMore
    <3>2. SumOver(NodesOf(N \cup {up}, x), sup2) = SumOver(NodesOf(N, x), sup) + a
      BY SumGrows
    <3> QED BY <3>1, <3>2
  <2>2. SumOver({}, sup) = 0 /\ a \in Nat
    BY SumEmpty DEF Grown
  <2>3. SumOver(NodesOf(N \cup {up}, x), sup2) = a
    BY <1>3, <2>1, <2>2
  <2> QED BY <1>3, <2>1, <2>3
<1>6. \A n \in N \cup {up} : \E m \in DOMAIN J : J[m].item = Tree!Last(n)
  <2>1. \A n \in N : \E m \in 1 .. l : J[m].item = Tree!Last(n)
    BY <1>1, <1>2 DEF HeadsList
  <2>2. 1 .. l \subseteq DOMAIN J /\ l + 1 \in DOMAIN J
    BY <1>1, <1>2
  <2> QED BY <1>2, <2>1, <2>2
<1>7. \A m \in DOMAIN J : m = l + 1 \/ m \in 1 .. l
  BY <1>1, <1>2
<1>8. \A m, n \in DOMAIN J : J[m].item = J[n].item => m = n
  <2>1. \A m, n \in 1 .. l : J[m].item = J[n].item => m = n
    BY <1>1, <1>2 DEF HeadsList
  <2>2. J[l + 1].item = x
    BY <1>2
  <2> QED BY <1>4, <1>7, <2>1, <2>2
<1>9. HeadsList(N \cup {up}, J)
  BY <1>2, <1>4, <1>5, <1>6, <1>7, <1>8 DEF HeadsList
<1>10. HeadsSum(N \cup {up}, sup2, J)
  BY <1>2, <1>4, <1>5, <1>7 DEF HeadsSum
<1> QED BY <1>9, <1>10 DEF J

-----------------------------------------------------------------------------
(* The parts of a tree that is sound.                                      *)
IsSound(N, sup, parent, heads) ==
  /\ IsFiniteSet(N) /\ N \in SUBSET Seq(Nat) /\ <<>> \notin N
  /\ sup \in [N -> Nat] /\ parent \in [N -> N \cup {<<>>}]
  /\ \A n \in N : parent[n] = <<>> \/ Len(parent[n]) < Len(n)
  /\ HeadsList(N, heads) /\ HeadsSum(N, sup, heads)

(* A sound tree by its parts ...                                           *)
LEMMA SoundParts ==
  ASSUME NEW t, SoundTree(t)
  PROVE  /\ IsSound(Tree!Node(t), t.sup, t.parent, t.heads)
         /\ t = [sup |-> t.sup, parent |-> t.parent, heads |-> t.heads]
<1> DEFINE N == Tree!Node(t)
           Sups == UNION {[X -> Nat] : X \in SUBSET Seq(Nat)}
           Parents == UNION {[X -> Seq(Nat)] : X \in SUBSET Seq(Nat)}
           H == Seq(HeadRecord)
<1>1. t \in [sup : Sups, parent : Parents, heads : H]
  BY DEF SoundTree, Trees
<1>2. t.sup \in Sups /\ t.parent \in Parents /\ t = [sup |-> t.sup, parent |-> t.parent, heads |-> t.heads]
  <2> HIDE DEF Sups, Parents, H
  <2> QED BY <1>1
<1>3. t.sup \in [N -> Nat]
  <2>1. PICK X \in SUBSET Seq(Nat) : t.sup \in [X -> Nat]
    BY <1>2
  <2> QED BY <2>1 DEF Tree!Node
<1>4. t.parent \in [N -> N \cup {<<>>}]
  <2>1. PICK X \in SUBSET Seq(Nat) : t.parent \in [X -> Seq(Nat)]
    BY <1>2
  <2>2. DOMAIN t.parent = N /\ \A n \in N : t.parent[n] \in N \cup {<<>>}
    BY DEF SoundTree, ParentsAbove
  <2> HIDE DEF N
  <2> QED BY <2>1, <2>2
<1> QED BY <1>2, <1>3, <1>4 DEF IsSound, SoundTree, IsTree, ParentsAbove

(* ... and the other way round.                                            *)
LEMMA SoundOfParts ==
  ASSUME NEW N, NEW sup, NEW parent, NEW heads, IsSound(N, sup, parent, heads),
         NEW t, t = [sup |-> sup, parent |-> parent, heads |-> heads]
  PROVE  SoundTree(t) /\ Tree!Node(t) = N
<1>1. t.sup = sup /\ t.parent = parent /\ t.heads = heads
  OBVIOUS
<1>2. Tree!Node(t) = N
  BY <1>1 DEF Tree!Node, IsSound
<1>3. t \in Trees
  <2> DEFINE Sups == UNION {[X -> Nat] : X \in SUBSET Seq(Nat)}
             Parents == UNION {[X -> Seq(Nat)] : X \in SUBSET Seq(Nat)}
             H == Seq(HeadRecord)
  <2>1. parent \in [N -> Seq(Nat)]
    <3>1. <<>> \in Seq(Nat)
      OBVIOUS
    <3>2. N \cup {<<>>} \subseteq Seq(Nat)
      BY <3>1 DEF IsSound
    <3> QED BY <3>2 DEF IsSound
  <2>2. sup \in Sups /\ parent \in Parents /\ heads \in H
    BY <2>1 DEF IsSound, HeadsList
  <2> HIDE DEF Sups, Parents, H
  <2>3. t \in [sup : Sups, parent : Parents, heads : H]
    BY <2>2
  <2> QED BY <2>3 DEF Trees, Sups, Parents, H
<1>4. ParentsAbove(t)
  BY <1>1, <1>2 DEF ParentsAbove, IsSound
<1>5. IsTree(t)
  BY <1>1, <1>2 DEF IsTree, IsSound
<1> QED BY <1>1, <1>2, <1>3, <1>4, <1>5 DEF SoundTree, IsSound

-----------------------------------------------------------------------------
(* A step of a projection (ProjectStep).                                   *)
LEMMA OneIs ==
  ASSUME NEW N, NEW n \in N
  PROVE  <<n>> \in Seq(N) /\ Tree!Range(<<n>>) = {n}
<1>1. <<n>> \in Seq(N) /\ DOMAIN <<n>> = {1} /\ <<n>>[1] = n
  OBVIOUS
<1> QED BY <1>1 DEF Tree!Range

LEMMA LastItem ==
  ASSUME NEW n \in Seq(Nat), n # <<>>
  PROVE  Tree!Last(n) \in Nat
<1>1. Len(n) \in 1 .. Len(n)
  OBVIOUS
<1> QED BY <1>1 DEF Tree!Last

LEMMA HeadWithNode ==
  ASSUME NEW old \in HeadRecord, NEW up \in Seq(Nat), NEW a \in Nat, NEW g,
         g = [old EXCEPT !.nodes = <<up>> \o @, !.sup = @ + a]
  PROVE  GrownHead(g, old, up, a)
<1> DEFINE S == Seq(Seq(Nat))
           s == old.nodes
           b == <<up>> \o s
           k1 == old.sup + a
<1>1. old \in [item : Nat, sup : Nat, nodes : S]
  BY DEF HeadRecord
<1>2. s \in S /\ old.item \in Nat /\ k1 \in Nat
  <2>1. old.sup \in Nat
    BY <1>1
  <2> HIDE DEF S
  <2> QED BY <1>1, <2>1
<1>3. g = [old EXCEPT !.nodes = b, !.sup = k1]
  OBVIOUS
<1>4. b \in S /\ Tree!Range(b) = {up} \cup Tree!Range(s)
  <2>1. <<up>> \in Seq(Seq(Nat)) /\ Tree!Range(<<up>>) = {up}
    BY OneIs
  <2> DEFINE e == <<up>>
  <2>2. e \in Seq(Seq(Nat)) /\ s \in Seq(Seq(Nat)) /\ Tree!Range(e) = {up}
    BY <1>2, <2>1
  <2> HIDE DEF e
  <2>3. e \o s \in Seq(Seq(Nat)) /\ Tree!Range(e \o s) = Tree!Range(e) \cup Tree!Range(s)
    BY <2>2, RangeOfBoth
  <2> QED BY <2>2, <2>3 DEF e
<1> HIDE DEF b, S, s, k1
<1>5. g = [item |-> old.item, sup |-> k1, nodes |-> b]
  BY <1>1, <1>3
<1>6. g \in HeadRecord
  BY <1>2, <1>4, <1>5 DEF HeadRecord, S
<1>7. g.item = old.item /\ g.sup = k1 /\ g.nodes = b
  <2> DEFINE rec == [item |-> old.item, sup |-> k1, nodes |-> b]
  <2>1. rec.item = old.item /\ rec.sup = k1 /\ rec.nodes = b
    OBVIOUS
  <2>2. g = rec
    BY <1>5
  <2> HIDE DEF rec
  <2> QED BY <2>1, <2>2
<1> QED BY <1>4, <1>6, <1>7 DEF GrownHead, s, k1

LEMMA HeadWithMore ==
  ASSUME NEW old \in HeadRecord, NEW up \in Tree!Range(old.nodes), NEW a \in Nat, NEW g,
         g = [old EXCEPT !.sup = @ + a]
  PROVE  GrownHead(g, old, up, a)
<1> DEFINE S == Seq(Seq(Nat))
           k1 == old.sup + a
<1>1. old \in [item : Nat, sup : Nat, nodes : S]
  BY DEF HeadRecord
<1>2. old.nodes \in S /\ old.item \in Nat /\ k1 \in Nat
  <2>1. old.sup \in Nat
    BY <1>1
  <2> HIDE DEF S
  <2> QED BY <1>1, <2>1
<1> HIDE DEF S, k1
<1>5. g = [item |-> old.item, sup |-> k1, nodes |-> old.nodes]
  BY <1>1 DEF k1
<1>6. g \in HeadRecord
  BY <1>2, <1>5 DEF HeadRecord, S
<1>7. g.item = old.item /\ g.sup = k1 /\ g.nodes = old.nodes
  BY <1>5
<1> QED BY <1>6, <1>7 DEF GrownHead, k1

LEMMA HeadOfIs ==
  ASSUME NEW t, NEW x, Tree!HasHead(t, x)
  PROVE  Tree!HeadOf(t, x) \in DOMAIN t.heads /\ t.heads[Tree!HeadOf(t, x)].item = x
BY DEF Tree!HasHead, Tree!HeadOf

(* One step of project_path keeps the projection sound.                    *)
LEMMA ProjectStepSound ==
  ASSUME NEW t, SoundTree(t), NEW c, SoundTree(c),
         NEW node \in Tree!Node(t), NEW up \in Tree!Node(t), t.parent[node] = up
  PROVE  SoundTree(Tree!ProjectStep(t, c, node, up))
<1> DEFINE N == Tree!Node(c)
           M == N \cup {up}
           x == Tree!Last(up)
           h == Tree!HeadOf(c, x)
           H == c.heads
           u == Tree!ProjectStep(t, c, node, up)
<1>1. IsSound(N, c.sup, c.parent, H) /\ c = [sup |-> c.sup, parent |-> c.parent, heads |-> H]
  BY SoundParts
<1>2. t.sup[up] \in Nat /\ t.sup[node] \in Nat /\ up \in Seq(Nat) /\ up # <<>> /\ Len(up) < Len(node)
  BY DEF SoundTree, IsTree, ParentsAbove
<1>3. x \in Nat
  BY <1>2, LastItem
<1>4. IsFiniteSet(M) /\ M \in SUBSET Seq(Nat) /\ <<>> \notin M
  BY <1>1, <1>2, FS_AddElement DEF IsSound
<1>5. H \in Seq(HeadRecord) /\ \A m \in DOMAIN H : H[m] \in HeadRecord
  <2>1. H \in Seq(HeadRecord)
    BY <1>1 DEF IsSound, HeadsList
  <2> QED BY <2>1
<1>6. CASE up \notin N
  <2> DEFINE a == t.sup[up]
             sup2 == Tree!Extend(c.sup, up, a)
             P == IF node \in N THEN [c.parent EXCEPT ![node] = up] ELSE c.parent
             parent2 == Tree!Extend(P, up, <<>>)
             J == IF Tree!HasHead(c, x)
                  THEN [H EXCEPT ![h].nodes = <<up>> \o @, ![h].sup = @ + a]
                  ELSE Append(H, [item |-> x, sup |-> a, nodes |-> <<up>>])
  <2>1. u = [sup |-> sup2, parent |-> parent2, heads |-> J]
    BY <1>6 DEF Tree!ProjectStep
  <2>2. sup2 \in [M -> Nat] /\ Grown(N, c.sup, sup2, up, a)
    <3>1. sup2 = [m \in M |-> IF m = up THEN a ELSE c.sup[m]]
      BY <1>1 DEF Tree!Extend, IsSound
    <3>2. c.sup \in [N -> Nat] /\ a \in Nat
      BY <1>1, <1>2 DEF IsSound
    <3> HIDE DEF sup2, N, a
    <3> QED BY <1>6, <3>1, <3>2 DEF Grown
  <2>3. parent2 \in [M -> M \cup {<<>>}] /\ \A n \in M : parent2[n] = <<>> \/ Len(parent2[n]) < Len(n)
    <3>1. c.parent \in [N -> N \cup {<<>>}] /\ \A n \in N : c.parent[n] = <<>> \/ Len(c.parent[n]) < Len(n)
      BY <1>1 DEF IsSound
    <3>2. DOMAIN P = N /\ \A n \in N : (P[n] = up /\ n = node) \/ P[n] = c.parent[n]
      BY <3>1
    <3> HIDE DEF P
    <3>3. parent2 = [m \in M |-> IF m = up THEN <<>> ELSE P[m]]
      BY <3>2 DEF Tree!Extend
    <3> HIDE DEF parent2
    <3>4. ASSUME NEW n \in M
          PROVE  parent2[n] \in M \cup {<<>>} /\ (parent2[n] = <<>> \/ Len(parent2[n]) < Len(n))
      <4>1. CASE n = up
        BY <3>3, <4>1
      <4>2. CASE n # up
        <5>1. n \in N /\ parent2[n] = P[n]
          BY <3>3, <4>2
        <5>2. CASE P[n] = up /\ n = node
          BY <1>2, <5>1, <5>2
        <5>3. CASE P[n] = c.parent[n]
          BY <3>1, <5>1, <5>3
        <5> QED BY <3>2, <5>1, <5>2, <5>3
      <4> QED BY <4>1, <4>2
    <3> QED BY <3>3, <3>4
  <2> HIDE DEF a, sup2, parent2
  <2>4. HeadsList(M, J) /\ HeadsSum(M, sup2, J)
    <3>1. CASE Tree!HasHead(c, x)
      <4> DEFINE g == [H[h] EXCEPT !.nodes = <<up>> \o @, !.sup = @ + a]
      <4>1. h \in DOMAIN H /\ H[h].item = x
        BY <3>1, HeadOfIs
      <4> HIDE DEF h
      <4>2. J = [H EXCEPT ![h] = g]
        BY <3>1, <4>1
      <4>3. GrownHead(g, H[h], up, a)
        <5>1. H[h] \in HeadRecord
          BY <1>5, <4>1
        <5>2. a \in Nat
          BY <1>2 DEF a
        <5> QED BY <1>2, <5>1, <5>2, HeadWithNode
      <4> HIDE DEF g, J, H, N
      <4> QED BY <1>1, <2>2, <4>1, <4>2, <4>3, HeadGrows DEF IsSound
    <3>2. CASE ~Tree!HasHead(c, x)
      <4> DEFINE g == [item |-> x, sup |-> a, nodes |-> <<up>>]
      <4>1. <<up>> \in Seq(Seq(Nat)) /\ Tree!Range(<<up>>) = {up}
        BY <1>2, OneIs
      <4>2. g \in HeadRecord
        BY <1>2, <1>3, <4>1 DEF HeadRecord, a
      <4>3. g.item = x /\ g.sup = a /\ Tree!Range(g.nodes) = {up}
        BY <4>1
      <4>4. \A m \in DOMAIN H : H[m].item # x
        BY <3>2 DEF Tree!HasHead
      <4>5. J = Append(H, g)
        BY <3>2
      <4> HIDE DEF g, J, H, N
      <4> QED BY <1>1, <2>2, <4>2, <4>3, <4>4, <4>5, HeadStarts DEF IsSound
    <3> QED BY <3>1, <3>2
  <2>5. IsSound(M, sup2, parent2, J)
    BY <1>4, <2>2, <2>3, <2>4 DEF IsSound
  <2> HIDE DEF J, u, M
  <2> QED BY <2>1, <2>5, SoundOfParts DEF u
<1>7. CASE up \in N
  <2> DEFINE a == t.sup[node]
             sup2 == [c.sup EXCEPT ![up] = @ + a]
             g == [H[h] EXCEPT !.sup = @ + a]
             J == [H EXCEPT ![h] = g]
  <2>1. Tree!HasHead(c, x)
    BY <1>1, <1>7 DEF IsSound, HeadsList, Tree!HasHead
  <2>2. h \in DOMAIN H /\ H[h].item = x
    BY <2>1, HeadOfIs
  <2> HIDE DEF h
  <2>3. u = [sup |-> sup2, parent |-> c.parent, heads |-> J]
    <3>1. u = [c EXCEPT !.sup[up] = @ + a, !.heads[h].sup = @ + a]
      BY <1>7 DEF Tree!ProjectStep, h
    <3>2. u = [c EXCEPT !.sup = sup2, !.heads = J]
      BY <3>1
    <3> HIDE DEF u, J, sup2, H
    <3> QED BY <1>1, <3>2 DEF H
  <2>4. c.sup \in [N -> Nat] /\ a \in Nat
    BY <1>1, <1>2 DEF IsSound
  <2>5. sup2 \in [N -> Nat] /\ Grown(N, c.sup, sup2, up, a)
    <3> HIDE DEF N, a
    <3> QED BY <1>7, <2>4 DEF Grown
  <2>6. GrownHead(g, H[h], up, a)
    <3>1. H[h] \in HeadRecord
      BY <1>5, <2>2
    <3>2. up \in Tree!Range(H[h].nodes)
      BY <1>1, <1>7, <2>2 DEF IsSound, HeadsList, NodesOf
    <3> QED BY <2>4, <3>1, <3>2, HeadWithMore
  <2>7. M = N
    BY <1>7
  <2>8. HeadsList(M, J) /\ HeadsSum(M, sup2, J)
    <3> HIDE DEF g, H, N, sup2, a
    <3> QED BY <1>1, <2>2, <2>5, <2>6, HeadGrows DEF IsSound
  <2>9. IsSound(N, sup2, c.parent, J)
    BY <1>1, <2>5, <2>7, <2>8 DEF IsSound
  <2> HIDE DEF J, u, N, sup2
  <2> QED BY <2>3, <2>9, SoundOfParts DEF u
<1> QED BY <1>6, <1>7

-----------------------------------------------------------------------------
(* Projections of a path, and of the paths of all nodes of an item.        *)
SoundTrees == {t \in Trees : SoundTree(t)}

LEMMA SoundTreesAre == \A t : t \in SoundTrees <=> SoundTree(t)
BY DEF SoundTrees, SoundTree

LEMMA LastIsMax ==
  ASSUME NEW l \in Nat, NEW s \in SUBSET (1 .. l), s # {}
  PROVE  LastOf(l)[s] = Tree!Max(s) /\ Tree!Max(s) \in s
<1>1. LastOf(l)[s] \in s
  BY LastIsChoice DEF IsChoice
<1>2. LastOf(l)[s] = Tree!Max(s)
  BY DEF LastOf, Tree!Max
<1> QED BY <1>1, <1>2

(* So does the way up from a node (project_path) ...                       *)
LEMMA PathIsSound ==
  ASSUME NEW t \in SoundTrees, NEW c \in SoundTrees, NEW node \in Tree!Node(t)
  PROVE  Tree!project_path(t, c, node) \in SoundTrees
<1> DEFINE way == Tree!WayUp(t, node)
           l == Len(way) - 1
           D == 1 .. l
           q == [n \in D |-> n]
           V == SoundTrees
           After(d, n) == Tree!ProjectStep(t, d, way[n], way[n + 1])
           Is(it) == it = [s \in SUBSET D |-> IF s = {} THEN c
                             ELSE After(it[s \ {Tree!Max(s)}], q[Tree!Max(s)])]
           fold == CHOOSE it : Is(it)
           step == [n \in D |-> [d \in V |-> After(d, n)]]
<1>1. Tree!project_path(t, c, node) = fold[D]
  <2>1. DOMAIN q = D
    OBVIOUS
  <2> QED BY <2>1 DEF Tree!project_path, Tree!FoldLeft, Tree!MapThenFoldSet
<1>2. SoundTree(t) /\ c \in V /\ IsWay(t, way)
  BY SoundTreesAre, WayIs
<1>3. l \in Nat
  BY <1>2 DEF IsWay
<1>4. ASSUME NEW n \in D, NEW d \in V PROVE After(d, n) \in V
  <2> DEFINE a == way[n]
             b == way[n + 1]
  <2>1. n \in 1 .. Len(way) /\ n + 1 \in 1 .. Len(way)
    BY <1>2, <1>3 DEF IsWay
  <2>2. a \in Tree!Node(t) /\ b \in Tree!Node(t) /\ t.parent[a] = b
    BY <1>2, <2>1 DEF IsWay
  <2>3. SoundTree(d)
    BY SoundTreesAre
  <2> HIDE DEF a, b
  <2>4. SoundTree(Tree!ProjectStep(t, d, a, b))
    BY <1>2, <2>2, <2>3, ProjectStepSound
  <2> QED BY <2>4, SoundTreesAre DEF a, b
<1>5. step \in [D -> [V -> V]] /\ \A n \in D, d \in V : step[n][d] = After(d, n)
  <2> HIDE DEF After, V, D
  <2> QED BY <1>4
<1> HIDE DEF step, After, way, l, V
<1>6. PICK it \in [SUBSET D -> V] : IsFold(it, D, c, step, LastOf(l))
  <2>1. FoldsFromLeft(l, V, c, step)
    BY <1>2, <1>3, <1>5, FoldFromLeft
  <2> QED BY <2>1 DEF FoldsFromLeft
<1>7. \A s \in SUBSET D : s # {} =>
        LastOf(l)[s] = Tree!Max(s) /\ Tree!Max(s) \in D /\ q[Tree!Max(s)] = Tree!Max(s)
  <2> SUFFICES ASSUME NEW s \in SUBSET D, s # {}
               PROVE  LastOf(l)[s] = Tree!Max(s) /\ Tree!Max(s) \in D /\ q[Tree!Max(s)] = Tree!Max(s)
    OBVIOUS
  <2>1. LastOf(l)[s] = Tree!Max(s) /\ Tree!Max(s) \in s
    BY <1>3, LastIsMax
  <2> QED BY <2>1
<1> HIDE DEF D, q
<1>8. Is(it)
  <2> SUFFICES ASSUME NEW s \in SUBSET D
               PROVE  it[s] = IF s = {} THEN c ELSE After(it[s \ {Tree!Max(s)}], q[Tree!Max(s)])
    BY <1>6
  <2>1. s = {} => it[s] = c
    BY <1>6 DEF IsFold
  <2>2. ASSUME s # {} PROVE it[s] = After(it[s \ {Tree!Max(s)}], q[Tree!Max(s)])
    <3> DEFINE m == Tree!Max(s)
               d == it[s \ {m}]
    <3>1. LastOf(l)[s] = m /\ m \in D /\ q[m] = m
      BY <1>7, <2>2
    <3>2. it[s] = step[m][d]
      BY <1>6, <2>2, <3>1 DEF IsFold
    <3>3. d \in V
      BY <1>6
    <3> HIDE DEF m, d
    <3>4. it[s] = After(d, q[m])
      BY <1>5, <3>1, <3>2, <3>3
    <3> QED BY <3>4 DEF m, d
  <2> QED BY <2>1, <2>2
<1>9. Is(fold)
  <2> HIDE DEF Is
  <2> QED BY <1>8
<1> HIDE DEF fold
<1>10. IsFoldInto(fold, D, V, c, step, LastOf(l))
  <2>1. fold[{}] = c
    BY <1>9
  <2>2. ASSUME NEW s \in SUBSET D, s # {}, fold[s \ {LastOf(l)[s]}] \in V
        PROVE  fold[s] = step[LastOf(l)[s]][fold[s \ {LastOf(l)[s]}]]
    <3> DEFINE m == LastOf(l)[s]
               d == fold[s \ {m}]
    <3>1. m = Tree!Max(s) /\ m \in D /\ q[m] = m
      BY <1>7, <2>2
    <3>2. fold[s] = After(fold[s \ {Tree!Max(s)}], q[Tree!Max(s)])
      BY <1>9, <2>2
    <3>3. fold[s] = After(d, m) /\ d \in V
      BY <2>2, <3>1, <3>2
    <3> HIDE DEF m, d
    <3>4. fold[s] = step[m][d]
      BY <1>5, <3>1, <3>3
    <3> QED BY <3>4 DEF m, d
  <2> QED BY <2>1, <2>2 DEF IsFoldInto
<1>11. \A s \in SUBSET D : fold[s] \in V
  <2>1. FoldData(D, V, c, step, LastOf(l))
    BY <1>2, <1>3, <1>5, FS_Interval, LastIsChoice DEF FoldData, D
  <2> QED BY <1>10, <2>1, FoldHasType
<1>12. fold[D] \in V
  BY <1>11
<1> QED BY <1>1, <1>12 DEF V

LEMMA EmptyIsSound == Tree!EmptyTree \in SoundTrees
<1> DEFINE e == <<>>
<1>1. e \in [{} -> Nat] /\ e \in [{} -> {} \cup {<<>>}]
  OBVIOUS
<1>2. HeadsList({}, <<>>) /\ HeadsSum({}, e, <<>>)
  <2>1. <<>> \in Seq(HeadRecord) /\ DOMAIN <<>> = {}
    OBVIOUS
  <2> HIDE DEF e
  <2> QED BY <2>1 DEF HeadsList, HeadsSum
<1>3. IsSound({}, e, e, <<>>)
  <2> HIDE DEF e
  <2> QED BY <1>1, <1>2, FS_EmptySet DEF IsSound
<1>4. Tree!EmptyTree = [sup |-> e, parent |-> e, heads |-> <<>>]
  BY DEF Tree!EmptyTree
<1> HIDE DEF e
<1> QED BY <1>3, <1>4, SoundOfParts, SoundTreesAre

Projected(t, nodes) ==
  Tree!FoldLeft(LAMBDA c, n : Tree!project_path(t, c, n), Tree!EmptyTree, nodes)

(* ... and the ways from all nodes of a head.                              *)
LEMMA PathsAreSound ==
  ASSUME NEW t \in SoundTrees, NEW nodes \in Seq(Tree!Node(t))
  PROVE  Projected(t, nodes) \in SoundTrees
<1> DEFINE l == Len(nodes)
           D == 1 .. l
           c == Tree!EmptyTree
           V == SoundTrees
           After(d, n) == Tree!project_path(t, d, nodes[n])
           Is(it) == it = [s \in SUBSET D |-> IF s = {} THEN c
                             ELSE After(it[s \ {Tree!Max(s)}], Tree!Max(s))]
           fold == CHOOSE it : Is(it)
           step == [n \in D |-> [d \in V |-> After(d, n)]]
<1>1. Projected(t, nodes) = fold[D]
  <2>1. DOMAIN nodes = D
    OBVIOUS
  <2> QED BY <2>1 DEF Projected, Tree!FoldLeft, Tree!MapThenFoldSet
<1>2. c \in V
  BY EmptyIsSound
<1>3. l \in Nat
  OBVIOUS
<1>4. ASSUME NEW n \in D, NEW d \in V PROVE After(d, n) \in V
  <2>1. nodes[n] \in Tree!Node(t)
    OBVIOUS
  <2> QED BY <2>1, PathIsSound
<1>5. step \in [D -> [V -> V]] /\ \A n \in D, d \in V : step[n][d] = After(d, n)
  <2> HIDE DEF After, V, D
  <2> QED BY <1>4
<1> HIDE DEF step, After, l, V, c
<1>6. PICK it \in [SUBSET D -> V] : IsFold(it, D, c, step, LastOf(l))
  <2>1. FoldsFromLeft(l, V, c, step)
    BY <1>2, <1>3, <1>5, FoldFromLeft
  <2> QED BY <2>1 DEF FoldsFromLeft
<1>7. \A s \in SUBSET D : s # {} =>
        LastOf(l)[s] = Tree!Max(s) /\ Tree!Max(s) \in D
  <2> SUFFICES ASSUME NEW s \in SUBSET D, s # {}
               PROVE  LastOf(l)[s] = Tree!Max(s) /\ Tree!Max(s) \in D
    OBVIOUS
  <2>1. LastOf(l)[s] = Tree!Max(s) /\ Tree!Max(s) \in s
    BY <1>3, LastIsMax
  <2> QED BY <2>1
<1> HIDE DEF D
<1>8. Is(it)
  <2> SUFFICES ASSUME NEW s \in SUBSET D
               PROVE  it[s] = IF s = {} THEN c ELSE After(it[s \ {Tree!Max(s)}], Tree!Max(s))
    BY <1>6
  <2>1. s = {} => it[s] = c
    BY <1>6 DEF IsFold
  <2>2. ASSUME s # {} PROVE it[s] = After(it[s \ {Tree!Max(s)}], Tree!Max(s))
    <3> DEFINE m == Tree!Max(s)
               d == it[s \ {m}]
    <3>1. LastOf(l)[s] = m /\ m \in D
      BY <1>7, <2>2
    <3>2. it[s] = step[m][d]
      BY <1>6, <2>2, <3>1 DEF IsFold
    <3>3. d \in V
      BY <1>6
    <3> HIDE DEF m, d
    <3>4. it[s] = After(d, m)
      BY <1>5, <3>1, <3>2, <3>3
    <3> QED BY <3>4 DEF m, d
  <2> QED BY <2>1, <2>2
<1>9. Is(fold)
  <2> HIDE DEF Is
  <2> QED BY <1>8
<1> HIDE DEF fold
<1>10. IsFoldInto(fold, D, V, c, step, LastOf(l))
  <2>1. fold[{}] = c
    BY <1>9
  <2>2. ASSUME NEW s \in SUBSET D, s # {}, fold[s \ {LastOf(l)[s]}] \in V
        PROVE  fold[s] = step[LastOf(l)[s]][fold[s \ {LastOf(l)[s]}]]
    <3> DEFINE m == LastOf(l)[s]
               d == fold[s \ {m}]
    <3>1. m = Tree!Max(s) /\ m \in D
      BY <1>7, <2>2
    <3>2. fold[s] = After(fold[s \ {Tree!Max(s)}], Tree!Max(s))
      BY <1>9, <2>2
    <3>3. fold[s] = After(d, m) /\ d \in V
      BY <2>2, <3>1, <3>2
    <3> HIDE DEF m, d
    <3>4. fold[s] = step[m][d]
      BY <1>5, <3>1, <3>3
    <3> QED BY <3>4 DEF m, d
  <2> QED BY <2>1, <2>2 DEF IsFoldInto
<1>11. \A s \in SUBSET D : fold[s] \in V
  <2>1. FoldData(D, V, c, step, LastOf(l))
    BY <1>2, <1>3, <1>5, FS_Interval, LastIsChoice DEF FoldData, D
  <2> QED BY <1>10, <2>1, FoldHasType
<1>12. fold[D] \in V
  BY <1>11
<1> QED BY <1>1, <1>12 DEF V

-----------------------------------------------------------------------------
(* What is cut off (prune): a node whose parent goes moves up to the first *)
(* above it that stays.                                                    *)
KeptOf(N, rare) == {n \in N : Tree!Last(n) \notin rare}

IsAbove(it, N, parent, rare) ==
  it = [n \in N \cup {<<>>} |-> IF n # <<>> /\ Tree!Last(n) \in rare THEN it[parent[n]] ELSE n]

(* What a node hangs on once the rare ones above it are gone.              *)
LEMMA AboveIs ==
  ASSUME NEW N, NEW sup, NEW parent, NEW heads, IsSound(N, sup, parent, heads), NEW rare,
         NEW above, above = CHOOSE it : IsAbove(it, N, parent, rare)
  PROVE  \A n \in N \cup {<<>>} :
           /\ above[n] \in KeptOf(N, rare) \cup {<<>>}
           /\ above[n] = <<>> \/ Len(above[n]) <= Len(n)
<1> DEFINE M == N \cup {<<>>}
           Goes(n) == n # <<>> /\ Tree!Last(n) \in rare
           none == CHOOSE z : z \notin M
           up == [n \in M |-> IF Goes(n) THEN parent[n] ELSE none]
           len == [n \in M |-> Len(n)]
           base == [n \in M |-> n]
           step == [n \in M |-> [m \in M |-> m]]
<1>1. none \notin M
  BY NoSetContainsEverything
<1> HIDE DEF none
<1>2. \A n \in M : Len(n) \in Nat /\ (n # <<>> => Len(n) > 0)
  <2>1. \A n \in N : n \in Seq(Nat) /\ n # <<>>
    BY DEF IsSound
  <2>2. \A n \in N : Len(n) \in Nat /\ Len(n) > 0
    <3> SUFFICES ASSUME NEW n \in N PROVE Len(n) \in Nat /\ Len(n) > 0
      OBVIOUS
    <3>1. n \in Seq(Nat) /\ n # <<>>
      BY <2>1
    <3> QED BY <3>1
  <2>3. Len(<<>>) \in Nat
    OBVIOUS
  <2> QED BY <2>2, <2>3
<1>3. \A n \in M : n # <<>> => n \in N /\ parent[n] \in M /\ (parent[n] = <<>> \/ Len(parent[n]) < Len(n))
  <2>1. parent \in [N -> M] /\ \A n \in N : parent[n] = <<>> \/ Len(parent[n]) < Len(n)
    BY DEF IsSound
  <2> QED BY <2>1
<1>4. \A n \in M : (up[n] \in M <=> Goes(n)) /\ (Goes(n) => up[n] = parent[n])
  BY <1>1, <1>3
<1>5. LinksDown(M, up, len)
  <2> SUFFICES ASSUME NEW n \in M
               PROVE  len[n] \in Nat /\ (up[n] \in M => len[up[n]] < len[n])
    BY DEF LinksDown
  <2>1. len[n] \in Nat
    BY <1>2
  <2>2. ASSUME up[n] \in M PROVE len[up[n]] < len[n]
    <3>1. up[n] = parent[n] /\ n # <<>>
      BY <1>4, <2>2
    <3>2. len[up[n]] = Len(parent[n]) /\ len[n] = Len(n)
      BY <2>2, <3>1
    <3>3. Len(<<>>) = 0
      OBVIOUS
    <3> QED BY <1>2, <1>3, <3>1, <3>2, <3>3
  <2> QED BY <2>1, <2>2
<1>6. PICK l \in Nat : \A n \in M : len[n] < l
  <2>1. IsFiniteSet(M) /\ \A n \in M : len[n] \in Nat
    BY <1>2, FS_AddElement DEF IsSound
  <2> HIDE DEF M, len
  <2> QED BY <2>1, LengthsAreBounded
<1>7. base \in [M -> M] /\ step \in [M -> [M -> M]]
  OBVIOUS
<1>8. PICK w \in [M -> M] : IsAlong(w, M, up, base, step)
  <2> HIDE DEF M, len, base, step, up
  <2> QED BY <1>5, <1>6, <1>7, AlongExists
<1>9. IsAbove(w, N, parent, rare)
  <2> SUFFICES ASSUME NEW n \in M PROVE w[n] = IF Goes(n) THEN w[parent[n]] ELSE n
    BY <1>8 DEF IsAbove
  <2>1. w[n] = IF up[n] \in M THEN step[n][w[up[n]]] ELSE base[n]
    BY <1>8 DEF IsAlong
  <2>2. CASE Goes(n)
    <3>1. up[n] \in M /\ up[n] = parent[n] /\ w[up[n]] \in M
      BY <1>4, <1>8, <2>2
    <3>2. step[n][w[up[n]]] = w[up[n]]
      <4> HIDE DEF up, M
      <4> QED BY <3>1
    <3> QED BY <2>1, <2>2, <3>1, <3>2
  <2>3. CASE ~Goes(n)
    <3>1. up[n] \notin M /\ base[n] = n
      BY <1>4, <2>3
    <3> QED BY <2>1, <2>3, <3>1
  <2> QED BY <2>2, <2>3
<1>10. IsAbove(above, N, parent, rare)
  BY <1>9
<1>11. \A n \in M : above[n] = IF Goes(n) THEN above[parent[n]] ELSE n
  BY <1>10 DEF IsAbove
<1> HIDE DEF len
<1> DEFINE Fine(n, m) == m \in KeptOf(N, rare) \cup {<<>>} /\ (m = <<>> \/ Len(m) <= Len(n))
           T == {n \in M : Fine(n, above[n])}
<1>12. ASSUME NEW n \in M, up[n] \in M => up[n] \in T PROVE n \in T
  <2>1. CASE Goes(n)
    <3> DEFINE p == parent[n]
    <3>1. p \in T /\ above[n] = above[p] /\ (p = <<>> \/ Len(p) < Len(n))
      BY <1>3, <1>4, <1>11, <1>12, <2>1
    <3>2. Fine(p, above[p]) /\ p \in M
      BY <3>1
    <3>3. CASE above[p] = <<>>
      BY <3>1, <3>2, <3>3
    <3>4. CASE above[p] # <<>>
      <4>1. Len(above[p]) <= Len(p) /\ above[p] \in M
        BY <3>2, <3>4 DEF KeptOf
      <4>2. Len(above[p]) \in Nat /\ Len(above[p]) > 0 /\ Len(p) \in Nat /\ Len(n) \in Nat
        BY <1>2, <3>2, <3>4, <4>1
      <4>3. Len(<<>>) = 0
        OBVIOUS
      <4>4. Len(above[n]) <= Len(n)
        BY <3>1, <4>1, <4>2, <4>3
      <4> QED BY <3>1, <3>2, <4>4
    <3> QED BY <3>3, <3>4
  <2>2. CASE ~Goes(n)
    <3>1. above[n] = n /\ Len(n) \in Nat
      BY <1>2, <1>11, <2>2
    <3>2. n \in KeptOf(N, rare) \cup {<<>>}
      BY <2>2 DEF KeptOf
    <3> QED BY <3>1, <3>2
  <2> QED BY <2>1, <2>2
<1>13. T = M
  <2>1. T \in SUBSET M
    OBVIOUS
  <2>2. Carries(M, up, T)
    <3> HIDE DEF T
    <3> QED BY <1>12 DEF Carries
  <2> HIDE DEF T, up, M
  <2> QED BY <1>5, <2>1, <2>2, DownInduction
<1> QED BY <1>13

(* The heads that stay, in the order of their supports.                    *)
Lighter(H, m, n) == H[m].sup < H[n].sup \/ (H[m].sup = H[n].sup /\ m < n)

LightFirst(H, S) ==
  [n \in 1 .. Tree!Cardinality(S) |->
     CHOOSE x \in S : Tree!Cardinality({y \in S : Lighter(H, y, x)}) = n - 1]

EachOnce(r, l, S) ==
  /\ l \in Nat /\ r \in [1 .. l -> S]
  /\ \A x \in S : \E n \in 1 .. l : r[n] = x
  /\ \A m, n \in 1 .. l : r[m] = r[n] => m = n

(* The heads that stay are listed once each.                               *)
LEMMA HeadsOrdered ==
  ASSUME NEW H \in Seq(HeadRecord), NEW S \in SUBSET DOMAIN H
  PROVE  EachOnce(LightFirst(H, S), Cardinality(S), S)
<1> DEFINE r == LightFirst(H, S)
           R == {p \in S \X S : Lighter(H, p[1], p[2])}
           P(n, x) == Tree!Cardinality({y \in S : Lighter(H, y, x)}) = n - 1
           Q(n, x) == Cardinality(Below(R, S, x)) = n - 1
<1>1. IsFiniteSet(S) /\ Cardinality(S) \in Nat
  <2>1. IsFiniteSet(DOMAIN H)
    <3>1. DOMAIN H = 1 .. Len(H) /\ Len(H) \in Nat
      OBVIOUS
    <3>2. IsFiniteSet(1 .. Len(H))
      BY <3>1, FS_Interval
    <3> QED BY <3>1, <3>2
  <2>2. IsFiniteSet(S)
    BY <2>1, FS_Subset
  <2> QED BY <2>2, FS_CardinalityType
<1>2. \A n, x : x \in S => (P(n, x) <=> Q(n, x))
  <2>1. \A x \in S : {y \in S : Lighter(H, y, x)} = Below(R, S, x)
    BY DEF Below
  <2> QED BY <2>1, TreeCounts
<1>3. \A n : (CHOOSE x \in S : P(n, x)) = (CHOOSE x \in S : Q(n, x))
  <2> HIDE DEF P, Q
  <2> QED BY <1>2
<1>4. r = [n \in 1 .. Cardinality(S) |-> CHOOSE x \in S : P(n, x)]
  <2>1. Tree!Cardinality(S) = Cardinality(S)
    BY TreeCounts
  <2> QED BY <2>1, Zenon DEF LightFirst
<1> HIDE DEF P
<1>5. r = [n \in 1 .. Cardinality(S) |-> CHOOSE x \in S : Q(n, x)]
  <2> HIDE DEF Q
  <2> QED BY <1>3, <1>4
<1> HIDE DEF r
<1>6. Orders(R, S)
  <2>1. \A m \in S : m \in Int /\ H[m].sup \in Int
    <3>1. \A m \in S : H[m] \in HeadRecord /\ m \in Int
      OBVIOUS
    <3> QED BY <3>1 DEF HeadRecord
  <2>2. \A m, n \in S : <<m, n>> \in R <=> Lighter(H, m, n)
    OBVIOUS
  <2> HIDE DEF R
  <2>3. \A m \in S : ~Lighter(H, m, m)
    BY <2>1 DEF Lighter
  <2>4. \A m, n \in S : m = n \/ Lighter(H, m, n) \/ Lighter(H, n, m)
    BY <2>1 DEF Lighter
  <2>5. \A m, n, l \in S : Lighter(H, m, n) /\ Lighter(H, n, l) => Lighter(H, m, l)
    BY <2>1 DEF Lighter
  <2> QED BY <2>2, <2>3, <2>4, <2>5 DEF Orders
<1> HIDE DEF R
<1>7. Ranked(r, R, S)
  BY <1>1, <1>5, <1>6, RanksOrder
<1> DEFINE c == Cardinality(S)
<1>8. \A m, n \in 1 .. c : r[m] = r[n] => m = n
  <2> SUFFICES ASSUME NEW m \in 1 .. c, NEW n \in 1 .. c, r[m] = r[n] PROVE m = n
    OBVIOUS
  <2>1. ~(m < n) /\ ~(n < m)
    <3>1. /\ m < m <=> <<r[m], r[m]>> \in R
          /\ m < n <=> <<r[m], r[n]>> \in R
          /\ n < m <=> <<r[n], r[m]>> \in R
      <4> HIDE DEF r
      <4> QED BY <1>7 DEF Ranked
    <3>2. ~(m < m)
      BY <1>1
    <3> QED BY <3>1, <3>2
  <2> QED BY <1>1, <2>1
<1> QED BY <1>1, <1>7, <1>8 DEF Ranked, EachOnce, r

(* A pruned tree is sound: no node hangs on one that went (prune).         *)
LEMMA PruneIsSound ==
  ASSUME NEW c \in SoundTrees
  PROVE  Tree!prune(c) \in SoundTrees
<1> DEFINE N == Tree!Node(c)
           H == c.heads
           rare == {H[m].item : m \in {n \in DOMAIN H : H[n].sup < min_sup}}
           above == CHOOSE it : IsAbove(it, N, c.parent, rare)
           kept == KeptOf(N, rare)
           S == {m \in DOMAIN H : H[m].item \notin rare}
           order == LightFirst(H, S)
           l == Cardinality(S)
           sup2 == [n \in kept |-> c.sup[n]]
           parent2 == [n \in kept |-> above[c.parent[n]]]
           J == [m \in DOMAIN order |-> H[order[m]]]
<1>1. Tree!prune(c) = [sup |-> sup2, parent |-> parent2, heads |-> J]
  BY DEF Tree!prune, Tree!InOrder, IsAbove, KeptOf, LightFirst, Lighter
<1>2. IsSound(N, c.sup, c.parent, H)
  BY SoundTreesAre, SoundParts
<1>3. H \in Seq(HeadRecord)
  BY <1>2 DEF IsSound, HeadsList
<1>4. EachOnce(order, l, S)
  <2>1. S \in SUBSET DOMAIN H
    OBVIOUS
  <2> HIDE DEF S, H
  <2> QED BY <1>3, <2>1, HeadsOrdered
<1>5. \A n \in N \cup {<<>>} :
        /\ above[n] \in kept \cup {<<>>}
        /\ above[n] = <<>> \/ Len(above[n]) <= Len(n)
  <2> HIDE DEF N, rare
  <2> QED BY <1>2, AboveIs
<1> HIDE DEF order, above
<1>6. kept \in SUBSET N
  BY DEF KeptOf
<1>7. sup2 \in [kept -> Nat]
  <2> HIDE DEF kept, N
  <2> QED BY <1>2, <1>6 DEF IsSound
<1>8. ASSUME NEW n \in kept
      PROVE  parent2[n] \in kept \cup {<<>>} /\ (parent2[n] = <<>> \/ Len(parent2[n]) < Len(n))
  <2> DEFINE p == c.parent[n]
  <2>1. n \in N /\ p \in N \cup {<<>>} /\ (p = <<>> \/ Len(p) < Len(n)) /\ parent2[n] = above[p]
    BY <1>2, <1>6 DEF IsSound
  <2>2. above[p] \in kept \cup {<<>>} /\ (above[p] = <<>> \/ Len(above[p]) <= Len(p))
    BY <1>5, <2>1
  <2>3. \A m \in N : Len(m) \in Nat /\ Len(m) > 0
    <3> SUFFICES ASSUME NEW m \in N PROVE Len(m) \in Nat /\ Len(m) > 0
      OBVIOUS
    <3>1. m \in Seq(Nat) /\ m # <<>>
      BY <1>2 DEF IsSound
    <3> QED BY <3>1
  <2> HIDE DEF kept, N, p, parent2
  <2>4. CASE above[p] = <<>>
    BY <2>1, <2>4
  <2>5. CASE above[p] # <<>>
    <3>1. above[p] \in N /\ Len(above[p]) <= Len(p)
      BY <1>6, <2>2, <2>5
    <3>2. p # <<>>
      <4>1. Len(<<>>) = 0
        OBVIOUS
      <4> QED BY <2>3, <3>1, <4>1
    <3>3. Len(above[p]) < Len(n)
      BY <2>1, <2>3, <3>1, <3>2
    <3> QED BY <2>1, <2>2, <3>3
  <2> QED BY <2>4, <2>5
<1>9. \A x : x \notin rare => NodesOf(kept, x) = NodesOf(N, x)
  <2> HIDE DEF rare, N
  <2> QED BY DEF NodesOf, KeptOf
<1>10. DOMAIN J = 1 .. l /\ \A m \in 1 .. l : order[m] \in S /\ J[m] = H[order[m]]
  BY <1>4 DEF EachOnce
<1>11. \A m \in S : m \in DOMAIN H /\ H[m].item \notin rare
  OBVIOUS
<1>12. \A m \in DOMAIN H : H[m].item \notin rare => m \in S
  OBVIOUS
<1> HIDE DEF J, S, l, N, H
<1>13. HeadsList(kept, J)
  <2>1. J \in Seq(HeadRecord)
    <3>1. \A m \in 1 .. l : J[m] \in HeadRecord
      BY <1>3, <1>10, <1>11
    <3>2. J \in [1 .. l -> HeadRecord]
      BY <1>10, <3>1 DEF J
    <3> QED BY <1>4, <3>2, AsSeq DEF EachOnce
  <2>2. \A m \in 1 .. l : Tree!Range(J[m].nodes) = NodesOf(kept, J[m].item)
    <3> HIDE DEF rare, kept
    <3> QED BY <1>2, <1>9, <1>10, <1>11 DEF IsSound, HeadsList
  <2>3. \A m, n \in 1 .. l : J[m].item = J[n].item => m = n
    <3>1. \A m, n \in DOMAIN H : H[m].item = H[n].item => m = n
      BY <1>2 DEF IsSound, HeadsList
    <3>2. \A m \in 1 .. l : order[m] \in DOMAIN H /\ J[m] = H[order[m]]
      BY <1>10, <1>11
    <3>3. \A m, n \in 1 .. l : order[m] = order[n] => m = n
      BY <1>4 DEF EachOnce
    <3> QED BY <3>1, <3>2, <3>3
  <2>4. \A n \in kept : \E m \in 1 .. l : J[m].item = Tree!Last(n)
    <3> SUFFICES ASSUME NEW n \in kept PROVE \E m \in 1 .. l : J[m].item = Tree!Last(n)
      OBVIOUS
    <3>1. n \in N /\ Tree!Last(n) \notin rare
      BY DEF KeptOf
    <3>2. PICK x \in DOMAIN H : H[x].item = Tree!Last(n)
      BY <1>2, <3>1 DEF IsSound, HeadsList
    <3>3. x \in S
      BY <1>12, <3>1, <3>2
    <3>4. PICK m \in 1 .. l : order[m] = x
      BY <1>4, <3>3 DEF EachOnce
    <3> QED BY <1>10, <3>2, <3>4
  <2> QED BY <1>10, <2>1, <2>2, <2>3, <2>4 DEF HeadsList
<1>14. HeadsSum(kept, sup2, J)
  <2> SUFFICES ASSUME NEW m \in 1 .. l PROVE J[m].sup = SumOver(NodesOf(kept, J[m].item), sup2)
    BY <1>10 DEF HeadsSum
  <2> DEFINE x == J[m].item
             D == NodesOf(N, x)
  <2>1. NodesOf(kept, x) = D /\ J[m].sup = SumOver(D, c.sup)
    <3> HIDE DEF rare, kept
    <3> QED BY <1>2, <1>9, <1>10, <1>11 DEF IsSound, HeadsSum
  <2>2. \A n \in D : n \in kept /\ n \in N
    <3>1. x \notin rare
      BY <1>10, <1>11
    <3> HIDE DEF rare
    <3> QED BY <3>1 DEF NodesOf, KeptOf
  <2>3. IsFiniteSet(D)
    BY <1>2, FS_Subset DEF IsSound, NodesOf
  <2>4. \A n \in D : c.sup[n] \in Int /\ c.sup[n] = sup2[n]
    <3> HIDE DEF kept, D
    <3> QED BY <1>2, <2>2 DEF IsSound
  <2> HIDE DEF D, sup2
  <2>5. SumOver(D, c.sup) = SumOver(D, sup2)
    BY <2>3, <2>4, SumSame
  <2> QED BY <2>1, <2>5
<1>15. IsSound(kept, sup2, parent2, J)
  <2>1. IsFiniteSet(kept) /\ kept \in SUBSET Seq(Nat) /\ <<>> \notin kept
    BY <1>2, <1>6, FS_Subset DEF IsSound
  <2>2. parent2 \in [kept -> kept \cup {<<>>}]
    <3> HIDE DEF kept
    <3> QED BY <1>8
  <2>3. \A n \in kept : parent2[n] = <<>> \/ Len(parent2[n]) < Len(n)
    BY <1>8
  <2> HIDE DEF kept, sup2, parent2
  <2> QED BY <1>7, <1>13, <1>14, <2>1, <2>2, <2>3 DEF IsSound
<1> HIDE DEF kept, sup2, parent2
<1>16. SoundTree(Tree!prune(c))
  BY <1>1, <1>15, SoundOfParts
<1> QED BY <1>16, SoundTreesAre

-----------------------------------------------------------------------------
(* The transactions stay, and so does what is said of them.                *)
LEMMA SupportsStay ==
  ASSUME data_' = data_
  PROVE  /\ \A S : Tree!Support(S)' = Tree!Support(S)
         /\ \A x, y : Tree!Precedes(x, y)' = Tree!Precedes(x, y)
<1>1. \A S : Tree!Support(S)' = Tree!Support(S)
  BY DEF Tree!Support
<1> QED BY <1>1 DEF Tree!Precedes

LEMMA KeptWhenSame ==
  ASSUME data_' = data_
  PROVE  /\ Frequent' = Frequent
         /\ \A S : Rarest(S)' = Rarest(S)
<1>1. Frequent' = Frequent
  BY SupportsStay DEF Frequent
<1>2. \A S : Rarest(S)' = Rarest(S)
  BY SupportsStay, Zenon DEF Rarest
<1> QED BY <1>1, <1>2

LEMMA MadeStays ==
  ASSUME data_' = data_, MadeTree(tree')
  PROVE  MadeTree(tree)'
<1>1. NodesArePaths(tree)'
  BY SupportsStay, KeptWhenSame DEF MadeTree, NodesArePaths, Tree!Node, Tree!Last, Tree!Front
<1>2. HeadsCount(tree)'
  BY SupportsStay, KeptWhenSame DEF MadeTree, HeadsCount
<1>3. (tree \in Trees)' /\ HeadsList(Tree!Node(tree), tree.heads)'
  BY DEF MadeTree
<1> QED BY <1>1, <1>2, <1>3 DEF MadeTree

LEMMA SupportStays ==
  ASSUME data_' = data_, IsTree(tree'), KeepsSupport(tree', read')
  PROVE  IsTree(tree)' /\ KeepsSupport(tree, read)'
<1>1. IsTree(tree)'
  BY DEF IsTree, Tree!Node
<1>2. \A S : EndsOf(tree', S) = EndsOf(tree, S)'
  BY KeptWhenSame DEF EndsOf, EndsAt, Tree!Node
<1>3. \A S : SumOver(EndsOf(tree', S), tree'.sup) = SumOver(EndsOf(tree, S), tree.sup)'
  BY <1>2
<1>4. \A S : Having(data_, read', S) = Having(data_, read, S)'
  BY DEF Having
<1>5. KeepsSupport(tree, read)'
  BY <1>3, <1>4, KeptWhenSame DEF KeepsSupport
<1> QED BY <1>1, <1>5

-----------------------------------------------------------------------------
(* The tree of the transactions counts them, whichever of their items are  *)
(* asked for; and the trees of the calls of fp_growth are sound.           *)
SoundCalls == [tree : SoundTrees, pos : Nat \ {0}, suffix : SUBSET Nat]

TreeInv ==
  /\ data_ \in Databases
  /\ read \in 0 .. Len(data_)
  /\ mining = "counting" => tree = Tree!EmptyTree /\ read = 0
  /\ mining = "inserting" => IsTree(tree) /\ MadeTree(tree) /\ KeepsSupport(tree, read)
  /\ stack \in Seq(SoundCalls)

(* What fp_growth projects a sound tree on is sound.                       *)
LEMMA ProjectionIsSound ==
  ASSUME NEW t \in SoundTrees, NEW m \in DOMAIN t.heads
  PROVE  /\ Tree!create_condition_fptree(t, t.heads[m].nodes) \in SoundTrees
         /\ t.heads[m].item \in Nat
<1>1. IsSound(Tree!Node(t), t.sup, t.parent, t.heads)
  BY SoundTreesAre, SoundParts
<1>2. t.heads[m] \in HeadRecord /\ Tree!Range(t.heads[m].nodes) \in SUBSET Tree!Node(t)
  BY <1>1 DEF IsSound, HeadsList, NodesOf
<1>3. t.heads[m].nodes \in Seq(Seq(Nat))
  BY <1>2 DEF HeadRecord
<1> DEFINE nodes == t.heads[m].nodes
<1>4. \A n \in 1 .. Len(nodes) : nodes[n] \in Tree!Node(t)
  BY <1>2, <1>3 DEF Tree!Range
<1>5. nodes \in Seq(Tree!Node(t))
  <2>1. Len(nodes) \in Nat /\ nodes = [n \in 1 .. Len(nodes) |-> nodes[n]]
    BY <1>3
  <2> HIDE DEF nodes
  <2>2. nodes \in [1 .. Len(nodes) -> Tree!Node(t)]
    BY <1>4, <2>1
  <2> QED BY <2>1, <2>2, AsSeq
<1> HIDE DEF nodes
<1>6. Projected(t, nodes) \in SoundTrees
  BY <1>5, PathsAreSound
<1>7. Tree!create_condition_fptree(t, nodes) = Tree!prune(Projected(t, nodes))
  BY DEF Tree!create_condition_fptree, Projected
<1>8. Tree!create_condition_fptree(t, nodes) \in SoundTrees
  BY <1>6, <1>7, PruneIsSound
<1> QED BY <1>2, <1>8 DEF nodes, HeadRecord

LEMMA LastCall ==
  ASSUME NEW X, NEW s \in Seq(X), s # <<>>
  PROVE  Tree!Last(s) \in X /\ Tree!Front(s) \in Seq(X)
<1>1. Len(s) \in Nat \ {0} /\ \A n \in 1 .. Len(s) : s[n] \in X
  OBVIOUS
<1> QED BY <1>1 DEF Tree!Last, Tree!Front

(* fp_growth calls itself with sound trees.                                *)
LEMMA GrowthKeepsSound ==
  ASSUME stack \in Seq(SoundCalls), stack # <<>>, Tree!GrowHead
  PROVE  stack' \in Seq(SoundCalls)
<1> DEFINE top == Tree!Last(stack)
           head == top.tree.heads[top.pos]
           cheads == Tree!create_condition_fptree(top.tree, head.nodes)
           later == [top EXCEPT !.pos = @ + 1]
           called == Tree!Call(cheads, {head.item} \cup top.suffix)
<1>1. top \in SoundCalls /\ Tree!Front(stack) \in Seq(SoundCalls)
  BY LastCall
<1>2. /\ top.pos <= Len(top.tree.heads)
      /\ stack' = Append(Tree!Front(stack), later) \o (IF cheads.heads = <<>> THEN <<>> ELSE <<called>>)
  BY DEF Tree!GrowHead
<1>3. top.tree \in SoundTrees /\ top.pos \in Nat \ {0} /\ top.suffix \in SUBSET Nat
  BY <1>1 DEF SoundCalls
<1>4. top.pos \in DOMAIN top.tree.heads
  <2>1. top.tree.heads \in Seq(HeadRecord)
    BY <1>3, SoundTreesAre, SoundParts DEF IsSound, HeadsList
  <2> HIDE DEF top
  <2>2. DOMAIN top.tree.heads = 1 .. Len(top.tree.heads) /\ Len(top.tree.heads) \in Nat
    BY <2>1
  <2>3. top.pos <= Len(top.tree.heads)
    BY DEF Tree!GrowHead, top
  <2>4. top.pos \in Nat \ {0}
    BY <1>3
  <2> QED BY <2>2, <2>3, <2>4
<1>5. cheads \in SoundTrees /\ head.item \in Nat
  BY <1>3, <1>4, ProjectionIsSound
<1>6. later \in SoundCalls
  <2>1. top.pos + 1 \in Nat \ {0}
    BY <1>3
  <2> HIDE DEF top
  <2>2. [top EXCEPT !.pos = top.pos + 1] \in SoundCalls
    BY <1>1, <2>1 DEF SoundCalls
  <2> QED BY <2>2
<1> HIDE DEF cheads, head
<1>7. called \in SoundCalls
  BY <1>3, <1>5 DEF SoundCalls, Tree!Call
<1> HIDE DEF top, later, called
<1>8. Append(Tree!Front(stack), later) \in Seq(SoundCalls)
  BY <1>1, <1>6
<1>9. CASE cheads.heads = <<>>
  <2>1. stack' = Append(Tree!Front(stack), later) \o <<>>
    BY <1>2, <1>9
  <2> QED BY <1>8, <2>1
<1>10. CASE cheads.heads # <<>>
  BY <1>2, <1>7, <1>8, <1>10
<1> QED BY <1>9, <1>10

(* Each step of the mining keeps the invariant.                            *)
LEMMA TreeKept == TreeInv /\ [Tree!Next]_(Tree!vars) => TreeInv'
<1> SUFFICES ASSUME TreeInv, [Tree!Next]_(Tree!vars) PROVE TreeInv'
  OBVIOUS
<1>1. /\ data_ \in Databases /\ Transactions(data_)
      /\ Len(data_) \in Nat /\ read \in 0 .. Len(data_) /\ stack \in Seq(SoundCalls)
  BY PatternData DEF TreeInv
<1>2. CASE Tree!FindFreqItems
  <2>1. /\ mining = "counting" /\ mining' = "inserting" /\ data_' = data_
        /\ read' = read /\ stack' = stack
    BY <1>2 DEF Tree!FindFreqItems
  <2>2. MadeTree(tree') /\ Tree!Node(tree') = {} /\ IsTree(tree') /\ read' = 0
    BY <1>1, <1>2, <2>1, HeadsMade DEF TreeInv
  <2>3. KeepsSupport(tree', read')
    BY <2>2, NothingCounted
  <2> QED BY <1>1, <2>1, <2>2, <2>3, MadeStays, SupportStays DEF TreeInv
<1>3. CASE Tree!InsertTransaction
  <2> DEFINE u == Tree!insert_tree(tree, Tree!order_by(data_[read + 1]))
  <2>1. /\ mining = "inserting" /\ mining' = "inserting" /\ data_' = data_ /\ stack' = stack
        /\ read < Len(data_) /\ read' = read + 1 /\ tree' = u
    BY <1>3 DEF Tree!InsertTransaction
  <2>2. IsTree(tree) /\ MadeTree(tree) /\ KeepsSupport(tree, read)
    BY <2>1 DEF TreeInv
  <2>3. Inserted(tree, u, Tree!order_by(data_[read + 1]))
    BY InsertInserts
  <2>4. read \in 0 .. Len(data_) - 1 /\ read + 1 \in 0 .. Len(data_)
    BY <1>1, <2>1
  <2>5. IsTree(u) /\ KeepsSupport(u, read + 1)
    BY <1>1, <2>2, <2>3, <2>4, InsertKeepsSupport
  <2>6. MadeTree(u)
    BY <1>1, <2>2, <2>5, InsertMakes
  <2> QED BY <1>1, <2>1, <2>4, <2>5, <2>6, MadeStays, SupportStays DEF TreeInv
<1>4. CASE Tree!BeginGrowth
  <2>1. /\ mining = "inserting" /\ mining' = "growing" /\ read = Len(data_)
        /\ stack' = <<Tree!Call(tree, {})>> /\ data_' = data_ /\ read' = read
    BY <1>4 DEF Tree!BeginGrowth
  <2>2. tree \in SoundTrees
    BY <1>1, <2>1, MadeIsSound, SoundTreesAre DEF TreeInv
  <2>3. Tree!Call(tree, {}) \in SoundCalls
    BY <2>2 DEF Tree!Call, SoundCalls
  <2>4. stack' \in Seq(SoundCalls)
    BY <2>1, <2>3
  <2> QED BY <1>1, <2>1, <2>4 DEF TreeInv
<1>5. CASE Tree!GenerateRules
  <2>1. /\ mining = "growing" /\ mining' = mining /\ data_' = data_ /\ read' = read
        /\ stack # <<>> /\ stack' = Tree!Front(stack)
    BY <1>5 DEF Tree!GenerateRules
  <2> QED BY <1>1, <2>1, LastCall DEF TreeInv
<1>6. CASE Tree!GrowHead
  <2>1. /\ mining = "growing" /\ mining' = mining /\ data_' = data_ /\ read' = read
        /\ stack # <<>>
    BY <1>6 DEF Tree!GrowHead
  <2> QED BY <1>1, <1>6, <2>1, GrowthKeepsSound DEF TreeInv
<1>7. CASE Tree!Return
  <2>1. /\ mining = "growing" /\ mining' = mining /\ data_' = data_ /\ read' = read
        /\ stack # <<>> /\ stack' = Tree!Front(stack)
    BY <1>7 DEF Tree!Return
  <2> QED BY <1>1, <2>1, LastCall DEF TreeInv
<1>8. CASE Tree!Finish
  <2>1. mining' = "done" /\ data_' = data_ /\ read' = read /\ stack' = stack
    BY <1>8 DEF Tree!Finish
  <2> QED BY <1>1, <2>1 DEF TreeInv
<1>9. CASE UNCHANGED Tree!vars
  <2>1. /\ mining' = mining /\ data_' = data_ /\ read' = read /\ stack' = stack /\ tree' = tree
    BY <1>9 DEF Tree!vars
  <2> QED BY <1>1, <2>1, MadeStays, SupportStays DEF TreeInv
<1> QED BY <1>2, <1>3, <1>4, <1>5, <1>6, <1>7, <1>8, <1>9 DEF Tree!Next

LEMMA TreeStarts == Tree!Init => TreeInv
<1> SUFFICES ASSUME Tree!Init PROVE TreeInv
  OBVIOUS
<1>1. data_ \in Databases /\ read = 0 /\ tree = Tree!EmptyTree /\ stack = <<>> /\ mining = "counting"
  BY DEF Tree!Init
<1>2. Len(data_) \in Nat
  BY <1>1, PatternData
<1> QED BY <1>1, <1>2 DEF TreeInv

LEMMA PartsRunTree == PartsSpec => Tree!Spec
<1>1. PartsInit => Tree!Init BY DEF PartsInit
<1>2. [PartsNext]_partsVars => [Tree!Next]_(Tree!vars)
  BY DEF PartsNext, partsVars, treeVars, Tree!vars
<1> QED BY <1>1, <1>2, PTL DEF PartsSpec, Tree!Spec

(* While transactions are inserted, the tree has the number of those read  *)
(* so far that have a set of frequent items among theirs, for every such   *)
(* set: on the nodes of the rarest of them, below the others               *)
(* (find_freq_items, sort_and_filter, insert_tree).                        *)
THEOREM TreeHasSupports == PartsSpec => []TreeKeepsSupport
<1>1. TreeInv => TreeKeepsSupport
  <2> SUFFICES ASSUME TreeInv PROVE TreeKeepsSupport
    OBVIOUS
  <2>1. CASE mining = "inserting"
    BY <2>1, PatternData, KeepsIsKept DEF TreeInv
  <2>2. CASE mining # "inserting"
    BY <2>2 DEF TreeKeepsSupport, Tree!TreeKeepsSupport
  <2> QED BY <2>1, <2>2
<1> QED BY <1>1, TreeStarts, TreeKept, PartsRunTree, PTL DEF Tree!Spec

(* However deep fp_growth has gone, each tree of its calls is sound: a     *)
(* node's parent is there, the node is in the list of its item, and the    *)
(* support of an item is that of its nodes (project_path, prune).          *)
THEOREM ProjectionsAreSound == PartsSpec => []TreesAreSound
<1>1. TreeInv => TreesAreSound
  <2> SUFFICES ASSUME TreeInv, NEW c \in DOMAIN stack PROVE SoundTree(stack[c].tree)
    BY SoundIsSound DEF TreesAreSound, Tree!TreesAreSound
  <2>1. stack[c] \in SoundCalls
    BY DEF TreeInv
  <2> QED BY <2>1, SoundTreesAre DEF SoundCalls
<1> QED BY <1>1, TreeStarts, TreeKept, PartsRunTree, PTL DEF Tree!Spec
=============================================================================
