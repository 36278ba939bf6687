-------------------------- MODULE SimilarityProofs --------------------------
(***************************************************************************)
(* The search for similar documents puts each pair exactly once, and the   *)
(* database has the best: TypeOK, EachPairOnce and IndexIsBest for any     *)
(* data sets, weights, threshold and limit.  The terms: a context keeps    *)
(* its vector, what is stored is the sum of what was appended, and the     *)
(* table has the best of each term: VectorsAreKept, StorageIsSum and       *)
(* TableIsBest for any terms, contexts and vectors.                        *)
(***************************************************************************)
EXTENDS Similarity, SequenceTheorems, FoldLemmas

(* How many vectors of a data set are read. *)
ToRead(s) == IF maxDoc # 0 /\ maxDoc < size[s] THEN maxDoc ELSE size[s]

(* One of the inputs, or what the class runs on when it is given none. *)
AnyInput == Inputs \cup {<<1>>}

(* Only a single data set is cut. *)
InputOK == size \in AnyInput /\ (maxDoc # 0 => Len(size) = 1)

(* The index has what was read of the data set that is indexed. *)
IndexOK ==
  pc = "searching" =>
    /\ read <= ToRead(j)
    /\ invertedLists_ = {d \in Doc : d[1] = i /\ d[2] <= IF j = i THEN read ELSE ToRead(i)}

(* Whether the search is past the pair of d and e, d the first of the two. *)
IsPast(d, e) == d[1] < i \/ (d[1] = i /\ (e[1] < j \/ (e[1] = j /\ e[2] <= read)))

Past == {p \in Similar : IF Before(p[1], p[2]) THEN IsPast(p[1], p[2]) ELSE IsPast(p[2], p[1])}

(* The similar pairs that the search is past were put once; when it is     *)
(* through these are all.                                                  *)
PairsOK ==
  /\ pc = "idle" => sorter_ = NoPairs
  /\ pc = "searching" => sorter_ = [p \in Pairs |-> IF p \in Past THEN 1 ELSE 0]
  /\ pc \in {"constructing", "finished"} => sorter_ = [p \in Pairs |-> IF p \in Similar THEN 1 ELSE 0]

SimilarTo(d) == {e \in Doc : <<d, e>> \in Sorted}

(* The pairs of one document come one after the other, and what was given  *)
(* of those of the last is in the list.                                    *)
ListOK ==
  /\ Sorted # {} /\ unread \subseteq Sorted
  /\ lastIndexId = NoDoc => unread = Sorted
  /\ listData = {e \in Doc : <<lastIndexId, e>> \in Sorted \ unread}
  /\ lastIndexId # NoDoc => listData # {}
  /\ \A p \in Sorted \ unread, q \in unread : p[1] = q[1] => p[1] = lastIndexId
  /\ \A q \in unread : lastIndexId # NoDoc => q[1] = lastIndexId \/ Before(lastIndexId, q[1])

(* The documents that are through have the best, or what they had. *)
Through(d) == d # lastIndexId /\ SimilarTo(d) # {} /\ \A q \in unread : q[1] # d

HasBest(d) == IF d \in failed THEN db_[d] = before[d] ELSE db_[d] \in BestLists(d, SimilarTo(d))

IndexedOK ==
  /\ pc = "searching" => db_ = before
  /\ pc = "constructing" =>
       /\ ListOK
       /\ \A d \in Doc : IF Through(d) THEN HasBest(d) ELSE db_[d] = before[d] /\ d \notin failed

SearchInv == TypeOK /\ InputOK /\ IndexOK /\ PairsOK /\ IndexedOK /\ IndexIsBest

-----------------------------------------------------------------------------
(* The sizes are a sequence of positive numbers within the bounds. *)
LEMMA SizeType ==
  ASSUME NEW s \in AnyInput
  PROVE  /\ s \in Seq(1 .. MaxSize) /\ Len(s) \in 1 .. MaxSets
         /\ \A n \in 1 .. Len(s) : s[n] \in 1 .. MaxSize
<1> USE InputsAssumption
<1>1. CASE s = <<1>> BY <1>1
<1>2. CASE s \in Inputs
  <2>1. PICK n \in 1 .. MaxSets : s \in [1 .. n -> 1 .. MaxSize] BY <1>2
  <2>2. s \in Seq(1 .. MaxSize) BY <2>1, SeqDef
  <2>3. Len(s) = n BY <2>1, <2>2, LenProperties
  <2> QED BY <2>1, <2>2, <2>3
<1> QED BY <1>1, <1>2 DEF AnyInput

(* What the type invariant says of the sizes, by name. *)
LEMMA SizeOK ==
  ASSUME InputOK, TypeOK
  PROVE  /\ dataSetNum \in 1 .. MaxSets
         /\ \A n \in 1 .. dataSetNum : size[n] \in 1 .. MaxSize /\ ToRead(n) \in 1 .. size[n]
         /\ i \in 1 .. dataSetNum /\ j \in 1 .. dataSetNum /\ i <= j /\ read \in Nat
<1>1. dataSetNum \in 1 .. MaxSets /\ \A n \in 1 .. dataSetNum : size[n] \in 1 .. MaxSize
  BY SizeType DEF InputOK, dataSetNum
<1>2. maxDoc \in Nat BY DEF TypeOK
<1>3. \A n \in 1 .. dataSetNum : ToRead(n) \in 1 .. size[n] BY <1>1, <1>2 DEF ToRead
<1>4. i \in 1 .. dataSetNum /\ j \in i .. dataSetNum BY DEF TypeOK
<1>5. size[j] \in Nat /\ read \in 0 .. size[j] BY <1>1, <1>4 DEF TypeOK
<1> QED BY <1>1, <1>3, <1>4, <1>5, InputsAssumption

(* The documents given are those that are read. *)
LEMMA GivenAreRead ==
  ASSUME InputOK, TypeOK, NEW d \in Doc
  PROVE  d \in Given <=> d[1] <= dataSetNum /\ d[2] <= ToRead(d[1])
<1>1. d[1] \in 1 .. MaxSets /\ d[2] \in 1 .. MaxSize BY DEF Doc
<1>2. maxDoc \in Nat BY DEF TypeOK
<1>3. CASE d[1] <= dataSetNum
  <2>1. size[d[1]] \in 1 .. MaxSize BY <1>1, <1>3, SizeOK
  <2> QED BY <1>1, <1>2, <1>3, <2>1, InputsAssumption DEF Given, ToRead
<1>4. CASE ~(d[1] <= dataSetNum) BY <1>4 DEF Given
<1> QED BY <1>3, <1>4

LEMMA EndIsEnd ==
  ASSUME InputOK, TypeOK, IndexOK, pc = "searching"
  PROVE  AtEnd <=> read = ToRead(j)
<1>1. size[j] \in Nat /\ ToRead(j) \in 1 .. size[j] /\ read \in Nat BY SizeOK, InputsAssumption
<1>2. maxDoc \in Nat /\ read <= ToRead(j) BY DEF TypeOK, IndexOK
<1> QED BY <1>1, <1>2 DEF AtEnd, ToRead

LEMMA InitInv == Init => SearchInv
<1> SUFFICES ASSUME Init PROVE SearchInv OBVIOUS
<1> USE DEF Init
<1>1. TypeOK
  <2>1. dataSetNum = 1 BY DEF dataSetNum
  <2>2. NoPairs \in [Pairs -> Nat] BY DEF NoPairs
  <2> QED BY <2>1, <2>2 DEF TypeOK
<1>2. InputOK BY DEF InputOK, AnyInput
<1>3. IndexOK /\ PairsOK /\ IndexedOK /\ IndexIsBest BY DEF IndexOK, PairsOK, IndexedOK, IndexIsBest
<1> QED BY <1>1, <1>2, <1>3 DEF SearchInv

-----------------------------------------------------------------------------
(* A vector that is read is one of the documents given, the next of its    *)
(* data set, and what it matches is similar and was not put before.        *)
LEMMA MatchesAreNext ==
  ASSUME SearchInv, pc = "searching", ~AtEnd,
         NEW p \in Pairs
  PROVE  LET d == <<j, read + 1>>
             past(e, f) == e[1] < i \/ (e[1] = i /\ (f[1] < j \/ (f[1] = j /\ f[2] <= read + 1)))
         IN  /\ p \in Matches(d) => p \in Similar /\ p \notin Past
             /\ p \in Past \/ p \in Matches(d) <=>
                  /\ p \in Similar
                  /\ IF Before(p[1], p[2]) THEN past(p[1], p[2]) ELSE past(p[2], p[1])
<1> DEFINE d == <<j, read + 1>>
           past(e, f) == e[1] < i \/ (e[1] = i /\ (f[1] < j \/ (f[1] = j /\ f[2] <= read + 1)))
<1>0. TypeOK /\ InputOK /\ IndexOK BY DEF SearchInv
<1>1. /\ dataSetNum \in Nat /\ i \in Nat /\ j \in Nat /\ i <= j /\ j <= dataSetNum /\ read \in Nat
      /\ read + 1 <= ToRead(j) /\ ToRead(i) \in Nat /\ ToRead(j) \in Nat
  <2>1. read <= ToRead(j) /\ read # ToRead(j) BY <1>0, EndIsEnd DEF IndexOK
  <2> QED BY <1>0, <2>1, SizeOK, InputsAssumption
<1>2. PICK e \in Doc, f \in Doc : p = <<e, f>> BY DEF Pairs
<1>3. /\ e = <<e[1], e[2]>> /\ f = <<f[1], f[2]>>
      /\ e[1] \in Nat /\ e[2] \in Nat /\ f[1] \in Nat /\ f[2] \in Nat
      /\ e[2] >= 1 /\ f[2] >= 1
  BY <1>2, InputsAssumption DEF Doc
<1>4. /\ e \in Given <=> e[1] <= dataSetNum /\ e[2] <= ToRead(e[1])
      /\ f \in Given <=> f[1] <= dataSetNum /\ f[2] <= ToRead(f[1])
  BY <1>0, <1>2, GivenAreRead
<1>5. p \in Similar <=> e \in Given /\ f \in Given /\ e # f /\ weight[p] > thresholdSim_
  BY <1>2 DEF Similar
<1>6. /\ e \in invertedLists_ <=> e[1] = i /\ e[2] <= IF j = i THEN read ELSE ToRead(i)
      /\ f \in invertedLists_ <=> f[1] = i /\ f[2] <= IF j = i THEN read ELSE ToRead(i)
  BY <1>0, <1>2 DEF IndexOK
<1>7. p \in Matches(d) <=>
        /\ (e = d /\ f \in invertedLists_) \/ (f = d /\ e \in invertedLists_)
        /\ weight[p] > thresholdSim_
  BY <1>2 DEF Matches
<1>8. e = d <=> e[1] = j /\ e[2] = read + 1 BY <1>3
<1>9. f = d <=> f[1] = j /\ f[2] = read + 1 BY <1>3
<1>10. e = f <=> e[1] = f[1] /\ e[2] = f[2] BY <1>3
<1>11. p \in Past <=> p \in Similar /\ IF Before(e, f) THEN IsPast(e, f) ELSE IsPast(f, e)
  BY <1>2 DEF Past
<1>12. p \in Matches(d) => p \in Similar /\ p \notin Past
  BY <1>1, <1>3, <1>4, <1>5, <1>6, <1>7, <1>8, <1>9, <1>10, <1>11 DEF IsPast, Before
<1>13. (p \in Past \/ p \in Matches(d)) =>
        p \in Similar /\ IF Before(e, f) THEN past(e, f) ELSE past(f, e)
  BY <1>1, <1>3, <1>4, <1>5, <1>6, <1>7, <1>8, <1>9, <1>10, <1>11 DEF IsPast, Before
<1>14. (p \in Similar /\ IF Before(e, f) THEN past(e, f) ELSE past(f, e)) =>
         p \in Past \/ p \in Matches(d)
  BY <1>1, <1>3, <1>4, <1>5, <1>6, <1>7, <1>8, <1>9, <1>10, <1>11 DEF IsPast, Before
<1> QED BY <1>2, <1>12, <1>13, <1>14

LEMMA ReadVectorInv == SearchInv /\ ReadVector => SearchInv'
<1> SUFFICES ASSUME SearchInv, ReadVector PROVE SearchInv' OBVIOUS
<1> DEFINE d == <<j, read + 1>>
<1>0. TypeOK /\ InputOK /\ IndexOK /\ PairsOK /\ IndexedOK BY DEF SearchInv
<1>1. /\ dataSetNum \in 1 .. MaxSets /\ i \in Nat /\ j \in 1 .. dataSetNum /\ i <= j /\ read \in Nat
      /\ size[j] \in 1 .. MaxSize /\ read + 1 <= ToRead(j) /\ ToRead(j) \in 1 .. size[j]
  <2>1. read <= ToRead(j) /\ read # ToRead(j) BY <1>0, EndIsEnd DEF IndexOK, ReadVector
  <2> QED BY <1>0, <2>1, SizeOK, InputsAssumption
<1>2. pc = "searching" /\ pc' = "searching" /\ ~AtEnd /\ read' = read + 1 BY DEF ReadVector, vars
<1>3. /\ UNCHANGED <<size, maxDoc, weight, i, j, db_, before, unread, lastIndexId, listData, failed>>
      /\ ToRead(i)' = ToRead(i) /\ ToRead(j)' = ToRead(j) /\ dataSetNum' = dataSetNum /\ Similar' = Similar
  BY DEF construction, ReadVector, input, ToRead, dataSetNum, Similar, Given
<1>4. d \in Doc BY <1>1, InputsAssumption DEF Doc
<1>5. TypeOK'
  <2>1. sorter_' \in [Pairs -> Nat] BY <1>0 DEF TypeOK, ReadVector
  <2>2. invertedLists_' \subseteq Doc BY <1>0, <1>4 DEF TypeOK, ReadVector
  <2>3. read' \in 0 .. size[j] BY <1>1, <1>2, InputsAssumption
  <2> QED BY <1>0, <1>2, <1>3, <2>1, <2>2, <2>3 DEF TypeOK
<1>6. InputOK' BY <1>0, <1>3 DEF InputOK, AnyInput
<1>7. IndexOK'
  <2>1. CASE i = j
    <3>1. \A e \in Doc : e = d <=> e[1] = j /\ e[2] = read + 1 BY DEF Doc
    <3>2. \A e \in Doc : e[2] \in Nat BY InputsAssumption DEF Doc
    <3>3. invertedLists_' = {e \in Doc : e[1] = i /\ e[2] <= read + 1}
      BY <1>0, <1>1, <1>2, <1>4, <2>1, <3>1, <3>2 DEF IndexOK, ReadVector
    <3> QED BY <1>1, <1>2, <1>3, <2>1, <3>3 DEF IndexOK
  <2>2. CASE i # j
    <3>1. invertedLists_' = invertedLists_ BY <2>2 DEF ReadVector
    <3> QED BY <1>0, <1>1, <1>2, <1>3, <2>2, <3>1 DEF IndexOK
  <2> QED BY <2>1, <2>2
<1>8. PairsOK'
  <2>1. SUFFICES sorter_' = [p \in Pairs |-> IF p \in Past' THEN 1 ELSE 0] BY <1>2 DEF PairsOK
  <2>2. sorter_' = [p \in Pairs |-> IF p \in Matches(d) THEN sorter_[p] + 1 ELSE sorter_[p]]
    BY DEF ReadVector
  <2>3. \A p \in Pairs : sorter_[p] = IF p \in Past THEN 1 ELSE 0 BY <1>0, <1>2 DEF PairsOK
  <2>4. ASSUME NEW p \in Pairs
        PROVE  /\ p \in Matches(d) => p \notin Past
               /\ p \in Past' <=> p \in Past \/ p \in Matches(d)
    BY <1>2, <1>3, MatchesAreNext DEF Past, IsPast, Before
  <2> QED BY <2>2, <2>3, <2>4
<1>9. IndexedOK' /\ IndexIsBest' BY <1>0, <1>2, <1>3 DEF IndexedOK, IndexIsBest
<1> QED BY <1>5, <1>6, <1>7, <1>8, <1>9 DEF SearchInv

(* Past the last vector of a data set, the next search place stands for    *)
(* the same pairs.                                                         *)
LEMMA NextDataSetInv == SearchInv /\ NextDataSet => SearchInv'
<1> SUFFICES ASSUME SearchInv, NextDataSet PROVE SearchInv' OBVIOUS
<1>0. TypeOK /\ InputOK /\ IndexOK /\ PairsOK /\ IndexedOK BY DEF SearchInv
<1>1. /\ dataSetNum \in Nat /\ i \in 1 .. dataSetNum /\ j \in 1 .. dataSetNum /\ i <= j
      /\ read = ToRead(j) /\ ToRead(j) \in Nat /\ j < dataSetNum
      /\ \A n \in 1 .. dataSetNum : size[n] \in Nat /\ ToRead(n) \in 1 .. size[n]
  BY <1>0, SizeOK, EndIsEnd, InputsAssumption DEF NextDataSet
<1>2. pc = "searching" /\ pc' = "searching" /\ j' = j + 1 /\ read' = 0 BY DEF NextDataSet
<1>3. /\ UNCHANGED <<size, maxDoc, weight, i, invertedLists_, sorter_, db_, before, unread, lastIndexId, listData, failed>>
      /\ ToRead(i)' = ToRead(i) /\ dataSetNum' = dataSetNum /\ Similar' = Similar
  BY DEF construction, NextDataSet, input, ToRead, dataSetNum, Similar, Given
<1>4. TypeOK'
  <2>1. j' \in i .. dataSetNum BY <1>1, <1>2
  <2>2. read' \in 0 .. size[j'] BY <1>1, <1>2
  <2> QED BY <1>0, <1>2, <1>3, <2>1, <2>2 DEF TypeOK
<1>5. InputOK' BY <1>0, <1>3 DEF InputOK, AnyInput
<1>6. IndexOK'
  <2>1. read' <= ToRead(j)'
    <3>1. ToRead(j)' = ToRead(j + 1) BY <1>2, <1>3 DEF ToRead
    <3> QED BY <1>1, <1>2, <3>1
  <2>2. invertedLists_ = {d \in Doc : d[1] = i /\ d[2] <= ToRead(i)}
    <3>1. (IF j = i THEN read ELSE ToRead(i)) = ToRead(i) BY <1>1
    <3> QED BY <1>0, <1>2, <3>1 DEF IndexOK
  <2>3. j' # i' BY <1>1, <1>2, <1>3
  <2> QED BY <1>2, <1>3, <2>1, <2>2, <2>3 DEF IndexOK
<1>7. PairsOK'
  <2>1. ASSUME NEW p \in Pairs PROVE p \in Past' <=> p \in Past
    <3>1. PICK e \in Doc, f \in Doc : p = <<e, f>> BY DEF Pairs
    <3>2. e[1] \in Nat /\ e[2] \in Nat /\ f[1] \in Nat /\ f[2] \in Nat /\ e[2] >= 1 /\ f[2] >= 1
      BY <3>1, InputsAssumption DEF Doc
    <3>3. p \in Similar => e[2] <= ToRead(e[1]) /\ f[2] <= ToRead(f[1])
      BY <1>0, <3>1, GivenAreRead DEF Similar
    <3> QED BY <1>1, <1>2, <1>3, <3>1, <3>2, <3>3 DEF Past, IsPast, Before
  <2> QED BY <1>0, <1>2, <1>3, <2>1 DEF PairsOK
<1>8. IndexedOK' /\ IndexIsBest' BY <1>0, <1>2, <1>3 DEF IndexedOK, IndexIsBest
<1> QED BY <1>4, <1>5, <1>6, <1>7, <1>8 DEF SearchInv

LEMMA NextIndexInv == SearchInv /\ NextIndex => SearchInv'
<1> SUFFICES ASSUME SearchInv, NextIndex PROVE SearchInv' OBVIOUS
<1>0. TypeOK /\ InputOK /\ IndexOK /\ PairsOK /\ IndexedOK BY DEF SearchInv
<1>1. /\ dataSetNum \in Nat /\ i \in 1 .. dataSetNum /\ j = dataSetNum /\ i < dataSetNum
      /\ read = ToRead(j) /\ ToRead(j) \in Nat
      /\ \A n \in 1 .. dataSetNum : size[n] \in Nat /\ ToRead(n) \in 1 .. size[n]
  BY <1>0, SizeOK, EndIsEnd, InputsAssumption DEF NextIndex
<1>2. /\ pc = "searching" /\ pc' = "searching" /\ i' = i + 1 /\ j' = i + 1 /\ read' = 0
      /\ invertedLists_' = {}
  BY DEF NextIndex
<1>3. /\ UNCHANGED <<size, maxDoc, weight, sorter_, db_, before, unread, lastIndexId, listData, failed>>
      /\ dataSetNum' = dataSetNum /\ Similar' = Similar
  BY DEF construction, NextIndex, input, dataSetNum, Similar, Given
<1>4. TypeOK'
  <2>1. i' \in 1 .. dataSetNum /\ j' \in i' .. dataSetNum BY <1>1, <1>2
  <2>2. read' \in 0 .. size[j'] BY <1>1, <1>2
  <2> QED BY <1>0, <1>2, <1>3, <2>1, <2>2 DEF TypeOK
<1>5. InputOK' BY <1>0, <1>3 DEF InputOK, AnyInput
<1>6. IndexOK'
  <2>1. read' <= ToRead(j)'
    <3>1. ToRead(j)' = ToRead(i + 1) BY <1>2, <1>3 DEF ToRead
    <3> QED BY <1>1, <1>2, <3>1
  <2>2. {d \in Doc : d[1] = i + 1 /\ d[2] <= 0} = {} BY InputsAssumption DEF Doc
  <2> QED BY <1>2, <2>1, <2>2 DEF IndexOK
<1>7. PairsOK'
  <2>1. ASSUME NEW p \in Pairs PROVE p \in Past' <=> p \in Past
    <3>1. PICK e \in Doc, f \in Doc : p = <<e, f>> BY DEF Pairs
    <3>2. e[1] \in Nat /\ e[2] \in Nat /\ f[1] \in Nat /\ f[2] \in Nat /\ e[2] >= 1 /\ f[2] >= 1
      BY <3>1, InputsAssumption DEF Doc
    <3>3. p \in Similar => /\ e[1] <= dataSetNum /\ f[1] <= dataSetNum
                           /\ e[2] <= ToRead(e[1]) /\ f[2] <= ToRead(f[1])
      BY <1>0, <3>1, GivenAreRead DEF Similar
    <3> QED BY <1>1, <1>2, <1>3, <3>1, <3>2, <3>3 DEF Past, IsPast, Before
  <2> QED BY <1>0, <1>2, <1>3, <2>1 DEF PairsOK
<1>8. IndexedOK' /\ IndexIsBest' BY <1>0, <1>2, <1>3 DEF IndexedOK, IndexIsBest
<1> QED BY <1>4, <1>5, <1>6, <1>7, <1>8 DEF SearchInv

(* At the end of the last data set the search is past every similar pair.  *)
LEMMA AllPast ==
  ASSUME SearchInv, pc = "searching", AtEnd, i = dataSetNum
  PROVE  Past = Similar
<1>0. TypeOK /\ InputOK /\ IndexOK BY DEF SearchInv
<1>1. /\ dataSetNum \in Nat /\ i \in 1 .. dataSetNum /\ j = dataSetNum
      /\ read = ToRead(j) /\ ToRead(j) \in Nat
  BY <1>0, SizeOK, EndIsEnd, InputsAssumption
<1>2. ASSUME NEW p \in Similar PROVE p \in Past
  <2>1. PICK e \in Given, f \in Given : p = <<e, f>> BY <1>2 DEF Similar
  <2>2. e \in Doc /\ f \in Doc BY <2>1 DEF Given
  <2>3. e[1] \in Nat /\ e[2] \in Nat /\ f[1] \in Nat /\ f[2] \in Nat
    BY <2>2, InputsAssumption DEF Doc
  <2>4. /\ e[1] <= dataSetNum /\ f[1] <= dataSetNum
        /\ e[2] <= ToRead(e[1]) /\ f[2] <= ToRead(f[1])
    BY <1>0, <2>1, <2>2, GivenAreRead
  <2> QED BY <1>1, <1>2, <2>1, <2>3, <2>4 DEF Past, IsPast, Before
<1> QED BY <1>2 DEF Past

LEMMA BeginSearchInv == SearchInv /\ BeginSearch => SearchInv'
<1> SUFFICES ASSUME SearchInv, BeginSearch PROVE SearchInv' OBVIOUS
<1>0. TypeOK /\ PairsOK BY DEF SearchInv
<1>1. /\ size' \in Inputs /\ maxDoc' \in Nat /\ weight' \in [Pairs -> Nat]
      /\ dataSetNum' \in 1 .. MaxSets /\ size'[1] \in 1 .. MaxSize
  BY SizeType, MaxDocsAssumption, WeightsAssumption, InputsAssumption DEF BeginSearch, dataSetNum, AnyInput
<1>2. /\ pc = "idle" /\ pc' = "searching" /\ i' = 1 /\ j' = 1 /\ read' = 0 /\ invertedLists_' = {}
      /\ before' = db_ /\ UNCHANGED <<sorter_, db_, unread, lastIndexId, listData, failed>>
      /\ maxDoc' # 0 => Len(size') = 1
  BY DEF BeginSearch, construction
<1>3. TypeOK'
  <2>1. i' \in 1 .. dataSetNum' /\ j' \in i' .. dataSetNum' BY <1>1, <1>2, InputsAssumption
  <2>2. read' \in 0 .. size'[j'] BY <1>1, <1>2, InputsAssumption
  <2> QED BY <1>0, <1>1, <1>2, <2>1, <2>2 DEF TypeOK
<1>4. InputOK' BY <1>1, <1>2 DEF InputOK, AnyInput
<1>5. {d \in Doc : d[1] = 1 /\ d[2] <= 0} = {} BY InputsAssumption DEF Doc
<1>6. IndexOK'
  <2>1. read' <= ToRead(j)' BY <1>1, <1>2, InputsAssumption DEF ToRead
  <2> QED BY <1>2, <1>5, <2>1 DEF IndexOK
<1>7. PairsOK'
  <2>1. \A d, e \in Doc : ~IsPast(d, e)' BY <1>2, InputsAssumption DEF IsPast, Doc
  <2>2. Past' = {} BY <2>1 DEF Past, Similar, Given
  <2> QED BY <1>0, <1>2, <2>2 DEF PairsOK, NoPairs
<1>8. IndexedOK' /\ IndexIsBest' BY <1>2 DEF IndexedOK, IndexIsBest
<1> QED BY <1>3, <1>4, <1>6, <1>7, <1>8 DEF SearchInv

(* The sorted pairs of a document name those similar to it. *)
LEMMA SimilarToAreSimilar ==
  ASSUME NEW d \in Doc, sorter_ = [p \in Pairs |-> IF p \in Similar THEN 1 ELSE 0]
  PROVE  SimilarTo(d) = {e \in Doc : <<d, e>> \in Similar}
BY DEF SimilarTo, Sorted, Pairs

LEMMA FinishInv == SearchInv /\ Finish => SearchInv'
<1> SUFFICES ASSUME SearchInv, Finish PROVE SearchInv' OBVIOUS
<1>0. TypeOK /\ InputOK /\ PairsOK /\ IndexedOK BY DEF SearchInv
<1>1. sorter_ = [p \in Pairs |-> IF p \in Similar THEN 1 ELSE 0]
  BY <1>0, AllPast DEF PairsOK, Finish
<1>2. /\ pc = "searching" /\ pc' = IF sorter_ = NoPairs THEN "finished" ELSE "constructing"
      /\ unread' = Sorted /\ lastIndexId' = NoDoc /\ listData' = {} /\ failed' = {}
      /\ UNCHANGED <<size, maxDoc, weight, i, j, read, invertedLists_, sorter_, db_, before>>
      /\ dataSetNum' = dataSetNum /\ Similar' = Similar
  BY DEF Finish, input, search, dataSetNum, Similar, Given
<1>n. NoDoc \notin Doc /\ Sorted \subseteq Pairs /\ Sorted' = Sorted
  BY <1>2 DEF NoDoc, Doc, Sorted
<1>3. TypeOK' BY <1>0, <1>2, <1>n DEF TypeOK
<1>4. InputOK' /\ IndexOK' BY <1>0, <1>2 DEF InputOK, IndexOK
<1>5. PairsOK' BY <1>1, <1>2 DEF PairsOK
<1>6. IndexedOK'
  <2>1. SUFFICES ASSUME pc' = "constructing" PROVE IndexedOK'
    BY <1>2 DEF IndexedOK
  <2>2. Sorted # {}
    <3>1. PICK p \in Pairs : sorter_[p] # 0 BY <1>1, <1>2, <2>1 DEF NoPairs
    <3> QED BY <1>1, <3>1 DEF Sorted
  <2>3. \A e : e \notin listData' BY <1>2
  <2>4. ListOK' BY <1>2, <1>n, <2>2 DEF ListOK
  <2>5. \A d \in Doc : ~Through(d)'
    BY <1>2, <1>n DEF Through, SimilarTo
  <2> QED BY <1>0, <1>2, <2>1, <2>4, <2>5 DEF IndexedOK
<1>7. IndexIsBest'
  <2>1. SUFFICES ASSUME pc' = "finished", NEW d \in Doc
                 PROVE  {e \in Doc : <<d, e>> \in Similar} = {} /\ db_[d] = before[d]
    BY <1>2 DEF IndexIsBest
  <2>2. ASSUME NEW e \in Doc PROVE <<d, e>> \notin Similar
    BY <1>1, <1>2, <2>1 DEF NoPairs, Pairs
  <2> QED BY <1>0, <1>2, <2>2 DEF IndexedOK
<1> QED BY <1>3, <1>4, <1>5, <1>6, <1>7 DEF SearchInv

(* What an update does to the database.                                    *)
LEMMA UpdateGivesBest ==
  ASSUME TypeOK, NEW d \in Doc, NEW list, UpdateSimIndex(d, list), d \notin failed,
         db_[d] = before[d]
  PROVE  /\ DOMAIN db_' = Doc /\ failed' \subseteq Doc
         /\ IF d \in failed' THEN db_'[d] = before[d] ELSE db_'[d] \in BestLists(d, list)
         /\ \A e \in Doc : e # d => db_'[e] = db_[e] /\ (e \in failed' <=> e \in failed)
<1>1. DOMAIN db_ = Doc /\ failed \subseteq Doc BY DEF TypeOK
<1>2. CASE failed' = failed \cup {d} /\ UNCHANGED db_ BY <1>1, <1>2
<1>3. CASE /\ db_' \in {[db_ EXCEPT ![d] = s] : s \in BestLists(d, list)}
           /\ UNCHANGED failed
  <2>1. PICK s \in BestLists(d, list) : db_' = [db_ EXCEPT ![d] = s] BY <1>3
  <2>2. db_'[d] = s /\ DOMAIN db_' = Doc /\ \A e \in Doc : e # d => db_'[e] = db_[e]
    BY <1>1, <2>1
  <2> QED BY <1>1, <1>3, <2>2
<1> QED BY <1>2, <1>3 DEF UpdateSimIndex

(* One of two documents is before the other.                               *)
LEMMA BeforeIsTotal ==
  ASSUME NEW d \in Doc, NEW e \in Doc
  PROVE  /\ d = e \/ Before(d, e) \/ Before(e, d)
         /\ ~(Before(d, e) /\ Before(e, d))
<1>1. /\ d[1] \in Nat /\ d[2] \in Nat /\ e[1] \in Nat /\ e[2] \in Nat
      /\ d = <<d[1], d[2]>> /\ e = <<e[1], e[2]>>
  BY InputsAssumption DEF Doc
<1> QED BY <1>1 DEF Before

(* A pair of the same document, or of the next: then the list of the last  *)
(* was complete.                                                           *)
LEMMA NextPairInv == SearchInv /\ NextPair => SearchInv'
<1> SUFFICES ASSUME SearchInv, NextPair PROVE SearchInv' OBVIOUS
<1>0. TypeOK /\ InputOK /\ PairsOK /\ IndexedOK BY DEF SearchInv
<1>1. /\ pc = "constructing" /\ pc' = "constructing"
      /\ UNCHANGED <<size, maxDoc, weight, i, j, read, invertedLists_, sorter_, before>>
      /\ dataSetNum' = dataSetNum /\ Similar' = Similar /\ Sorted' = Sorted
  BY DEF NextPair, input, search, dataSetNum, Similar, Given, Sorted
<1>2. PICK p \in NextPairs :
        /\ lastIndexId' = p[1] /\ unread' = unread \ {p}
        /\ \/ p[1] = lastIndexId /\ listData' = listData \cup {p[2]} /\ UNCHANGED <<db_, failed>>
           \/ /\ p[1] # lastIndexId /\ listData' = {p[2]}
              /\ \/ lastIndexId # NoDoc /\ UpdateSimIndex(lastIndexId, listData)
                 \/ lastIndexId = NoDoc /\ UNCHANGED <<db_, failed>>
  BY DEF NextPair
<1>3. /\ ListOK
      /\ \A d \in Doc : IF Through(d) THEN HasBest(d) ELSE db_[d] = before[d] /\ d \notin failed
  BY <1>0, <1>1 DEF IndexedOK
<1>4. /\ p \in unread /\ p \in Sorted /\ p \in Pairs /\ p = <<p[1], p[2]>>
      /\ p[1] \in Doc /\ p[2] \in Doc
      /\ \A q \in unread : q \in Pairs /\ q[1] \in Doc /\ ~Before(q[1], p[1])
  BY <1>3 DEF NextPairs, ListOK, Sorted, Pairs
<1>5. NoDoc \notin Doc /\ lastIndexId \in Doc \cup {NoDoc} BY <1>0 DEF TypeOK, NoDoc, Doc
<1>6. \A q \in unread : q[1] = p[1] \/ Before(p[1], q[1])
  BY <1>4, BeforeIsTotal
<1>7. p[1] # lastIndexId => \A q \in unread : q[1] # lastIndexId
  BY <1>3, <1>4, <1>5, BeforeIsTotal DEF ListOK
<1>8. p[1] # lastIndexId => \A q \in Sorted \ unread : q[1] # p[1]
  BY <1>3, <1>4 DEF ListOK
<1>9. p[1] # lastIndexId /\ lastIndexId # NoDoc =>
        /\ listData = SimilarTo(lastIndexId) /\ listData # {}
        /\ db_[lastIndexId] = before[lastIndexId] /\ lastIndexId \notin failed
  <2>1. SUFFICES ASSUME p[1] # lastIndexId, lastIndexId # NoDoc
        PROVE  /\ listData = SimilarTo(lastIndexId) /\ listData # {}
               /\ db_[lastIndexId] = before[lastIndexId] /\ lastIndexId \notin failed
    OBVIOUS
  <2>2. ~Through(lastIndexId) BY DEF Through
  <2>3. \A e \in Doc : <<lastIndexId, e>> \in Sorted => <<lastIndexId, e>> \notin unread
    BY <1>7, <2>1
  <2>4. listData = SimilarTo(lastIndexId) BY <1>3, <2>3 DEF ListOK, SimilarTo
  <2> QED BY <1>3, <1>5, <2>1, <2>2, <2>4 DEF ListOK
<1>10. /\ DOMAIN db_' = Doc /\ failed' \subseteq Doc
       /\ \A d \in Doc : d # lastIndexId \/ p[1] = lastIndexId =>
            db_'[d] = db_[d] /\ (d \in failed' <=> d \in failed)
       /\ p[1] # lastIndexId /\ lastIndexId # NoDoc =>
            IF lastIndexId \in failed' THEN db_'[lastIndexId] = before[lastIndexId]
            ELSE db_'[lastIndexId] \in BestLists(lastIndexId, SimilarTo(lastIndexId))
  <2>1. CASE UNCHANGED <<db_, failed>> /\ (p[1] = lastIndexId \/ lastIndexId = NoDoc)
    BY <1>0, <2>1 DEF TypeOK
  <2>2. CASE p[1] # lastIndexId /\ lastIndexId # NoDoc /\ UpdateSimIndex(lastIndexId, listData)
    BY <1>0, <1>5, <1>9, <2>2, UpdateGivesBest
  <2> QED BY <1>2, <2>1, <2>2
<1>11. /\ \A d \in Doc : SimilarTo(d)' = SimilarTo(d)
       /\ \A d, S : BestLists(d, S)' = BestLists(d, S)
  BY <1>1 DEF SimilarTo, BestLists
<1>12. TypeOK'
  <2>1. unread' \subseteq Pairs /\ lastIndexId' \in Doc \cup {NoDoc} /\ listData' \subseteq Doc
    BY <1>0, <1>2, <1>4 DEF TypeOK
  <2> QED BY <1>0, <1>1, <1>10, <2>1 DEF TypeOK
<1>13. InputOK' /\ IndexOK' BY <1>0, <1>1 DEF InputOK, IndexOK
<1>14. PairsOK' BY <1>0, <1>1 DEF PairsOK
<1>15. ListOK'
  <2>1. Sorted # {} /\ unread' \subseteq Sorted /\ lastIndexId' # NoDoc /\ listData' # {}
    BY <1>2, <1>3, <1>4, <1>5 DEF ListOK
  <2>2. listData' = {e \in Doc : <<p[1], e>> \in Sorted \ unread'}
    <3>1. p \in Sorted \ unread' BY <1>2, <1>4
    <3>2. \A e \in Doc : <<p[1], e>> # p => (<<p[1], e>> \in unread' <=> <<p[1], e>> \in unread)
      BY <1>2
    <3>3. \A e \in Doc : <<p[1], e>> = p <=> e = p[2] BY <1>4
    <3>4. CASE p[1] = lastIndexId
      <4>1. listData = {e \in Doc : <<p[1], e>> \in Sorted \ unread} BY <1>3, <3>4 DEF ListOK
      <4>2. listData' = listData \cup {p[2]} BY <1>2, <3>4
      <4> QED BY <1>4, <3>1, <3>2, <3>3, <4>1, <4>2
    <3>5. CASE p[1] # lastIndexId
      <4>1. \A e \in Doc : <<p[1], e>> \notin Sorted \ unread BY <1>8, <3>5
      <4>2. listData' = {p[2]} BY <1>2, <3>5
      <4> QED BY <1>4, <3>1, <3>2, <3>3, <4>1, <4>2
    <3> QED BY <3>4, <3>5
  <2>3. ASSUME NEW r \in Sorted \ unread', NEW q \in unread', r[1] = q[1]
        PROVE  r[1] = p[1]
    <3>1. CASE r = p BY <3>1
    <3>2. CASE r # p
      <4>1. r \in Sorted \ unread /\ q \in unread BY <1>2, <3>2
      <4>2. r[1] = lastIndexId BY <1>3, <2>3, <4>1 DEF ListOK
      <4> QED BY <1>7, <2>3, <4>1, <4>2
    <3> QED BY <3>1, <3>2
  <2> QED BY <1>1, <1>2, <1>6, <2>1, <2>2, <2>3 DEF ListOK
<1>16. ASSUME NEW d \in Doc
       PROVE  IF Through(d)' THEN HasBest(d)' ELSE (db_[d] = before[d] /\ d \notin failed)'
  <2>1. CASE d = p[1]
    <3>1. ~Through(d)' BY <1>2, <2>1 DEF Through
    <3>2. ~Through(d) BY <1>4, <2>1 DEF Through
    <3>3. db_'[d] = db_[d] /\ (d \in failed' <=> d \in failed) BY <1>10, <2>1
    <3> QED BY <1>1, <1>3, <3>1, <3>2, <3>3
  <2>2. CASE d # p[1] /\ d = lastIndexId
    <3>1. SimilarTo(d) # {} /\ \A q \in unread' : q[1] # d BY <1>2, <1>5, <1>7, <1>9, <2>2
    <3>2. Through(d)' BY <1>2, <1>11, <2>2, <3>1 DEF Through
    <3>3. HasBest(d)' BY <1>1, <1>5, <1>10, <1>11, <2>2 DEF HasBest
    <3> QED BY <3>2, <3>3
  <2>3. CASE d # p[1] /\ d # lastIndexId
    <3>1. Through(d)' <=> Through(d) BY <1>2, <1>11, <2>3 DEF Through
    <3>2. db_'[d] = db_[d] /\ (d \in failed' <=> d \in failed) BY <1>10, <2>3
    <3> QED BY <1>1, <1>3, <1>11, <3>1, <3>2 DEF HasBest
  <2> QED BY <2>1, <2>2, <2>3
<1>17. IndexedOK' BY <1>1, <1>15, <1>16 DEF IndexedOK
<1>18. IndexIsBest' BY <1>1 DEF IndexIsBest
<1> QED BY <1>12, <1>13, <1>14, <1>17, <1>18 DEF SearchInv

LEMMA EndConstructionInv == SearchInv /\ EndConstruction => SearchInv'
<1> SUFFICES ASSUME SearchInv, EndConstruction PROVE SearchInv' OBVIOUS
<1>0. TypeOK /\ InputOK /\ PairsOK /\ IndexedOK BY DEF SearchInv
<1>1. /\ pc = "constructing" /\ pc' = "finished" /\ unread = {}
      /\ UNCHANGED <<size, maxDoc, weight, i, j, read, invertedLists_, sorter_, before>>
      /\ UNCHANGED <<unread, lastIndexId, listData>>
      /\ dataSetNum' = dataSetNum /\ Similar' = Similar
      /\ UpdateSimIndex(lastIndexId, listData)
  BY DEF EndConstruction, input, search, dataSetNum, Similar, Given
<1>2. /\ ListOK
      /\ \A d \in Doc : IF Through(d) THEN HasBest(d) ELSE db_[d] = before[d] /\ d \notin failed
  BY <1>0, <1>1 DEF IndexedOK
<1>3. lastIndexId \in Doc /\ listData = SimilarTo(lastIndexId) /\ listData # {}
  <2>1. lastIndexId # NoDoc BY <1>1, <1>2 DEF ListOK
  <2> QED BY <1>0, <1>1, <1>2, <2>1 DEF ListOK, TypeOK, SimilarTo
<1>4. ~Through(lastIndexId) BY DEF Through
<1>5. /\ DOMAIN db_' = Doc /\ failed' \subseteq Doc
      /\ IF lastIndexId \in failed' THEN db_'[lastIndexId] = before[lastIndexId]
         ELSE db_'[lastIndexId] \in BestLists(lastIndexId, SimilarTo(lastIndexId))
      /\ \A e \in Doc : e # lastIndexId => db_'[e] = db_[e] /\ (e \in failed' <=> e \in failed)
  BY <1>0, <1>1, <1>2, <1>3, <1>4, UpdateGivesBest
<1>6. TypeOK' BY <1>0, <1>1, <1>5 DEF TypeOK
<1>7. InputOK' /\ IndexOK' /\ PairsOK' /\ IndexedOK'
  BY <1>0, <1>1 DEF InputOK, IndexOK, PairsOK, IndexedOK
<1>8. IndexIsBest'
  <2>1. \A d \in Doc : SimilarTo(d) = {e \in Doc : <<d, e>> \in Similar}
    BY <1>0, <1>1, SimilarToAreSimilar DEF PairsOK
  <2>2. \A d, S : BestLists(d, S)' = BestLists(d, S) BY <1>1 DEF BestLists
  <2>3. ASSUME NEW d \in Doc
        PROVE  IF SimilarTo(d) = {} \/ d \in failed' THEN db_'[d] = before'[d]
               ELSE db_'[d] \in BestLists(d, SimilarTo(d))
    <3>1. CASE d = lastIndexId BY <1>1, <1>3, <1>5, <3>1
    <3>2. CASE d # lastIndexId
      <4>1. Through(d) <=> SimilarTo(d) # {} BY <1>1, <3>2 DEF Through
      <4> QED BY <1>1, <1>2, <1>5, <3>2, <4>1 DEF HasBest
    <3> QED BY <3>1, <3>2
  <2> QED BY <1>1, <2>1, <2>2, <2>3 DEF IndexIsBest
<1> QED BY <1>6, <1>7, <1>8 DEF SearchInv

LEMMA StopInv == SearchInv /\ Stop => SearchInv'
<1> SUFFICES ASSUME SearchInv, Stop PROVE SearchInv' OBVIOUS
<1>0. TypeOK BY DEF SearchInv
<1> USE DEF Stop
<1>1. TypeOK'
  <2>1. dataSetNum' = 1 BY DEF dataSetNum
  <2>2. NoPairs \in [Pairs -> Nat] BY DEF NoPairs
  <2> QED BY <1>0, <2>1, <2>2 DEF TypeOK
<1>2. InputOK' BY DEF InputOK, AnyInput
<1>3. IndexOK' /\ PairsOK' /\ IndexedOK' /\ IndexIsBest' BY DEF IndexOK, PairsOK, IndexedOK, IndexIsBest
<1> QED BY <1>1, <1>2, <1>3 DEF SearchInv

LEMMA StepInv == SearchInv /\ [Next]_vars => SearchInv'
<1> SUFFICES ASSUME SearchInv, [Next]_vars PROVE SearchInv' OBVIOUS
<1>1. CASE UNCHANGED vars
  <2>1. UNCHANGED <<size, maxDoc, weight, i, j, read, invertedLists_, sorter_, db_, before, unread, lastIndexId, listData, failed, pc>>
    BY <1>1 DEF vars, input, search, construction
  <2>2. /\ dataSetNum' = dataSetNum /\ Similar' = Similar
        /\ \A n : ToRead(n)' = ToRead(n)
        /\ Sorted' = Sorted /\ \A d : SimilarTo(d)' = SimilarTo(d)
        /\ \A d, S : BestLists(d, S)' = BestLists(d, S)
    BY <2>1 DEF dataSetNum, Similar, Given, ToRead, Sorted, SimilarTo, BestLists
  <2>3. TypeOK' /\ InputOK' BY <2>1, <2>2 DEF SearchInv, TypeOK, InputOK
  <2>4. IndexOK' BY <2>1, <2>2 DEF SearchInv, IndexOK
  <2>5. Past' = Past BY <2>1, <2>2 DEF Past, IsPast
  <2>6. PairsOK' BY <2>1, <2>2, <2>5 DEF SearchInv, PairsOK
  <2>7. IndexedOK' BY <2>1, <2>2 DEF SearchInv, IndexedOK, ListOK, Through, HasBest
  <2>8. IndexIsBest' BY <2>1, <2>2 DEF SearchInv, IndexIsBest
  <2> QED BY <2>3, <2>4, <2>6, <2>7, <2>8 DEF SearchInv
<1>2. CASE Next
  BY <1>2, BeginSearchInv, ReadVectorInv, NextDataSetInv, NextIndexInv, FinishInv, NextPairInv,
    EndConstructionInv, StopInv DEF Next, Run
<1> QED BY <1>1, <1>2

(* The composition runs the search, or lets it be.                         *)
LEMMA RunsSearch == SimilaritySpec => Spec
<1>1. SimilarityInit => Init BY DEF SimilarityInit
<1>2. [SimilarityNext]_similarityVars => [Next]_vars
  BY DEF SimilarityNext, similarityVars
<1> QED BY <1>1, <1>2, PTL DEF SimilaritySpec, Spec

(* Every variable of the search has its type; AllPairsSearch and           *)
(* DocSimOutput, for any data sets.                                        *)
THEOREM SearchType == Spec => []TypeOK
<1>1. SearchInv => TypeOK BY DEF SearchInv
<1> QED BY InitInv, StepInv, <1>1, PTL DEF Spec

(* The database has the best of each document when the program is through; *)
(* constructSimIndex and updateSimIndex, for any limit and weights.        *)
THEOREM TheBestAreIndexed == SimilaritySpec => []IndexIsBest
<1>1. SearchInv => IndexIsBest BY DEF SearchInv
<1> QED BY InitInv, StepInv, <1>1, RunsSearch, PTL DEF Spec

-----------------------------------------------------------------------------
(* A search begins with nothing reported, reports what is wanted, once,    *)
(* and ends when all of it was; a stop ends it at any time.                *)
LEMMA StepRefines == SearchInv /\ [Next]_vars => [Promise!Next]_(Promise!vars)
<1> SUFFICES ASSUME SearchInv, [Next]_vars PROVE [Promise!Next]_(Promise!vars) OBVIOUS
<1> DEFINE wanted == IF Searching THEN Similar ELSE {}
           reported == IF Searching THEN sorter_ ELSE NoPairs
<1> USE DEF Searching, SearchStatus
<1>0. TypeOK /\ InputOK /\ IndexOK /\ PairsOK BY DEF SearchInv
<1>n. Promise!Nothing = NoPairs BY DEF Promise!Nothing, NoPairs
<1>1. CASE BeginSearch
  <2>1. Similar' \subseteq Pairs BY DEF Similar, Given, Pairs
  <2>2. pc = "idle" /\ pc' = "searching" /\ sorter_' = NoPairs
    BY <1>0, <1>1 DEF BeginSearch, PairsOK
  <2>3. Promise!Begin BY <1>n, <2>1, <2>2 DEF Promise!Begin
  <2> QED BY <2>3 DEF Promise!Next
<1>2. CASE ReadVector
  <2>1. pc = "searching" /\ pc' = "searching" /\ ~AtEnd BY <1>2 DEF ReadVector
  <2>2. Similar' = Similar BY <1>2 DEF ReadVector, input, Similar, Given, dataSetNum
  <2>3. \A p \in Pairs : /\ sorter_[p] = IF p \in Past THEN 1 ELSE 0
                         /\ p \in Matches(<<j, read + 1>>) => p \in Similar /\ p \notin Past
    BY <1>0, <2>1, MatchesAreNext DEF PairsOK
  <2>4. sorter_' = [p \in Pairs |-> IF p \in Matches(<<j, read + 1>>) THEN sorter_[p] + 1 ELSE sorter_[p]]
    BY <1>2 DEF ReadVector
  <2>5. /\ sorter_' \in [Pairs -> {0, 1}]
        /\ \A p \in Pairs : /\ sorter_[p] = 1 => sorter_'[p] = 1
                            /\ sorter_[p] # sorter_'[p] => p \in Similar
    BY <2>3, <2>4
  <2>6. Promise!Report BY <2>1, <2>2, <2>5 DEF Promise!Report
  <2> QED BY <2>6 DEF Promise!Next
<1>3. CASE NextDataSet \/ NextIndex
  <2>1. pc' = pc /\ sorter_' = sorter_ /\ Similar' = Similar
    BY <1>3 DEF NextDataSet, NextIndex, input, Similar, Given, dataSetNum
  <2> QED BY <2>1 DEF Promise!vars
<1>4. CASE Finish
  <2>1. pc = "searching" /\ pc' # "searching" /\ pc' # "idle" BY <1>4 DEF Finish
  <2>2. \A p \in Similar : sorter_[p] = 1
    <3>1. Past = Similar BY <1>4, AllPast DEF Finish
    <3>2. Similar \subseteq Pairs BY DEF Similar, Given, Pairs
    <3> QED BY <1>0, <2>1, <3>1, <3>2 DEF PairsOK
  <2>3. Promise!End BY <1>n, <2>1, <2>2 DEF Promise!End
  <2> QED BY <2>3 DEF Promise!Next
<1>5. CASE NextPair \/ EndConstruction
  <2>1. pc = "constructing" /\ pc' \in {"constructing", "finished"}
    BY <1>5 DEF NextPair, EndConstruction
  <2> QED BY <2>1 DEF Promise!vars, NoPairs
<1>6. CASE Stop
  <2>1. pc' = "idle" BY <1>6 DEF Stop
  <2>2. Promise!Stop BY <1>n, <2>1 DEF Promise!Stop
  <2> QED BY <2>2 DEF Promise!Next
<1>7. CASE UNCHANGED vars
  BY <1>7 DEF vars, input, Promise!vars, Similar, Given, dataSetNum, NoPairs
<1> QED BY <1>1, <1>2, <1>3, <1>4, <1>5, <1>6, <1>7 DEF Next, Run

(* The search implements PairSearch: however vectors are spread over data  *)
(* sets, findAllSimilarPairs puts each similar pair exactly once in each   *)
(* direction, and no other.                                                *)
THEOREM EachPairIsPutOnce == SimilaritySpec => EachPairOnce
<1>1. Init => Promise!Init
  BY DEF Init, Promise!Init, Promise!Nothing, NoPairs, Searching, SearchStatus
<1> QED BY <1>1, InitInv, StepInv, StepRefines, RunsSearch, PTL DEF Spec, EachPairOnce

-----------------------------------------------------------------------------
(* Terms.  The composition runs the table of terms, or lets it be.         *)
LEMMA RunsTerms == SimilaritySpec => Terms!Spec
<1>1. SimilarityInit => Terms!Init BY DEF SimilarityInit
<1>2. [SimilarityNext]_similarityVars => [Terms!Next]_(Terms!vars)
  BY DEF SimilarityNext, similarityVars, termVars, Terms!vars, Terms!riVars, Terms!rig,
    Terms!indexing, Terms!simVars
<1> QED BY <1>1, <1>2, PTL DEF SimilaritySpec, Terms!Spec

Draws == 1 .. Len(DrawnVectors)
Contexts == Cardinality(Context)

RigType ==
  /\ engine_ \in Nat /\ engine_ <= Len(DrawnVectors)
  /\ value_ \in Seq(Draws) /\ Len(value_) <= Contexts
  /\ ser_file \in Seq(Draws) /\ Len(ser_file) <= Contexts
  /\ draw_of \in [Context -> Nat]

(* A context that was given a vector has it in memory and on disk, unless  *)
(* the file is being written.                                              *)
GivenOK ==
  "rig" \notin torn => \A c \in Context :
    /\ c <= Len(value_) => value_[c] = draw_of[c]
    /\ c <= Len(ser_file) => ser_file[c] = draw_of[c]
    /\ draw_of[c] # 0 => c <= IF stage = "drawing" THEN Len(value_) ELSE Len(ser_file)

RigInv == RigType /\ GivenOK

LEMMA ContextsAreNumbered == Contexts \in Nat /\ Context = 1 .. Contexts
BY ContextsAssumption, FS_CardinalityType DEF Contexts

LEMMA DrawsAreNumbered == Len(DrawnVectors) \in Nat
BY VectorsAssumption

(* What is loaded is the beginning of the file.                            *)
LEMMA LoadedIsPrefix ==
  ASSUME RigType, NEW end \in Context
  PROVE  LET l == Terms!Loaded(end)
         IN  /\ l \in Seq(Draws) /\ Len(l) = (IF end <= Len(ser_file) THEN end ELSE Len(ser_file))
             /\ \A c \in 1 .. Len(l) : l[c] = ser_file[c]
<1> DEFINE m == IF end <= Len(ser_file) THEN end ELSE Len(ser_file)
<1>1. end \in Nat /\ Len(ser_file) \in Nat
  BY ContextsAreNumbered DEF RigType
<1>2. Terms!Min({end, Len(ser_file)}) = m
  BY <1>1 DEF Terms!Min
<1>3. Terms!Loaded(end) = SubSeq(ser_file, 1, m)
  BY <1>2 DEF Terms!Loaded
<1>4. m \in 0 .. Len(ser_file)
  BY <1>1
<1> HIDE DEF m
<1>5. \A D : \A s \in Seq(D) : \A n \in 0 .. Len(s) :
        /\ SubSeq(s, 1, n) \in Seq(D) /\ Len(SubSeq(s, 1, n)) = n
        /\ \A c \in 1 .. n : SubSeq(s, 1, n)[c] = s[c]
  OBVIOUS
<1>6. /\ SubSeq(ser_file, 1, m) \in Seq(Draws) /\ Len(SubSeq(ser_file, 1, m)) = m
      /\ \A c \in 1 .. m : SubSeq(ser_file, 1, m)[c] = ser_file[c]
  BY <1>4, <1>5 DEF RigType
<1> QED BY <1>3, <1>6 DEF m

LEMMA InitHasRig == Terms!Init => RigInv
<1> SUFFICES ASSUME Terms!Init PROVE RigInv
  OBVIOUS
<1>1. <<>> \in Seq(Draws) /\ Len(<<>>) = 0
  OBVIOUS
<1>2. Context \subseteq Nat /\ \A c \in Context : c > 0
  BY ContextsAreNumbered
<1>3. RigType
  <2>1. value_ = <<>> /\ ser_file = <<>> /\ engine_ = 0
        /\ draw_of = [c \in Context |-> 0]
    BY DEF Terms!Init, Terms!RIInit
  <2>2. value_ \in Seq(Draws) /\ Len(value_) = 0 /\ ser_file \in Seq(Draws) /\ Len(ser_file) = 0
    BY <1>1, <2>1
  <2>3. draw_of \in [Context -> Nat]
    BY <2>1
  <2>5. engine_ \in Nat /\ engine_ <= Len(DrawnVectors)
    BY <2>1, DrawsAreNumbered
  <2>6. Len(value_) <= Contexts /\ Len(ser_file) <= Contexts
    BY <2>2, ContextsAreNumbered
  <2> QED BY <2>2, <2>3, <2>5, <2>6 DEF RigType
<1>4. GivenOK
  BY <1>2 DEF Terms!Init, Terms!RIInit, GivenOK
<1> QED BY <1>3, <1>4 DEF RigInv

(* The vectors of the contexts up to end are those of the file and, after  *)
(* them, new ones.                                                         *)
LEMMA SetContextMaxKeepsRig ==
  ASSUME RigInv, NEW end \in Context, Terms!SetContextMax(end)
  PROVE  RigInv'
<1> DEFINE l == Terms!Loaded(end)
           d == Terms!Drawn(end)
<1>1. /\ l \in Seq(Draws) /\ Len(l) = (IF end <= Len(ser_file) THEN end ELSE Len(ser_file))
      /\ \A c \in 1 .. Len(l) : l[c] = ser_file[c]
  BY LoadedIsPrefix DEF RigInv
<1>2. /\ stage = "open" /\ engine_ + end - Len(l) <= Len(DrawnVectors)
      /\ value_' = l \o d /\ engine_' = engine_ + Len(d)
      /\ IF d = <<>> THEN ser_file' = ser_file /\ stage' = stage
                     ELSE ser_file' = <<>> /\ stage' = "drawing"
      /\ draw_of' = [c \in Context |->
                       IF draw_of[c] = 0 /\ c \in DOMAIN value_' THEN value_'[c] ELSE draw_of[c]]
      /\ torn' = torn
  BY DEF Terms!SetContextMax, Terms!NoteDraws
<1>3. /\ end \in Nat /\ Contexts \in Nat /\ end <= Contexts /\ Context = 1 .. Contexts
      /\ engine_ \in Nat /\ engine_ <= Len(DrawnVectors) /\ Len(DrawnVectors) \in Nat
      /\ ser_file \in Seq(Draws) /\ Len(ser_file) \in Nat /\ Len(ser_file) <= Contexts
      /\ Len(l) \in Nat /\ Len(l) <= end
  BY <1>1, ContextsAreNumbered, DrawsAreNumbered DEF RigInv, RigType
<1>4. d = [n \in 1 .. end - Len(l) |-> engine_ + n] /\ end - Len(l) \in Nat
  BY <1>3 DEF Terms!Drawn
<1>5. d \in [1 .. end - Len(l) -> Draws]
  <2> SUFFICES ASSUME NEW n \in 1 .. end - Len(l) PROVE engine_ + n \in Draws
    BY <1>4
  <2> DEFINE m == end - Len(l)
             N == Len(DrawnVectors)
  <2>1. m \in Nat /\ n \in 1 .. m /\ engine_ + m <= N /\ engine_ \in Nat /\ N \in Nat
    BY <1>2, <1>3, <1>4
  <2> HIDE DEF m, N
  <2>2. engine_ + n \in 1 .. N
    BY <2>1
  <2> QED BY <2>2 DEF Draws, N
<1> HIDE DEF l, d
<1>6. d \in Seq(Draws) /\ Len(d) = end - Len(l)
  BY <1>4, <1>5
<1>7. value_' \in Seq(Draws) /\ Len(value_') = end /\ DOMAIN value_' = 1 .. end
  BY <1>1, <1>2, <1>3, <1>6
<1>8. \A c \in 1 .. end : value_'[c] = (IF c <= Len(l) THEN l[c] ELSE d[c - Len(l)]) /\ value_'[c] \in Nat \ {0}
  <2>1. \A c \in 1 .. end : value_'[c] \in Nat \ {0}
    BY <1>7 DEF Draws
  <2>2. \A c \in 1 .. end : value_'[c] = IF c <= Len(l) THEN l[c] ELSE d[c - Len(l)]
    BY <1>1, <1>2, <1>3, <1>6
  <2> QED BY <2>1, <2>2
<1>9. RigType'
  <2>1. draw_of' \in [Context -> Nat]
    BY <1>2, <1>7, <1>8 DEF RigInv, RigType
  <2>2. engine_' \in Nat /\ engine_' <= Len(DrawnVectors)
    BY <1>2, <1>3, <1>6
  <2>3. ser_file' \in Seq(Draws) /\ Len(ser_file') <= Contexts
    <3>1. CASE ser_file' = <<>>
      <4>1. <<>> \in Seq(Draws) /\ Len(<<>>) = 0
        OBVIOUS
      <4> QED BY <1>3, <3>1, <4>1
    <3> QED BY <1>2, <1>3, <3>1
  <2> QED BY <1>2, <1>3, <1>7, <2>1, <2>2, <2>3 DEF RigInv, RigType
<1>10. GivenOK'
  <2> SUFFICES ASSUME "rig" \notin torn, NEW c \in Context
               PROVE  /\ c <= Len(value_') => value_'[c] = draw_of'[c]
                      /\ c <= Len(ser_file') => ser_file'[c] = draw_of'[c]
                      /\ draw_of'[c] # 0 => c <= IF stage' = "drawing" THEN Len(value_') ELSE Len(ser_file')
    BY <1>2 DEF GivenOK
  <2>1. /\ c <= Len(ser_file) => ser_file[c] = draw_of[c]
        /\ draw_of[c] # 0 => c <= Len(ser_file)
    BY <1>2 DEF RigInv, GivenOK
  <2>2. c \in Nat /\ c >= 1 /\ (c \in 1 .. end <=> c <= end)
    BY <1>3
  <2>3. c <= Len(l) => value_'[c] = ser_file[c] /\ c <= Len(ser_file)
    BY <1>1, <1>3, <1>8, <2>2
  <2>4. c <= end => value_'[c] = draw_of'[c]
    <3>1. CASE c <= Len(l)
      BY <1>2, <1>3, <1>7, <2>1, <2>2, <2>3, <3>1
    <3>2. CASE ~(c <= Len(l))
      <4>1. c <= end => ~(c <= Len(ser_file))
        BY <1>1, <1>3, <2>2, <3>2
      <4> QED BY <1>2, <1>3, <1>7, <2>1, <2>2, <4>1
    <3> QED BY <3>1, <3>2
  <2>5. CASE d = <<>>
    <3>1. Len(l) = end
      BY <1>3, <1>6, <2>5
    <3>2. end <= Len(ser_file)
      BY <1>1, <1>3, <3>1
    <3>3. c <= Len(ser_file) => draw_of'[c] = draw_of[c]
      BY <1>2, <1>7, <1>3, <2>1, <2>2, <2>3, <2>4, <3>1
    <3>4. draw_of'[c] # 0 => c <= Len(ser_file)
      BY <1>2, <1>3, <1>7, <2>1, <2>2, <3>2
    <3> QED BY <1>2, <1>7, <2>1, <2>4, <2>5, <3>3, <3>4
  <2>6. CASE d # <<>>
    <3>1. Len(l) # end
      BY <1>4, <1>6, <2>6
    <3>2. Len(ser_file) < end
      BY <1>1, <1>3, <3>1
    <3>3. draw_of'[c] # 0 => c <= end
      BY <1>2, <1>3, <1>7, <2>1, <2>2, <3>2
    <3> QED BY <1>2, <1>7, <2>2, <2>4, <2>6, <3>3
  <2> QED BY <2>5, <2>6
<1> QED BY <1>9, <1>10 DEF RigInv

(* What was drawn is written; nothing else disturbs the vectors but a      *)
(* flush, which forgets them, and a stop.                                  *)
LEMMA StepKeepsRig == RigInv /\ [Terms!Next]_(Terms!vars) => RigInv'
<1> SUFFICES ASSUME RigInv, [Terms!Next]_(Terms!vars) PROVE RigInv'
  OBVIOUS
<1>1. <<>> \in Seq(Draws) /\ Len(<<>>) = 0
  OBVIOUS
<1>2. /\ Contexts \in Nat /\ \A c \in Context : c \in Nat /\ c > 0 /\ c <= Contexts
      /\ Len(value_) \in Nat /\ Len(ser_file) \in Nat /\ Len(DrawnVectors) \in Nat
  BY ContextsAreNumbered, DrawsAreNumbered DEF RigInv, RigType
<1>3. CASE \E end \in Context : Terms!SetContextMax(end)
  BY <1>3, SetContextMaxKeepsRig
<1>4. CASE Terms!FlushRig
  <2>1. RigType'
    BY <1>4 DEF Terms!FlushRig, RigInv, RigType
  <2>2. GivenOK'
    BY <1>4 DEF Terms!FlushRig, RigInv, GivenOK
  <2> QED BY <2>1, <2>2 DEF RigInv
<1>5. ASSUME UNCHANGED <<engine_, ser_file, draw_of, torn>>, value_' = <<>>,
             stage # "drawing", stage' # "drawing"
      PROVE  RigInv'
  <2>1. RigType'
    BY <1>1, <1>2, <1>5 DEF RigInv, RigType
  <2>2. GivenOK'
    BY <1>1, <1>2, <1>5 DEF RigInv, GivenOK
  <2> QED BY <2>1, <2>2 DEF RigInv
<1>6. CASE Terms!BeginFlush
  BY <1>5, <1>6 DEF Terms!BeginFlush
<1>7. CASE Terms!StopAll
  <2>1. /\ UNCHANGED <<ser_file, draw_of>> /\ value_' = <<>> /\ engine_' = 0
        /\ torn' = torn \cup Terms!InPieces /\ stage' = "down"
    BY <1>7 DEF Terms!StopAll, Terms!Stop
  <2>2. RigType'
    BY <1>1, <1>2, <2>1 DEF RigInv, RigType
  <2>3. "rig" \notin torn' => "rig" \notin torn /\ stage # "drawing"
    BY <2>1 DEF Terms!InPieces
  <2>4. GivenOK'
    BY <1>1, <1>2, <2>1, <2>3 DEF RigInv, GivenOK
  <2> QED BY <2>2, <2>4 DEF RigInv
<1>8. ASSUME UNCHANGED <<engine_, value_, ser_file, draw_of>>,
             "rig" \in torn' <=> "rig" \in torn,
             stage' = "drawing" <=> stage = "drawing"
      PROVE  RigInv'
  <2>1. RigType'
    BY <1>8 DEF RigInv, RigType
  <2>2. GivenOK'
    BY <1>8 DEF RigInv, GivenOK
  <2> QED BY <2>1, <2>2 DEF RigInv
<1>9. CASE \/ \E id \in Term, item_list \in Items : Terms!AppendItems(id, item_list)
           \/ Terms!EndFlush \/ Terms!FailFlush
  BY <1>8, <1>9 DEF Terms!AppendItems, Terms!EndFlush, Terms!FailFlush, Terms!rig
<1>12. CASE Terms!Open
  <2>1. /\ stage \in {"down", "ready", "failed"} /\ stage' = "open" /\ torn' = torn \cup Terms!InPieces
        /\ UNCHANGED <<engine_, value_, ser_file, draw_of>>
    BY <1>12 DEF Terms!Open, Terms!rig
  <2>2. "rig" \notin Terms!InPieces
    BY <2>1 DEF Terms!InPieces
  <2>3. /\ "rig" \in torn' <=> "rig" \in torn
        /\ stage' = "drawing" <=> stage = "drawing"
    BY <2>1, <2>2
  <2> QED BY <1>8, <2>1, <2>3
<1>10. CASE Terms!Compute
  BY <1>8, <1>10 DEF Terms!Compute, Terms!BeginSearch, Terms!CompareNext, Terms!FlushCollector,
    Terms!rig, Terms!riVars
<1>11. CASE UNCHANGED Terms!vars
  BY <1>8, <1>11 DEF Terms!vars, Terms!rig, Terms!riVars
<1> QED BY <1>3, <1>4, <1>6, <1>7, <1>9, <1>10, <1>11, <1>12 DEF Terms!Next, Terms!Index

LEMMA RigInvHolds == Terms!Spec => []RigInv
BY InitHasRig, StepKeepsRig, PTL DEF Terms!Spec

(* A context keeps the vector it was given first, over restarts and when   *)
(* there come to be more (SetContextMax, ResetMax), for any draws.         *)
THEOREM ContextsKeepVectors == SimilaritySpec => []VectorsAreKept
<1>1. RigInv => VectorsAreKept
  <2> SUFFICES ASSUME RigInv, "rig" \notin torn, NEW c \in DOMAIN value_ PROVE value_[c] = draw_of[c]
    BY DEF VectorsAreKept, Terms!VectorsAreKept
  <2>1. c \in Context /\ c <= Len(value_)
    BY ContextsAreNumbered DEF RigInv, RigType
  <2> QED BY <2>1 DEF RigInv, GivenOK
<1> QED BY <1>1, RigInvHolds, RunsTerms, PTL

-----------------------------------------------------------------------------
(* The vectors of terms.  What the loop of Flush adds up, for any run file *)
(* and term, is what it has for the term in Terms!Merged.                  *)
Vec == [Dimension -> Nat]
Entry == [key : Term, value : Vec]

MergedOf(run, t) ==
  Terms!FoldSeq(LAMBDA entry, sum : IF entry.key = t THEN Terms!Plus(sum, entry.value) ELSE sum,
    Terms!Zero, run)

MergeStep(run, t) ==
  [n \in DOMAIN run |-> [v \in Vec |->
     IF run[n].key = t THEN Terms!Plus(v, run[n].value) ELSE v]]

IsMerge(it, run, t) ==
  it \in [SUBSET DOMAIN run -> Vec] /\ IsFold(it, DOMAIN run, Terms!Zero, MergeStep(run, t), AnyOf(DOMAIN run))

LEMMA PlusType ==
  /\ Terms!Zero \in Vec
  /\ \A v, w \in Vec : Terms!Plus(v, w) \in Vec /\ Terms!Plus(v, w) = Terms!Plus(w, v)
  /\ \A v, w, u \in Vec : Terms!Plus(Terms!Plus(u, v), w) = Terms!Plus(Terms!Plus(u, w), v)
  /\ \A v \in Vec : Terms!Plus(Terms!Zero, v) = v
  /\ \A v \in Vec : v # Terms!Absent
<1>1. Terms!Zero \in Vec
  BY DEF Vec, Terms!Zero
<1>2. \A v, w \in Vec : Terms!Plus(v, w) \in Vec /\ Terms!Plus(v, w) = Terms!Plus(w, v)
  BY DEF Vec, Terms!Plus
<1>3. \A v, w, u \in Vec : Terms!Plus(Terms!Plus(u, v), w) = Terms!Plus(Terms!Plus(u, w), v)
  BY DEF Vec, Terms!Plus
<1>4. \A v \in Vec : Terms!Plus(Terms!Zero, v) = v
  BY DEF Vec, Terms!Plus, Terms!Zero
<1>5. \A v \in Vec : v # Terms!Absent
  BY VectorsAssumption DEF Vec, Terms!Absent
<1> QED BY <1>1, <1>2, <1>3, <1>4, <1>5

LEMMA EntriesOf ==
  ASSUME NEW run \in Seq(Entry)
  PROVE  /\ DOMAIN run = 1 .. Len(run) /\ Len(run) \in Nat
         /\ \A n \in DOMAIN run : run[n] \in Entry /\ run[n].key \in Term /\ run[n].value \in Vec
<1>1. DOMAIN run = 1 .. Len(run) /\ Len(run) \in Nat /\ \A n \in DOMAIN run : run[n] \in Entry
  OBVIOUS
<1>2. \A e \in Entry : e.key \in Term /\ e.value \in Vec
  BY DEF Entry
<1> QED BY <1>1, <1>2

LEMMA MergeData ==
  ASSUME NEW run \in Seq(Entry), NEW t
  PROVE  /\ FoldData(DOMAIN run, Vec, Terms!Zero, MergeStep(run, t), AnyOf(DOMAIN run))
         /\ Commutes(MergeStep(run, t), DOMAIN run, Vec)
<1>1. DOMAIN run = 1 .. Len(run) /\ Len(run) \in Nat /\ \A n \in DOMAIN run : run[n].value \in Vec
  BY EntriesOf
<1>2. IsFiniteSet(DOMAIN run)
  BY <1>1, FS_Interval
<1>3. MergeStep(run, t) \in [DOMAIN run -> [Vec -> Vec]]
  BY <1>1, PlusType DEF MergeStep
<1>4. Commutes(MergeStep(run, t), DOMAIN run, Vec)
  <2> DEFINE a == MergeStep(run, t)
  <2>1. \A n \in DOMAIN run, v \in Vec :
          a[n][v] \in Vec /\ a[n][v] = IF run[n].key = t THEN Terms!Plus(v, run[n].value) ELSE v
    BY <1>1, PlusType DEF MergeStep
  <2>2. ASSUME NEW x \in DOMAIN run, NEW y \in DOMAIN run, NEW v \in Vec
        PROVE  a[x][a[y][v]] = a[y][a[x][v]]
    <3> HIDE DEF a
    <3> DEFINE w == run[x].value
               u == run[y].value
    <3>1. w \in Vec /\ u \in Vec
      BY <1>1
    <3>2. Terms!Plus(v, w) \in Vec /\ Terms!Plus(v, u) \in Vec
          /\ Terms!Plus(Terms!Plus(v, w), u) = Terms!Plus(Terms!Plus(v, u), w)
      <4> HIDE DEF w, u
      <4> QED BY <3>1, PlusType
    <3>3. a[x][v] = (IF run[x].key = t THEN Terms!Plus(v, w) ELSE v)
          /\ a[y][v] = (IF run[y].key = t THEN Terms!Plus(v, u) ELSE v)
      BY <2>1
    <3>4. /\ a[x][a[y][v]] = (IF run[x].key = t THEN Terms!Plus(a[y][v], w) ELSE a[y][v])
          /\ a[y][a[x][v]] = (IF run[y].key = t THEN Terms!Plus(a[x][v], u) ELSE a[x][v])
      BY <2>1
    <3> HIDE DEF w, u
    <3> QED BY <3>2, <3>3, <3>4
  <2> QED BY <2>2, Zenon DEF Commutes
<1> QED BY <1>2, <1>3, <1>4, PlusType, AnyIsChoice DEF FoldData

LEMMA MergedIs ==
  ASSUME NEW run \in Seq(Entry), NEW t
  PROVE  \E it : IsMerge(it, run, t) /\ MergedOf(run, t) = it[DOMAIN run]
<1> DEFINE D == DOMAIN run
           z == Terms!Zero
           a == MergeStep(run, t)
           c == AnyOf(D)
           Satisfies(it) == it = [s \in SUBSET D |->
                       IF s = {} THEN z
                       ELSE LET last == CHOOSE x \in s : TRUE
                            IN  IF run[last].key = t THEN Terms!Plus(it[s \ {last}], run[last].value) ELSE it[s \ {last}]]
           f == CHOOSE it : Satisfies(it)
<1>1. MergedOf(run, t) = f[D]
  BY DEF MergedOf, Terms!FoldSeq, Terms!FoldFunction, Terms!FoldFunctionOnSet, Terms!MapThenFoldSet
<1>2. FoldData(D, Vec, z, a, c)
  BY MergeData
<1>3. PICK g \in [SUBSET D -> Vec] : IsFold(g, D, z, a, c)
  <2> HIDE DEF D, z, a, c
  <2> QED BY <1>2, FoldExists
<1>4. Satisfies(g)
  <2>1. ASSUME NEW s \in SUBSET D, s # {}
        PROVE  LET last == CHOOSE x \in s : TRUE
               IN  g[s] = IF run[last].key = t THEN Terms!Plus(g[s \ {last}], run[last].value) ELSE g[s \ {last}]
    <3> DEFINE last == CHOOSE x \in s : TRUE
    <3>1. last = c[s] /\ last \in D /\ g[s \ {last}] \in Vec
      BY <2>1 DEF AnyOf
    <3>2. g[s] = a[last][g[s \ {last}]]
      BY <1>3, <2>1, <3>1 DEF IsFold
    <3> HIDE DEF last
    <3> QED BY <3>1, <3>2 DEF MergeStep, last
  <2>2. g[{}] = z
    BY <1>3 DEF IsFold
  <2>3. g = [s \in SUBSET D |-> g[s]]
    OBVIOUS
  <2> HIDE DEF z, D
  <2> QED BY <2>1, <2>2, <2>3
<1>5. Satisfies(f)
  <2> HIDE DEF Satisfies
  <2> QED BY <1>4
<1>6. IsFoldInto(f, D, Vec, z, a, c)
  <2>1. f[{}] = z
    BY <1>5
  <2>2. ASSUME NEW s \in SUBSET D, s # {}, f[s \ {c[s]}] \in Vec PROVE f[s] = a[c[s]][f[s \ {c[s]}]]
    <3> DEFINE last == CHOOSE x \in s : TRUE
    <3>1. last = c[s] /\ last \in D
      BY <2>2 DEF AnyOf
    <3>2. f[s] = IF run[last].key = t THEN Terms!Plus(f[s \ {last}], run[last].value) ELSE f[s \ {last}]
      BY <1>5, <2>2
    <3> HIDE DEF f, last
    <3> QED BY <2>2, <3>1, <3>2 DEF MergeStep
  <2> HIDE DEF f
  <2> QED BY <2>1, <2>2 DEF IsFoldInto
<1>7. f = [s \in SUBSET D |-> f[s]]
  <2>1. \E h : f = [s \in SUBSET D |-> h[s]]
    <3>1. f = [s \in SUBSET D |-> IF s = {} THEN z
                       ELSE LET last == CHOOSE x \in s : TRUE
                            IN  IF run[last].key = t THEN Terms!Plus(f[s \ {last}], run[last].value) ELSE f[s \ {last}]]
      BY <1>5
    <3> HIDE DEF f
    <3> QED BY <3>1
  <2> HIDE DEF f
  <2> QED BY <2>1
<1> HIDE DEF f, Satisfies
<1>8. IsFold(f, D, z, a, c) /\ \A s \in SUBSET D : f[s] \in Vec
  <2> HIDE DEF D, z, a, c
  <2> QED BY <1>2, <1>6, FoldHasType
<1>9. f \in [SUBSET D -> Vec]
  BY <1>7, <1>8
<1>10. IsMerge(f, run, t)
  BY <1>8, <1>9 DEF IsMerge
<1> QED BY <1>1, <1>10

(* The entries of other terms add nothing.                                 *)
LEMMA MergeWithout ==
  ASSUME NEW run \in Seq(Entry), NEW t, NEW it, IsMerge(it, run, t),
         NEW E \in SUBSET DOMAIN run, \A n \in E : run[n].key # t
  PROVE  it[E] = Terms!Zero
<1> DEFINE T == {s \in SUBSET E : it[s] = Terms!Zero}
           a == MergeStep(run, t)
           D == DOMAIN run
<1>1. TakesAny(it, D, a) /\ it[{}] = Terms!Zero /\ it \in [SUBSET D -> Vec]
  <2> DEFINE c == AnyOf(D)
             z == Terms!Zero
  <2>1. IsFold(it, D, z, a, c) /\ FoldData(D, Vec, z, a, c) /\ Commutes(a, D, Vec)
    BY MergeData DEF IsMerge
  <2>2. TakesAny(it, D, a)
    <3> HIDE DEF D, a, c, z
    <3> QED BY <2>1, FoldTakesAny
  <2>3. it[{}] = z
    <3> HIDE DEF D, a, c, z
    <3> QED BY <2>1 DEF IsFold
  <2> QED BY <2>2, <2>3 DEF IsMerge
<1>2. IsFiniteSet(E)
  <2>1. IsFiniteSet(D)
    BY MergeData DEF FoldData
  <2> QED BY <2>1, FS_Subset
<1>3. {} \in T
  BY <1>1
<1>4. ASSUME NEW s \in SUBSET E, NEW x \in s, s \ {x} \in T PROVE s \in T
  <2>1. it[s] = a[x][it[s \ {x}]] /\ x \in D /\ it[s \ {x}] = Terms!Zero
    <3> HIDE DEF a
    <3> QED BY <1>1, <1>4 DEF TakesAny
  <2>2. run[x].key # t
    OBVIOUS
  <2>3. a[x][Terms!Zero] = Terms!Zero
    BY <2>1, <2>2, PlusType DEF MergeStep
  <2> QED BY <2>1, <2>3
<1>5. SUBSET E \subseteq T
  <2> HIDE DEF T
  <2> QED BY <1>2, <1>3, <1>4, SubsetInduction
<1> QED BY <1>5

(* What is merged is a vector; where there is one entry it is that.        *)
LEMMA MergedType ==
  ASSUME NEW run \in Seq(Entry), NEW t
  PROVE  MergedOf(run, t) \in Vec
<1>1. PICK it : IsMerge(it, run, t) /\ MergedOf(run, t) = it[DOMAIN run]
  BY MergedIs
<1> QED BY <1>1 DEF IsMerge

LEMMA MergedNone ==
  ASSUME NEW run \in Seq(Entry), NEW t, \A n \in DOMAIN run : run[n].key # t
  PROVE  MergedOf(run, t) = Terms!Zero
BY MergedIs, MergeWithout

LEMMA MergedOne ==
  ASSUME NEW run \in Seq(Entry), NEW m \in DOMAIN run,
         \A n \in DOMAIN run : run[n].key = run[m].key => n = m
  PROVE  MergedOf(run, run[m].key) = run[m].value
<1> DEFINE D == DOMAIN run
           t == run[m].key
           a == MergeStep(run, t)
<1>1. PICK it : IsMerge(it, run, t) /\ MergedOf(run, t) = it[D]
  BY MergedIs
<1>2. TakesAny(it, D, a)
  <2> DEFINE c == AnyOf(D)
             z == Terms!Zero
  <2>1. IsFold(it, D, z, a, c) /\ FoldData(D, Vec, z, a, c) /\ Commutes(a, D, Vec)
    BY <1>1, MergeData DEF IsMerge
  <2> HIDE DEF D, a, c, z
  <2> QED BY <2>1, FoldTakesAny
<1>3. it[D] = a[m][it[D \ {m}]]
  <2> HIDE DEF a
  <2> QED BY <1>2 DEF TakesAny
<1>4. it[D \ {m}] = Terms!Zero
  <2>1. D \ {m} \in SUBSET D /\ \A n \in D \ {m} : run[n].key # t
    OBVIOUS
  <2> QED BY <1>1, <2>1, MergeWithout
<1>5. run[m].value \in Vec
  BY EntriesOf
<1>6. a[m][Terms!Zero] = run[m].value
  BY <1>5, PlusType DEF MergeStep
<1> QED BY <1>1, <1>3, <1>4, <1>6

(* An entry that is appended is added.                                     *)
LEMMA MergedAppend ==
  ASSUME NEW run \in Seq(Entry), NEW e \in Entry, NEW t
  PROVE  MergedOf(Append(run, e), t) =
           IF e.key = t THEN Terms!Plus(MergedOf(run, t), e.value) ELSE MergedOf(run, t)
<1> DEFINE more == Append(run, e)
           D == DOMAIN run
           M == DOMAIN more
           k == Len(run) + 1
           z == Terms!Zero
           a == MergeStep(run, t)
           b == MergeStep(more, t)
<1>1. /\ more \in Seq(Entry) /\ D = 1 .. Len(run) /\ M = D \cup {k} /\ k \notin D
      /\ more[k] = e /\ \A n \in D : more[n] = run[n]
  BY EntriesOf
<1> HIDE DEF more, k
<1>2. PICK f : IsMerge(f, more, t) /\ MergedOf(more, t) = f[M]
  BY <1>1, MergedIs
<1>3. PICK g : IsMerge(g, run, t) /\ MergedOf(run, t) = g[D]
  BY MergedIs
<1>4. TakesAny(f, M, b)
  <2> DEFINE c == AnyOf(M)
  <2>1. IsFold(f, M, z, b, c) /\ FoldData(M, Vec, z, b, c) /\ Commutes(b, M, Vec)
    BY <1>1, <1>2, MergeData DEF IsMerge
  <2> HIDE DEF M, b, c, z
  <2> QED BY <2>1, FoldTakesAny
<1>5. f[M] = b[k][f[D]]
  <2>1. M \in SUBSET M /\ k \in M /\ M \ {k} = D
    BY <1>1
  <2> HIDE DEF M, D, b
  <2> QED BY <1>4, <2>1 DEF TakesAny
<1>6. f[D] = g[D]
  <2> DEFINE c == AnyOf(D)
  <2>1. ASSUME NEW s \in SUBSET D PROVE f[s] = IF s = {} THEN z ELSE a[c[s]][f[s \ {c[s]}]]
    <3>1. s \in SUBSET M /\ f \in [SUBSET M -> Vec]
      BY <1>1, <1>2 DEF IsMerge
    <3>2. f[s] = IF s = {} THEN z ELSE b[AnyOf(M)[s]][f[s \ {AnyOf(M)[s]}]]
      <4> HIDE DEF b, M, z
      <4> QED BY <1>2, <3>1 DEF IsMerge, IsFold, b, M, z
    <3>3. AnyOf(M)[s] = c[s] /\ (s # {} => c[s] \in D /\ c[s] \in M)
      BY <3>1 DEF AnyOf
    <3>4. f[s \ {c[s]}] \in Vec
      BY <3>1
    <3>5. s # {} => b[c[s]][f[s \ {c[s]}]] = a[c[s]][f[s \ {c[s]}]]
      <4> HIDE DEF c
      <4> QED BY <1>1, <3>3, <3>4 DEF MergeStep
    <3> QED BY <3>2, <3>3, <3>5
  <2>2. IsFold(f, D, z, a, c) /\ IsFold(g, D, z, a, c) /\ IsFiniteSet(D) /\ IsChoice(c, D) /\ D \in SUBSET D
    BY <1>3, <2>1, MergeData DEF IsMerge, IsFold, FoldData
  <2> HIDE DEF D, z, a, c
  <2>3. \A s \in SUBSET D : f[s] = g[s]
    BY <2>2, FoldsAgree
  <2> QED BY <2>2, <2>3
<1>7. g[D] \in Vec
  BY <1>3 DEF IsMerge
<1>8. b[k][g[D]] = IF e.key = t THEN Terms!Plus(g[D], e.value) ELSE g[D]
  BY <1>1, <1>7 DEF MergeStep
<1> QED BY <1>2, <1>3, <1>5, <1>6, <1>8 DEF more

(* A set as a sequence has each element once.                              *)
LEMMA ListOf ==
  ASSUME NEW S, IsFiniteSet(S)
  PROVE  /\ Terms!SetToSeq(S) \in Seq(S)
         /\ \A x \in S : \E n \in DOMAIN Terms!SetToSeq(S) : Terms!SetToSeq(S)[n] = x
         /\ \A m, n \in DOMAIN Terms!SetToSeq(S) : Terms!SetToSeq(S)[m] = Terms!SetToSeq(S)[n] => m = n
<1> DEFINE k == Cardinality(S)
           I == 1 .. k
           F == {f \in [I -> S] : \A m, n \in I : f[m] = f[n] => m = n}
           s == Terms!SetToSeq(S)
<1>1. k \in Nat /\ ExistsBijection(I, S)
  BY FS_CardinalityType
<1>2. IsFiniteSet(I) /\ Cardinality(I) = k
  BY <1>1, FS_Interval
<1>3. F # {}
  BY <1>1 DEF ExistsBijection, Bijection, Injection, IsInjective
<1>4. Terms!Cardinality(S) = k
  BY DEF Terms!Cardinality, Cardinality
<1>5. s = CHOOSE f \in [I -> S] : \A m, n \in I : f[m] = f[n] => m = n
  <2>1. \A f \in [I -> S] : Terms!IsInjective(f) <=> \A m, n \in I : f[m] = f[n] => m = n
    BY DEF Terms!IsInjective
  <2> QED BY <1>4, <2>1 DEF Terms!SetToSeq
<1>6. s \in F
  <2> HIDE DEF s, k, I
  <2> QED BY <1>3, <1>5
<1> HIDE DEF s
<1>7. s \in Injection(I, S)
  BY <1>6 DEF Injection, IsInjective
<1>8. s \in Surjection(I, S)
  <2> HIDE DEF I
  <2> QED BY <1>2, <1>7, FS_Injection
<1>9. \A x \in S : \E n \in I : s[n] = x
  BY <1>8 DEF Surjection
<1>10. s \in Seq(S) /\ DOMAIN s = I
  BY <1>1, <1>6
<1> QED BY <1>6, <1>9, <1>10 DEF s

(* The sum of weighted index vectors is a vector.                          *)
LEMMA SparseType ==
  ASSUME RigInv, NEW item_list \in Items, DOMAIN item_list \subseteq DOMAIN value_
  PROVE  Terms!Sparse(item_list) \in Vec
<1> DEFINE D == DOMAIN item_list
<1>1. IsFiniteSet(D)
  <2>1. DOMAIN value_ = 1 .. Len(value_) /\ Len(value_) \in Nat
    BY DEF RigInv, RigType
  <2>2. IsFiniteSet(1 .. Len(value_))
    BY <2>1, FS_Interval
  <2>3. D \in SUBSET (1 .. Len(value_))
    BY <2>1
  <2> QED BY <2>2, <2>3, FS_Subset
<1>2. ASSUME NEW x \in Dimension
      PROVE  Terms!MapThenSumSet(LAMBDA c : item_list[c] * DrawnVectors[value_[c]][x], D) \in Int
  <2> DEFINE w == [c \in D |-> item_list[c] * DrawnVectors[value_[c]][x]]
             f == CHOOSE it : it = [s \in SUBSET D |->
                    IF s = {} THEN 0
                    ELSE item_list[CHOOSE y \in s : TRUE] * DrawnVectors[value_[CHOOSE y \in s : TRUE]][x]
                           + it[s \ {CHOOSE y \in s : TRUE}]]
  <2>1. \A c \in D : w[c] \in Int /\ w[c] = item_list[c] * DrawnVectors[value_[c]][x]
    <3> SUFFICES ASSUME NEW c \in D PROVE item_list[c] * DrawnVectors[value_[c]][x] \in Int
      OBVIOUS
    <3>1. item_list[c] \in Nat
      BY ItemsAssumption
    <3>2. value_[c] \in 1 .. Len(DrawnVectors)
      BY DEF RigInv, RigType, Draws
    <3>3. DrawnVectors[value_[c]] \in [Dimension -> Int]
      BY <3>2, VectorsAssumption
    <3>4. DrawnVectors[value_[c]][x] \in Int
      BY <3>3
    <3> QED BY <3>1, <3>4
  <2>2. Terms!MapThenSumSet(LAMBDA c : item_list[c] * DrawnVectors[value_[c]][x], D) = f[D]
    BY DEF Terms!MapThenSumSet, Terms!MapThenFoldSet
  <2>3. \A s \in SUBSET D : s # {} => (CHOOSE y \in s : TRUE) \in D
    OBVIOUS
  <2>4. PICK g : IsSum(g, D, w)
    BY <1>1, <2>1, SumExists
  <2> HIDE DEF w
  <2>5. f = [s \in SUBSET D |->
                    IF s = {} THEN 0
                    ELSE item_list[CHOOSE y \in s : TRUE] * DrawnVectors[value_[CHOOSE y \in s : TRUE]][x]
                           + f[s \ {CHOOSE y \in s : TRUE}]]
    <3>1. g = [s \in SUBSET D |->
                    IF s = {} THEN 0
                    ELSE item_list[CHOOSE y \in s : TRUE] * DrawnVectors[value_[CHOOSE y \in s : TRUE]][x]
                           + g[s \ {CHOOSE y \in s : TRUE}]]
      BY <2>1, <2>3, <2>4 DEF IsSum
    <3> QED BY <3>1
  <2> HIDE DEF f
  <2>6. IsSum(f, D, w)
    BY <2>1, <2>3, <2>5 DEF IsSum
  <2>7. f[D] \in Int
    BY <1>1, <2>1, <2>6, SumIsUnique
  <2> QED BY <2>2, <2>7
<1> DEFINE n == [x \in Dimension |->
                  Terms!MapThenSumSet(LAMBDA c : item_list[c] * DrawnVectors[value_[c]][x], D)]
<1>3. n \in [Dimension -> Int]
  BY <1>2, Zenon
<1>4. \A x \in Dimension :
        n[x] = Terms!MapThenSumSet(LAMBDA c : item_list[c] * DrawnVectors[value_[c]][x], D)
  BY Zenon
<1>5. Terms!Sparse(item_list) = [x \in Dimension |-> IF n[x] > 0 THEN n[x] ELSE 0]
  <2> HIDE DEF n
  <2> QED BY <1>4, Zenon DEF Terms!Sparse
<1> HIDE DEF n
<1> QED BY <1>3, <1>5 DEF Vec

(* What is stored, and what the run file has, is what the terms were       *)
(* given; see TermSimilarity for the loop that adds it up.                 *)
Vecs == Vec \cup {Terms!Absent}
KeysOf(run) == {run[n].key : n \in DOMAIN run}
Merging(run, given) ==
  \A t \in Term : given[t] = IF t \in KeysOf(run) THEN MergedOf(run, t) ELSE Terms!Absent

StorageType ==
  /\ run_file \in Seq(Entry)
  /\ storage_file \in [Term -> Vecs] /\ total \in [Term -> Vecs] /\ kept \in [Term -> Vecs]

SumsOK ==
  "storage" \notin torn =>
    /\ stage \notin {"flushing", "failed"} => storage_file = kept
    /\ stage \in {"open", "drawing", "flushing", "failed"} => Merging(run_file, total)

SumInv == StorageType /\ SumsOK

LEMMA RunOfMerged ==
  /\ \A t : Terms!Merged(t) = MergedOf(run_file, t)
  /\ Terms!Keys = KeysOf(run_file)
BY Zenon DEF Terms!Merged, MergedOf, Terms!Keys, KeysOf

LEMMA InitHasSums == Terms!Init => SumInv
<1> SUFFICES ASSUME Terms!Init PROVE SumInv
  OBVIOUS
<1>1. <<>> \in Seq(Entry)
  OBVIOUS
<1>2. run_file = <<>> /\ storage_file = Terms!NoVectors /\ total = Terms!NoVectors
      /\ kept = Terms!NoVectors /\ stage = "down"
  BY DEF Terms!Init, Terms!RIInit
<1>3. Terms!NoVectors \in [Term -> Vecs]
  BY DEF Terms!NoVectors, Vecs
<1> QED BY <1>1, <1>2, <1>3 DEF SumInv, StorageType, SumsOK

(* Open puts each stored vector in the run file once.                      *)
LEMMA RunOfStored ==
  ASSUME StorageType, NEW run, run = Terms!SetToSeq({[key |-> t, value |-> storage_file[t]] : t \in Terms!Stored})
  PROVE  run \in Seq(Entry) /\ Merging(run, storage_file)
<1> DEFINE S == {[key |-> t, value |-> storage_file[t]] : t \in Terms!Stored}
<1>1. Terms!Stored \in SUBSET Term /\ \A t \in Terms!Stored : storage_file[t] \in Vec
  BY DEF Terms!Stored, StorageType, Vecs
<1>2. S \subseteq Entry
  BY <1>1 DEF Entry
<1>3. IsFiniteSet(S)
  <2>1. IsFiniteSet(Terms!Stored)
    BY <1>1, TermsAssumption, FS_Subset
  <2> DEFINE f == [t \in Terms!Stored |-> [key |-> t, value |-> storage_file[t]]]
             D == Terms!Stored
  <2>2. f \in Surjection(D, S)
    BY DEF Surjection
  <2> HIDE DEF f, S, D
  <2>3. IsFiniteSet(D)
    BY <2>1 DEF D
  <2> QED BY <2>2, <2>3, FS_Surjection
<1>4. /\ run \in Seq(S)
      /\ \A x \in S : \E n \in DOMAIN run : run[n] = x
      /\ \A m, n \in DOMAIN run : run[m] = run[n] => m = n
  <2> HIDE DEF S
  <2>1. run = Terms!SetToSeq(S)
    BY DEF S
  <2> QED BY <1>3, <2>1, ListOf
<1>5. run \in Seq(Entry) /\ \A n \in DOMAIN run : run[n] \in S
  <2>1. \A R, Q : \A s \in Seq(R) :
          R \subseteq Q => s \in Seq(Q) /\ \A n \in DOMAIN s : s[n] \in R
    OBVIOUS
  <2> HIDE DEF S
  <2> QED BY <1>2, <1>4, <2>1
<1>6. \A n \in DOMAIN run : run[n].key \in Terms!Stored
                              /\ run[n] = [key |-> run[n].key, value |-> storage_file[run[n].key]]
  <2> SUFFICES ASSUME NEW n \in DOMAIN run
               PROVE  run[n].key \in Terms!Stored
                      /\ run[n] = [key |-> run[n].key, value |-> storage_file[run[n].key]]
    OBVIOUS
  <2>1. PICK t \in Terms!Stored : run[n] = [key |-> t, value |-> storage_file[t]]
    BY <1>5
  <2>2. run[n].key = t
    BY <2>1
  <2> QED BY <2>1, <2>2
<1>7. \A m, n \in DOMAIN run : run[m].key = run[n].key => m = n
  <2> SUFFICES ASSUME NEW m \in DOMAIN run, NEW n \in DOMAIN run, run[m].key = run[n].key
               PROVE  m = n
    OBVIOUS
  <2>1. run[m] = run[n]
    BY <1>6, Zenon
  <2> HIDE DEF S
  <2> QED BY <1>4, <2>1
<1>8. ASSUME NEW t \in Term
      PROVE  storage_file[t] = IF t \in KeysOf(run) THEN MergedOf(run, t) ELSE Terms!Absent
  <2>1. CASE t \in Terms!Stored
    <3>1. PICK m \in DOMAIN run : run[m] = [key |-> t, value |-> storage_file[t]]
      BY <1>4, <2>1
    <3>2. run[m].key = t /\ run[m].value = storage_file[t]
      BY <3>1
    <3>3. t \in KeysOf(run)
      BY <3>2 DEF KeysOf
    <3>4. MergedOf(run, run[m].key) = run[m].value
      <4> HIDE DEF S
      <4> QED BY <1>5, <1>7, MergedOne
    <3> QED BY <3>2, <3>3, <3>4
  <2>2. CASE t \notin Terms!Stored
    <3>1. t \notin KeysOf(run)
      BY <1>6, <2>2 DEF KeysOf
    <3>2. storage_file[t] = Terms!Absent
      BY <2>2 DEF Terms!Stored
    <3> QED BY <3>1, <3>2
  <2> QED BY <2>1, <2>2
<1> QED BY <1>5, <1>8 DEF Merging

LEMMA AppendKeepsSums ==
  ASSUME RigInv, SumInv, NEW id \in Term, NEW item_list \in Items, Terms!AppendItems(id, item_list)
  PROVE  SumInv'
<1> DEFINE v == Terms!Sparse(item_list)
           e == [key |-> id, value |-> v]
<1>1. /\ stage = "open" /\ stage' = stage /\ torn' = torn
      /\ storage_file' = storage_file /\ kept' = kept
      /\ run_file' = Append(run_file, e)
      /\ total' = [total EXCEPT ![id] = Terms!Plus(IF total[id] = Terms!Absent THEN Terms!Zero ELSE total[id], v)]
  BY DEF Terms!AppendItems
<1>2. v \in Vec
  BY SparseType DEF Terms!AppendItems
<1> HIDE DEF v
<1>3. e \in Entry
  BY <1>2 DEF Entry
<1>4. run_file \in Seq(Entry) /\ total \in [Term -> Vecs]
  BY DEF SumInv, StorageType
<1>5. run_file' \in Seq(Entry) /\ KeysOf(run_file') = KeysOf(run_file) \cup {id}
  <2> HIDE DEF e
  <2>1. \A R : \A s \in Seq(R), x \in R :
          /\ Append(s, x) \in Seq(R) /\ DOMAIN Append(s, x) = (DOMAIN s) \cup {Len(s) + 1}
          /\ Append(s, x)[Len(s) + 1] = x /\ \A n \in DOMAIN s : Append(s, x)[n] = s[n]
    OBVIOUS
  <2>2. /\ run_file' \in Seq(Entry) /\ DOMAIN run_file' = (DOMAIN run_file) \cup {Len(run_file) + 1}
        /\ run_file'[Len(run_file) + 1] = e /\ \A n \in DOMAIN run_file : run_file'[n] = run_file[n]
    BY <1>1, <1>3, <1>4, <2>1
  <2>3. e.key = id
    BY DEF e
  <2>4. KeysOf(run_file') = {run_file'[n].key : n \in (DOMAIN run_file) \cup {Len(run_file) + 1}}
    BY <2>2 DEF KeysOf
  <2> QED BY <2>2, <2>3, <2>4 DEF KeysOf
<1>6. total' \in [Term -> Vecs]
  BY <1>1, <1>2, <1>4, PlusType DEF Vecs
<1>7. ASSUME "storage" \notin torn, NEW t \in Term
      PROVE  total'[t] = IF t \in KeysOf(run_file') THEN MergedOf(run_file', t) ELSE Terms!Absent
  <2>1. total[t] = IF t \in KeysOf(run_file) THEN MergedOf(run_file, t) ELSE Terms!Absent
    BY <1>1, <1>7 DEF SumInv, SumsOK, Merging
  <2>2. MergedOf(run_file', t) = IF id = t THEN Terms!Plus(MergedOf(run_file, t), v) ELSE MergedOf(run_file, t)
    BY <1>1, <1>3, <1>4, MergedAppend
  <2>3. MergedOf(run_file, t) \in Vec
    BY <1>4, MergedType
  <2>4. CASE t # id
    BY <1>1, <1>4, <1>5, <2>1, <2>2, <2>4
  <2>5. CASE t = id /\ t \in KeysOf(run_file)
    BY <1>1, <1>4, <1>5, <2>1, <2>2, <2>3, <2>5, PlusType
  <2>6. CASE t = id /\ t \notin KeysOf(run_file)
    <3>1. MergedOf(run_file, t) = Terms!Zero
      <4>1. \A n \in DOMAIN run_file : run_file[n].key # t
        BY <2>6 DEF KeysOf
      <4> QED BY <1>4, <4>1, MergedNone
    <3> QED BY <1>1, <1>4, <1>5, <2>1, <2>2, <2>6, <3>1
  <2> QED BY <2>4, <2>5, <2>6
<1>8. StorageType'
  BY <1>1, <1>5, <1>6 DEF SumInv, StorageType
<1>9. SumsOK'
  BY <1>1, <1>7 DEF SumInv, SumsOK, Merging
<1> QED BY <1>8, <1>9 DEF SumInv

LEMMA StepKeepsSums == RigInv /\ SumInv /\ [Terms!Next]_(Terms!vars) => SumInv'
<1> SUFFICES ASSUME RigInv, SumInv, [Terms!Next]_(Terms!vars) PROVE SumInv'
  OBVIOUS
<1>0. StorageType
  BY DEF SumInv
<1>1. <<>> \in Seq(Entry) /\ Terms!NoVectors \in [Term -> Vecs]
  BY DEF Terms!NoVectors, Vecs
<1>2. \A t \in Term : MergedOf(run_file, t) \in Vecs
  BY <1>0, MergedType DEF StorageType, Vecs
<1>3. CASE Terms!Open
  <2>1. /\ stage \in {"down", "ready", "failed"} /\ stage' = "open" /\ total' = kept
        /\ torn' = torn \cup Terms!InPieces
        /\ UNCHANGED <<storage_file, kept>>
        /\ run_file' = Terms!SetToSeq({[key |-> t, value |-> storage_file[t]] : t \in Terms!Stored})
    BY <1>3 DEF Terms!Open
  <2>2. run_file' \in Seq(Entry) /\ Merging(run_file', storage_file)
    BY <1>0, <2>1, RunOfStored
  <2>3. StorageType'
    BY <2>1, <2>2 DEF SumInv, StorageType
  <2>4. "storage" \notin torn' => storage_file = kept
    BY <2>1 DEF SumInv, SumsOK, Terms!InPieces
  <2>5. SumsOK'
    BY <2>1, <2>2, <2>4 DEF SumsOK
  <2> QED BY <2>3, <2>5 DEF SumInv
<1>4. CASE \E id \in Term, item_list \in Items : Terms!AppendItems(id, item_list)
  BY <1>4, AppendKeepsSums
<1>5. CASE Terms!BeginFlush
  <2>1. /\ stage \in {"open", "ready", "failed"} /\ torn' = torn /\ UNCHANGED <<run_file, total, kept>>
        /\ IF stage # "ready" THEN storage_file' = Terms!NoVectors /\ stage' = "flushing"
                              ELSE storage_file' = storage_file /\ stage' = "flushed"
    BY <1>5 DEF Terms!BeginFlush
  <2>2. StorageType'
    BY <1>1, <2>1 DEF SumInv, StorageType
  <2>3. SumsOK'
    BY <2>1 DEF SumInv, SumsOK
  <2> QED BY <2>2, <2>3 DEF SumInv
<1>6. CASE Terms!EndFlush
  <2>1. /\ stage = "flushing" /\ stage' = "flushed" /\ torn' = torn /\ kept' = total /\ total' = total
        /\ run_file' = <<>>
        /\ storage_file' = [t \in Term |-> IF t \in KeysOf(run_file) THEN MergedOf(run_file, t) ELSE Terms!Absent]
    BY <1>6, RunOfMerged DEF Terms!EndFlush
  <2>2. StorageType'
    BY <1>1, <1>2, <2>1 DEF SumInv, StorageType, Vecs
  <2>3. "storage" \notin torn => storage_file' = kept'
    BY <1>0, <2>1 DEF SumInv, SumsOK, Merging, StorageType
  <2>4. SumsOK'
    BY <2>1, <2>3 DEF SumsOK
  <2> QED BY <2>2, <2>4 DEF SumInv
<1>7. ASSUME NEW f \in Terms!PartlyWritten PROVE f \in [Term -> Vecs]
  <2>1. CASE f = Terms!NoVectors
    BY <1>1, <2>1
  <2>2. CASE \E t \in Terms!Keys : f =
                   [u \in Term |-> IF u \in Terms!Keys /\ u <= t THEN Terms!Merged(u) ELSE Terms!Absent]
    <3>1. \A u \in Term : Terms!Merged(u) \in Vecs /\ Terms!Absent \in Vecs
      BY <1>2, RunOfMerged DEF Vecs
    <3> QED BY <2>2, <3>1
  <2> QED BY <1>7, <2>1, <2>2 DEF Terms!PartlyWritten
<1>8. CASE Terms!FailFlush
  <2>1. /\ stage = "flushing" /\ stage' = "failed" /\ UNCHANGED <<run_file, total, kept, torn>>
        /\ storage_file' \in Terms!PartlyWritten
    BY <1>8 DEF Terms!FailFlush
  <2>2. StorageType'
    BY <1>0, <1>7, <2>1 DEF StorageType
  <2>3. SumsOK'
    BY <2>1 DEF SumInv, SumsOK
  <2> QED BY <2>2, <2>3 DEF SumInv
<1>9. CASE Terms!StopAll
  <2>1. /\ run_file' = <<>> /\ total' = kept /\ kept' = kept /\ stage' = "down"
        /\ torn' = torn \cup Terms!InPieces
        /\ \/ storage_file' = storage_file
           \/ stage = "flushing" /\ storage_file' \in Terms!PartlyWritten
    BY <1>9 DEF Terms!StopAll, Terms!Stop
  <2>2. StorageType'
    BY <1>0, <1>1, <1>7, <2>1 DEF StorageType
  <2>3. "storage" \notin torn' => "storage" \notin torn /\ stage \notin {"flushing", "failed"}
    BY <2>1 DEF Terms!InPieces
  <2>4. SumsOK'
    BY <2>1, <2>3 DEF SumInv, SumsOK
  <2> QED BY <2>2, <2>4 DEF SumInv
<1>10. ASSUME UNCHANGED <<run_file, storage_file, total, kept, torn>>,
             \/ stage' = stage
             \/ stage \in {"open", "drawing"} /\ stage' \in {"open", "drawing"}
             \/ stage \in {"flushed", "searching"} /\ stage' \in {"searching", "ready"}
      PROVE  SumInv'
  <2>1. StorageType'
    BY <1>0, <1>10 DEF StorageType
  <2>2. SumsOK'
    BY <1>10 DEF SumInv, SumsOK
  <2> QED BY <2>1, <2>2 DEF SumInv
<1>11. CASE Terms!FlushRig \/ \E end \in Context : Terms!SetContextMax(end)
  BY <1>10, <1>11 DEF Terms!FlushRig, Terms!SetContextMax, Terms!indexing
<1>12. CASE Terms!Compute
  BY <1>10, <1>12 DEF Terms!Compute, Terms!BeginSearch, Terms!CompareNext, Terms!FlushCollector,
    Terms!indexing, Terms!riVars
<1>13. CASE UNCHANGED Terms!vars
  BY <1>10, <1>13 DEF Terms!vars, Terms!indexing, Terms!riVars
<1> QED BY <1>3, <1>4, <1>5, <1>6, <1>8, <1>9, <1>11, <1>12, <1>13 DEF Terms!Next, Terms!Index

LEMMA SumInvHolds == Terms!Spec => [](RigInv /\ SumInv)
BY InitHasRig, StepKeepsRig, InitHasSums, StepKeepsSums, PTL DEF Terms!Spec

(* A stored vector is the sum of all that was appended for its term, over  *)
(* restarts and however appends and flushes are spread over programs       *)
(* (random_indexing.h), for any terms, contexts and draws.                 *)
THEOREM VectorsAreSums == SimilaritySpec => []StorageIsSum
<1>1. SumInv => StorageIsSum
  BY RunOfMerged DEF SumInv, SumsOK, Merging, StorageIsSum, Terms!StorageIsSum, StorageType, Terms!Keys, KeysOf
<1> QED BY <1>1, SumInvHolds, RunsTerms, PTL

-----------------------------------------------------------------------------
(* The table of similar terms.  A scalar product is a sum over the         *)
(* dimensions, and the same from either side.                              *)
DotOf(v, w) == Terms!MapThenSumSet(LAMBDA x : v[x] * w[x], Dimension)

LEMMA DotIs ==
  ASSUME NEW v \in Vecs, NEW w \in Vecs
  PROVE  /\ DotOf(v, w) = SumOver(Dimension, [x \in Dimension |-> v[x] * w[x]])
         /\ DotOf(v, w) \in Int
<1> DEFINE D == Dimension
           m == [x \in D |-> v[x] * w[x]]
           f == CHOOSE it : it = [s \in SUBSET D |->
                  IF s = {} THEN 0
                  ELSE v[CHOOSE y \in s : TRUE] * w[CHOOSE y \in s : TRUE] + it[s \ {CHOOSE y \in s : TRUE}]]
<1>1. IsFiniteSet(D)
  BY VectorsAssumption
<1>2. \A x \in D : m[x] \in Int /\ m[x] = v[x] * w[x]
  BY DEF Vecs, Vec, Terms!Absent
<1>3. DotOf(v, w) = f[D]
  BY DEF DotOf, Terms!MapThenSumSet, Terms!MapThenFoldSet
<1>4. \A s \in SUBSET D : s # {} => (CHOOSE y \in s : TRUE) \in D
  OBVIOUS
<1> HIDE DEF m
<1>5. PICK g : IsSum(g, D, m)
  <2> HIDE DEF D
  <2> QED BY <1>1, <1>2, SumExists
<1>6. f = [s \in SUBSET D |->
             IF s = {} THEN 0
             ELSE v[CHOOSE y \in s : TRUE] * w[CHOOSE y \in s : TRUE] + f[s \ {CHOOSE y \in s : TRUE}]]
  <2>1. g = [s \in SUBSET D |->
             IF s = {} THEN 0
             ELSE v[CHOOSE y \in s : TRUE] * w[CHOOSE y \in s : TRUE] + g[s \ {CHOOSE y \in s : TRUE}]]
    BY <1>2, <1>4, <1>5 DEF IsSum
  <2> QED BY <2>1
<1> HIDE DEF f
<1>7. IsSum(f, D, m)
  BY <1>2, <1>4, <1>6 DEF IsSum
<1>8. f[D] = SumOver(D, m) /\ f[D] \in Int
  <2> HIDE DEF D
  <2> QED BY <1>1, <1>2, <1>7, SumIsUnique
<1> QED BY <1>3, <1>8 DEF m

LEMMA DotSwaps ==
  ASSUME NEW v \in Vecs, NEW w \in Vecs
  PROVE  DotOf(v, w) = DotOf(w, v)
<1>1. \A x \in Dimension : v[x] * w[x] = w[x] * v[x]
  BY DEF Vecs, Vec, Terms!Absent
<1>2. [x \in Dimension |-> v[x] * w[x]] = [x \in Dimension |-> w[x] * v[x]]
  BY <1>1
<1> QED BY <1>2, DotIs

LEMMA DotOfTerms ==
  /\ \A t, u : Terms!Dot(t, u) = DotOf(storage_file[t], storage_file[u])
BY Zenon DEF Terms!Dot, DotOf

LEMMA SimilarSwaps ==
  ASSUME StorageType, NEW t \in Term, NEW u \in Term
  PROVE  Terms!IsSimilar(t, u) = Terms!IsSimilar(u, t)
<1> DEFINE a == Terms!Dot(t, u)
           b == Terms!Dot(t, t)
           c == Terms!Dot(u, u)
           m == MinScore[1]
           n == MinScore[2]
<1>1. a \in Int /\ b \in Int /\ c \in Int /\ Terms!Dot(u, t) = a
  BY DotOfTerms, DotIs, DotSwaps DEF StorageType
<1>2. m \in Nat /\ n \in Nat
  BY MinScoreAssumption
<1>3. Terms!IsSimilar(t, u) <=> a > 0 /\ a * a * n * n >= m * m * b * c
  BY DEF Terms!IsSimilar
<1>4. Terms!IsSimilar(u, t) <=> Terms!Dot(u, t) > 0 /\ Terms!Dot(u, t) * Terms!Dot(u, t) * n * n >= m * m * c * b
  BY DEF Terms!IsSimilar
<1> HIDE DEF a, b, c, m, n
<1>5. m * m * b * c = m * m * c * b
  BY <1>1, <1>2
<1>6. Terms!IsSimilar(t, u) \in BOOLEAN /\ Terms!IsSimilar(u, t) \in BOOLEAN
  BY DEF Terms!IsSimilar
<1> QED BY <1>1, <1>3, <1>4, <1>5, <1>6

(* What is compared are the vectors that are stored.                       *)
LEMMA SameVectors ==
  ASSUME storage_file' = storage_file
  PROVE  /\ \A t, u : Terms!Dot(t, u)' = Terms!Dot(t, u)
         /\ \A t, u : Terms!IsSimilar(t, u)' = Terms!IsSimilar(t, u)
         /\ \A t : Terms!SimilarTerms(t)' = Terms!SimilarTerms(t)
         /\ \A t, S : Terms!BestLists(t, S)' = Terms!BestLists(t, S)
         /\ Terms!Stored' = Terms!Stored
<1>1. ASSUME NEW t, NEW u PROVE Terms!Dot(t, u)' = Terms!Dot(t, u)
  BY DEF Terms!Dot, Terms!MapThenSumSet, Terms!MapThenFoldSet
<1>2. ASSUME NEW t, NEW u PROVE Terms!IsSimilar(t, u)' = Terms!IsSimilar(t, u)
  BY <1>1 DEF Terms!IsSimilar
<1>3. Terms!Stored' = Terms!Stored
  BY DEF Terms!Stored
<1>4. ASSUME NEW t PROVE Terms!SimilarTerms(t)' = Terms!SimilarTerms(t)
  BY <1>2, <1>3 DEF Terms!SimilarTerms
<1>5. ASSUME NEW t, NEW S PROVE Terms!BestLists(t, S)' = Terms!BestLists(t, S)
  BY <1>1 DEF Terms!BestLists, Terms!AtLeast
<1> QED BY <1>1, <1>2, <1>3, <1>4, <1>5

(* The pairs collected are those of similar terms compared so far, each    *)
(* once in each direction.                                                 *)
Found(t, u) == t # u /\ t \in compared /\ u \in compared /\ Terms!IsSimilar(t, u)

PairsCollected ==
  IF stage = "searching"
  THEN /\ compared \subseteq Terms!Stored
       /\ \A t, u \in Term : writer_[<<t, u>>] = IF Found(t, u) THEN 1 ELSE 0
  ELSE writer_ = Terms!NoPairs

TableInv == PairsCollected /\ Terms!TableIsBest

LEMMA CompareNextKeepsTable ==
  ASSUME StorageType, TableInv, Terms!CompareNext
  PROVE  TableInv'
<1> DEFINE t0 == Terms!Min(Terms!Stored \ compared)
<1>1. /\ stage = "searching" /\ stage' = "searching" /\ storage_file' = storage_file
      /\ compared # Terms!Stored /\ compared' = compared \cup {t0}
      /\ writer_' = [p \in Terms!TermPairs |->
                       IF \/ p[2] = t0 /\ p[1] \in compared /\ Terms!IsSimilar(p[1], t0)
                          \/ p[1] = t0 /\ p[2] \in compared /\ Terms!IsSimilar(p[2], t0)
                       THEN writer_[p] + 1 ELSE writer_[p]]
  BY DEF Terms!CompareNext, Terms!riVars, Terms!indexing
<1>2. /\ compared \subseteq Terms!Stored
      /\ \A t, u \in Term : writer_[<<t, u>>] = IF Found(t, u) THEN 1 ELSE 0
  BY <1>1 DEF TableInv, PairsCollected
<1>3. t0 \in Terms!Stored \ compared /\ t0 \in Term
  <2> DEFINE S == Terms!Stored \ compared
  <2>1. S \in SUBSET Nat /\ S # {} /\ S \subseteq Term
    BY <1>1, <1>2, TermsAssumption DEF Terms!Stored
  <2> HIDE DEF S
  <2>2. \E x \in S : \A y \in S : x <= y
    BY <2>1, MinNat
  <2>3. Terms!Min(S) \in S
    BY <2>2 DEF Terms!Min
  <2> QED BY <2>1, <2>3 DEF S
<1> HIDE DEF t0
<1>4. ASSUME NEW t \in Term, NEW u \in Term
      PROVE  writer_'[<<t, u>>] = IF Found(t, u)' THEN 1 ELSE 0
  <2>1. writer_[<<t, u>>] = IF Found(t, u) THEN 1 ELSE 0
    BY <1>2
  <2>2. writer_'[<<t, u>>] =
          IF \/ u = t0 /\ t \in compared /\ Terms!IsSimilar(t, t0)
             \/ t = t0 /\ u \in compared /\ Terms!IsSimilar(u, t0)
          THEN writer_[<<t, u>>] + 1 ELSE writer_[<<t, u>>]
    BY <1>1 DEF Terms!TermPairs
  <2>3. Found(t, u)' <=> t # u /\ t \in compared \cup {t0} /\ u \in compared \cup {t0} /\ Terms!IsSimilar(t, u)
    BY <1>1, SameVectors DEF Found
  <2>4. Terms!IsSimilar(u, t0) = Terms!IsSimilar(t0, u)
    BY <1>3, SimilarSwaps
  <2>5. t0 \notin compared
    BY <1>3
  <2> QED BY <2>1, <2>2, <2>3, <2>4, <2>5 DEF Found
<1>5. Terms!Stored' = Terms!Stored
  BY <1>1, SameVectors
<1>6. PairsCollected'
  BY <1>1, <1>2, <1>3, <1>4, <1>5 DEF PairsCollected
<1>7. Terms!TableIsBest'
  BY <1>1 DEF Terms!TableIsBest
<1> QED BY <1>6, <1>7 DEF TableInv

LEMMA FlushCollectorKeepsTable ==
  ASSUME TableInv, Terms!FlushCollector
  PROVE  TableInv'
<1>1. /\ stage = "searching" /\ stage' = "ready" /\ storage_file' = storage_file
      /\ compared = Terms!Stored /\ writer_' = Terms!NoPairs
      /\ earlier' = table /\ table_file' = table'
      /\ \A t \in Term : table'[t] \in Terms!NewLists(t)
  BY DEF Terms!FlushCollector, Terms!indexing
<1>2. \A t, u \in Term : writer_[<<t, u>>] = IF Found(t, u) THEN 1 ELSE 0
  BY <1>1 DEF TableInv, PairsCollected
<1>3. ASSUME NEW t \in Terms!Stored
      PROVE  IF Terms!SimilarTerms(t) = {} THEN table'[t] = table[t]
             ELSE table'[t] \in Terms!BestLists(t, Terms!SimilarTerms(t))
  <2>1. t \in Term /\ Terms!Stored \subseteq Term
    BY DEF Terms!Stored
  <2>2. \A u \in Term : writer_[<<t, u>>] > 0 <=> Found(t, u)
    BY <1>2, <2>1
  <2>3. Terms!Collected(t) = Terms!SimilarTerms(t)
    BY <1>1, <2>1, <2>2 DEF Terms!Collected, Terms!SimilarTerms, Found
  <2> QED BY <1>1, <2>1, <2>3 DEF Terms!NewLists
<1>4. PairsCollected'
  BY <1>1 DEF PairsCollected, Terms!NoPairs, Terms!TermPairs
<1>5. Terms!TableIsBest'
  <2>1. /\ Terms!Stored' = Terms!Stored
        /\ \A t : Terms!SimilarTerms(t)' = Terms!SimilarTerms(t)
        /\ \A t, S : Terms!BestLists(t, S)' = Terms!BestLists(t, S)
    BY <1>1, SameVectors
  <2>2. table_file' = table'
    BY <1>1
  <2>3. ASSUME NEW t \in Terms!Stored'
        PROVE  IF Terms!SimilarTerms(t)' = {} THEN table'[t] = earlier'[t]
               ELSE table'[t] \in Terms!BestLists(t, Terms!SimilarTerms(t))'
    <3>1. Terms!SimilarTerms(t)' = Terms!SimilarTerms(t)
      BY <2>1
    <3>2. Terms!BestLists(t, Terms!SimilarTerms(t))' = Terms!BestLists(t, Terms!SimilarTerms(t))
      BY <1>1, <3>1, SameVectors DEF Terms!BestLists, Terms!AtLeast
    <3> QED BY <1>1, <1>3, <2>1, <3>1, <3>2
  <2> QED BY <2>2, <2>3 DEF Terms!TableIsBest
<1> QED BY <1>4, <1>5 DEF TableInv

LEMMA StepKeepsTable == StorageType /\ TableInv /\ [Terms!Next]_(Terms!vars) => TableInv'
<1> SUFFICES ASSUME StorageType, TableInv, [Terms!Next]_(Terms!vars) PROVE TableInv'
  OBVIOUS
<1>1. CASE Terms!CompareNext
  BY <1>1, CompareNextKeepsTable
<1>2. CASE Terms!FlushCollector
  BY <1>2, FlushCollectorKeepsTable
<1>3. CASE Terms!BeginSearch
  <2>1. /\ stage = "flushed" /\ stage' = "searching" /\ compared' = {} /\ writer_' = writer_
        /\ storage_file' = storage_file
    BY <1>3 DEF Terms!BeginSearch, Terms!indexing
  <2>2. \A t, u \in Term : writer_'[<<t, u>>] = 0
    BY <2>1 DEF TableInv, PairsCollected, Terms!NoPairs, Terms!TermPairs
  <2>3. PairsCollected'
    BY <2>1, <2>2 DEF PairsCollected, Found
  <2>4. Terms!TableIsBest'
    BY <2>1 DEF Terms!TableIsBest
  <2> QED BY <2>3, <2>4 DEF TableInv
<1>4. ASSUME stage' \notin {"searching", "ready"},
             \/ writer_' = Terms!NoPairs
             \/ stage # "searching" /\ writer_' = writer_
      PROVE  TableInv'
  <2>1. PairsCollected'
    BY <1>4 DEF TableInv, PairsCollected, Terms!NoPairs, Terms!TermPairs
  <2>2. Terms!TableIsBest'
    BY <1>4 DEF Terms!TableIsBest
  <2> QED BY <2>1, <2>2 DEF TableInv
<1>5. CASE Terms!StopAll
  BY <1>4, <1>5 DEF Terms!StopAll, Terms!Stop
<1>6. CASE Terms!Index /\ UNCHANGED Terms!simVars
  BY <1>4, <1>6 DEF Terms!Index, Terms!Open, Terms!SetContextMax, Terms!FlushRig, Terms!AppendItems,
    Terms!BeginFlush, Terms!EndFlush, Terms!FailFlush, Terms!simVars
<1>7. CASE UNCHANGED Terms!vars
  <2>1. UNCHANGED <<stage, compared, writer_, table, table_file, earlier, storage_file>>
    BY <1>7 DEF Terms!vars, Terms!riVars, Terms!indexing, Terms!simVars
  <2>2. PairsCollected'
    <3>1. ASSUME NEW t \in Term, NEW u \in Term PROVE Found(t, u)' = Found(t, u)
      BY <2>1, SameVectors DEF Found
    <3> QED BY <2>1, <3>1, SameVectors DEF TableInv, PairsCollected, Terms!NoPairs, Terms!TermPairs
  <2>3. Terms!TableIsBest'
    <3>1. SUFFICES ASSUME stage = "ready", NEW t \in Terms!Stored
                   PROVE  IF Terms!SimilarTerms(t)' = {} THEN table[t] = earlier[t]
                          ELSE table[t] \in Terms!BestLists(t, Terms!SimilarTerms(t))'
      BY <2>1, SameVectors DEF TableInv, Terms!TableIsBest
    <3>2. Terms!SimilarTerms(t)' = Terms!SimilarTerms(t)
      BY <2>1, SameVectors
    <3>3. Terms!BestLists(t, Terms!SimilarTerms(t))' = Terms!BestLists(t, Terms!SimilarTerms(t))
      BY <2>1, <3>2, SameVectors DEF Terms!BestLists, Terms!AtLeast
    <3> QED BY <3>1, <3>2, <3>3 DEF TableInv, Terms!TableIsBest
  <2> QED BY <2>2, <2>3 DEF TableInv
<1> QED BY <1>1, <1>2, <1>3, <1>5, <1>6, <1>7 DEF Terms!Next, Terms!Compute

(* After Compute the table, in memory and on disk, has the most similar    *)
(* terms of each (term_similarity.h, sim_output_collector.h), whatever     *)
(* vectors are stored.                                                     *)
THEOREM TableHasTheBest == SimilaritySpec => []TableIsBest
<1>1. Terms!Init => TableInv
  BY DEF Terms!Init, Terms!RIInit, TableInv, PairsCollected, Terms!TableIsBest
<1>2. TableInv => TableIsBest
  BY DEF TableInv, TableIsBest
<1>3. SumInv => StorageType
  BY DEF SumInv
<1> QED BY <1>1, <1>2, <1>3, SumInvHolds, StepKeepsTable, RunsTerms, PTL DEF Terms!Spec
=============================================================================
