---------------------------- MODULE ItemCFProofs ----------------------------
(***************************************************************************)
(* Proofs about ItemCF, for any users, items, rows of the node, numbers of *)
(* neighbours and word sizes: the types, and that the counts are those of  *)
(* the users who bought the items; and, where no product wraps, that the   *)
(* similarities, neighbours and recommendations are what the counts say.   *)
(***************************************************************************)
EXTENDS ItemCF, FiniteSetTheorems, TLAPS

USE DEF given

Row == [Item -> Similarity]

-----------------------------------------------------------------------------
(* Similarities have their type: a product modulo a positive number.       *)
LEMMA SimType ==
  ASSUME NEW ij \in Nat, NEW ii \in Nat, NEW jj \in Nat
  PROVE  Sim(ij, ii, jj) \in Similarity
<1>1. ii * jj \in Nat
  OBVIOUS
<1>2. \A x \in Nat : x % Modulus \in Nat
  BY ModulusAssumption
<1> QED BY <1>1, <1>2 DEF Sim, Similarity

LEMMA NoSimType == NoSim \in Similarity
  BY DEF NoSim, Similarity

LEMMA SimRowType ==
  ASSUME TypeOK, NEW i \in Item
  PROVE  SimRow(i) \in Row
<1> SUFFICES ASSUME NEW j \in Item
             PROVE  SimRow(i)[j] \in Similarity
  BY DEF SimRow, Row
<1>1. visitMatrix_[i][j] \in Nat /\ visitMatrix_[i][i] \in Nat /\ visitFreqDB_[j] \in Nat
  BY DEF TypeOK, Matrix
<1>2. Sim(visitMatrix_[i][j], visitMatrix_[i][i], visitFreqDB_[j]) \in Similarity
  BY <1>1, SimType
<1> QED BY <1>2, NoSimType DEF SimRow

(* The neighbours of a row are items with similarities.                    *)
LEMMA NeighborsType ==
  ASSUME NEW row \in Row, NEW top \in NeighborsOf(row)
  PROVE  top \in SUBSET [item : Item, sim : Similarity]
<1>1. PICK S \in Tops(row) : top = {[item |-> j, sim |-> row[j]] : j \in S}
  BY DEF NeighborsOf
<1>2. S \subseteq Item
  BY DEF Tops, ColsOf
<1> QED BY <1>1, <1>2 DEF Row

(* Visiting adds one at the pairs with a new item in rows of this node.    *)
Pair(i, j, old, new) == (i \in old /\ j \in new) \/ (i \in new /\ j \in old \cup new)

LEMMA VisitedAt ==
  ASSUME NEW m \in Matrix, NEW old, NEW new, NEW i \in Item, NEW j \in Item
  PROVE  Visited(m, old, new)[i][j] =
           IF i \in Mine /\ Pair(i, j, old, new) THEN m[i][j] + 1 ELSE m[i][j]
  BY DEF Visited, Pair

LEMMA VisitedType ==
  ASSUME NEW m \in Matrix, NEW old, NEW new
  PROVE  Visited(m, old, new) \in Matrix
<1>1. \A i, j \in Item : m[i][j] \in Nat
  BY DEF Matrix
<1>2. \A i, j \in Item :
        (IF i \in Mine /\ ((i \in old /\ j \in new) \/ (i \in new /\ j \in old \cup new))
         THEN m[i][j] + 1 ELSE m[i][j]) \in Nat
  BY <1>1
<1> QED BY <1>2 DEF Visited, Matrix

-----------------------------------------------------------------------------
LEMMA InitType == Init => TypeOK
<1> SUFFICES ASSUME Init PROVE TypeOK
  OBVIOUS
<1>1. ZeroMatrix \in Matrix /\ Zeros \in [Item -> Nat]
  BY DEF ZeroMatrix, Zeros, Matrix
<1>2. NoSims \in [Item -> [Item -> Similarity]]
  BY NoSimType DEF NoSims
<1>3. Empty \in Neighbors
  BY DEF Empty, Neighbors
<1> QED BY <1>1, <1>2, <1>3 DEF Init, TypeOK

(* The disk's fields, for the actions that write some of them.             *)
Disk == [visit : Matrix, freq : [Item -> Nat],
         sim : [Item -> [Item -> Similarity]], neighbors : Neighbors]

LEMMA FlushedType ==
  ASSUME TypeOK
  PROVE  FlushedNeighbors \in Neighbors
  BY DEF TypeOK, FlushedNeighbors, Neighbors

LEMMA KeptType ==
  ASSUME NEW T, NEW memory \in [Item -> T], NEW stored \in [Item -> T], NEW written
  PROVE  Kept(memory, stored, written) \in [Item -> T]
  BY DEF Kept

LEMMA ForgetType ==
  ASSUME Forget, topK_' \in TopKs, disk' \in Disk, bought' \in [User -> SUBSET Item],
         behind' \in BOOLEAN, crashed' \in BOOLEAN
  PROVE  TypeOK'
<1>1. ZeroMatrix \in Matrix /\ Zeros \in [Item -> Nat]
  BY DEF ZeroMatrix, Zeros, Matrix
<1>2. NoSims \in [Item -> [Item -> Similarity]]
  BY NoSimType DEF NoSims
<1>3. Empty \in Neighbors
  BY DEF Empty, Neighbors
<1> QED BY <1>1, <1>2, <1>3 DEF Forget, TypeOK, Disk

LEMMA NextType == TypeOK /\ [Next]_vars => TypeOK'
<1> SUFFICES ASSUME TypeOK, [Next]_vars PROVE TypeOK'
  OBVIOUS
<1> USE DEF TypeOK
<1>1. CASE \E u \in User, items \in SUBSET Item,
             function \in {"updateMatrix", "updateVisitMatrix"} : Purchase(u, items, function)
  BY <1>1 DEF Purchase, counts, neighbors, history
<1>2. CASE UpdateVisitMatrix
  BY <1>2, VisitedType DEF UpdateVisitMatrix, neighbors, update, history
<1>3. CASE UpdateVisitFreq
  <2>1. visitFreqDB_' \in [Item -> Nat]
    <3>1. \A i \in Item : visitFreqDB_[i] + (IF i \in newItems THEN 1 ELSE 0) \in Nat
      OBVIOUS
    <3> QED BY <1>3, <3>1 DEF UpdateVisitFreq
  <2>2. behind' \in BOOLEAN
    BY <1>3 DEF UpdateVisitFreq
  <2> QED BY <1>3, <2>1, <2>2 DEF UpdateVisitFreq, Return, neighbors
<1>4. CASE BuildSimMatrix
  BY <1>4 DEF BuildSimMatrix, counts, neighbors, history
<1>5. ASSUME NEW i \in Item, UpdateSimRow(i)
      PROVE  TypeOK'
  <2>1. SimRow(i) \in Row
    BY SimRowType
  <2>2. simMatrix_' \in [Item -> [Item -> Similarity]]
    <3>1. PICK S \in SUBSET Item :
            simMatrix_' = [r \in Item |->
              IF r = i THEN SimRow(i)
              ELSE IF r \in S THEN [simMatrix_[r] EXCEPT ![i] = SimRow(i)[r]]
              ELSE simMatrix_[r]]
      BY <1>5, <2>1 DEF UpdateSimRow, Symmetric, ColsOf
    <3>2. \A r \in Item : SimRow(i)[r] \in Similarity
      BY <2>1 DEF Row
    <3>3. \A r \in Item : simMatrix_[r] \in [Item -> Similarity]
      OBVIOUS
    <3>4. \A r \in Item : [simMatrix_[r] EXCEPT ![i] = SimRow(i)[r]] \in [Item -> Similarity]
      BY <3>2, <3>3
    <3> QED BY <2>1, <3>1, <3>3, <3>4 DEF Row
  <2>3. neighbors_' \in Neighbors
    BY <1>5, <2>1, NeighborsType DEF UpdateSimRow, Neighbors
  <2>4. updatedRows' \subseteq Item
    BY <1>5 DEF UpdateSimRow, Symmetric, ColsOf
  <2> QED BY <1>5, <2>2, <2>3, <2>4 DEF UpdateSimRow, counts, history
<1>6. ASSUME NEW i \in Item, UpdateSimRowCols(i)
      PROVE  TypeOK'
  <2>1. SimRow(i) \in Row
    BY SimRowType
  <2>2. [j \in Item |-> IF j \in newItems /\ j # i THEN SimRow(i)[j] ELSE simMatrix_[i][j]]
          \in [Item -> Similarity]
    BY <2>1 DEF Row
  <2>3. simMatrix_' \in [Item -> [Item -> Similarity]]
    BY <1>6, <2>2 DEF UpdateSimRowCols
  <2> QED BY <1>6, <2>3 DEF UpdateSimRowCols, counts, neighbors, history
<1>7. ASSUME NEW i \in Item, UpdateNeighbor(i)
      PROVE  TypeOK'
  <2>1. simMatrix_[i] \in Row
    BY DEF Row
  <2>2. neighbors_' \in Neighbors
    BY <1>7, <2>1, NeighborsType DEF UpdateNeighbor, Neighbors
  <2> QED BY <1>7, <2>2 DEF UpdateNeighbor, counts, history
<1>8. CASE EndRows
  BY <1>8 DEF EndRows, Return, counts, neighbors
<1>9. CASE EndCols
  BY <1>9 DEF EndCols, counts, neighbors, update, history
<1>10. CASE EndUpdate
  BY <1>10 DEF EndUpdate, Return, counts, neighbors, history
<1>11. CASE FlushStep
  <2>1. FlushedNeighbors \in Neighbors
    BY FlushedType
  <2>2. disk' \in Disk
    BY <1>11, <2>1 DEF FlushStep, Flush, Disk
  <2> QED BY <1>11, <2>2 DEF FlushStep, Flush, Disk, counts, update, history
<1>12. CASE Close
  <2>1. disk' \in Disk
    BY <1>12, FlushedType DEF Close, Disk
  <2> QED BY <1>12, <2>1, ForgetType DEF Close, history
<1>13. CASE Open
  BY <1>13 DEF Open, update, history
<1>14. CASE Crash
  <2>1. PICK visits, freqs, sims :
          disk' = [disk EXCEPT !.visit = Kept(visitMatrix_, disk.visit, visits),
                               !.freq = Kept(visitFreqDB_, disk.freq, freqs),
                               !.sim = Kept(simMatrix_, disk.sim, sims)]
    BY <1>14 DEF Crash
  <2>2. Kept(visitMatrix_, disk.visit, visits) \in Matrix
    BY KeptType DEF Matrix
  <2>3. Kept(visitFreqDB_, disk.freq, freqs) \in [Item -> Nat]
    BY KeptType
  <2>4. Kept(simMatrix_, disk.sim, sims) \in [Item -> [Item -> Similarity]]
    BY KeptType
  <2>5. disk' \in Disk
    BY <2>1, <2>2, <2>3, <2>4 DEF Disk
  <2> QED BY <1>14, <2>5, ForgetType DEF Crash
<1>15. CASE UNCHANGED vars
  BY <1>15 DEF vars, counts, neighbors, update, history
<1> QED
  BY <1>1, <1>2, <1>3, <1>4, <1>5, <1>6, <1>7, <1>8, <1>9, <1>10, <1>11, <1>12, <1>13,
     <1>14, <1>15 DEF Next

(* Every variable of the recommender keeps its type. *)
THEOREM ItemCFType == Spec => []TypeOK
  BY InitType, NextType, PTL DEF Spec

-----------------------------------------------------------------------------
(* The pairs of the purchase under way that a store does not know of yet.  *)
Lag(i, j) ==
  IF pc = "visit" /\ Pair(i, j, oldItems, newItems) THEN 1 ELSE 0

FreqLag(j) == IF pc \in {"visit", "freq"} /\ j \in newItems THEN 1 ELSE 0

(* The counts are those of the users, but for what is under way; closed    *)
(* stores have all of it on disk.                                          *)
ExactInv ==
  ~crashed =>
    \A i, j \in Item :
      /\ i \in Mine /\ pc # "down" => visitMatrix_[i][j] + Lag(i, j) = Count(i, j)
      /\ pc # "down" => visitFreqDB_[j] + FreqLag(j) = Count(j, j)
      /\ i \in Mine /\ pc = "down" => disk.visit[i][j] = Count(i, j)
      /\ pc = "down" => disk.freq[j] = Count(j, j)

(* Whatever was lost, no count is more than that of the users.             *)
BoundInv ==
  \A i, j \in Item :
    /\ visitMatrix_[i][j] + Lag(i, j) <= Count(i, j)
    /\ visitFreqDB_[j] + FreqLag(j) <= Count(j, j)
    /\ disk.visit[i][j] <= Count(i, j)
    /\ disk.freq[j] <= Count(j, j)

CountInv == TypeOK /\ ExactInv /\ BoundInv

LEMMA CountType ==
  ASSUME TypeOK, NEW i, NEW j
  PROVE  Count(i, j) \in Nat
<1>1. IsFiniteSet(Buyers(i, j))
  BY UserAssumption, FS_Subset DEF Buyers
<1> QED BY <1>1, FS_CardinalityType DEF Count

(* A purchase adds one user to the buyers of the pairs it completes.       *)
LEMMA CountOfPurchase ==
  ASSUME TypeOK, NEW u \in User, NEW items \in SUBSET Item, NEW function,
         Purchase(u, items, function), NEW i \in Item, NEW j \in Item
  PROVE  Count(i, j)' = Count(i, j) + (IF Pair(i, j, oldItems', newItems') THEN 1 ELSE 0)
<1>1. /\ bought' = [bought EXCEPT ![u] = bought[u] \cup items]
      /\ items \cap bought[u] = {}
      /\ oldItems' = bought[u] /\ newItems' = items
  BY DEF Purchase
<1>2. bought[u] \subseteq Item
  BY DEF TypeOK
<1>3. IsFiniteSet(Buyers(i, j))
  BY UserAssumption, FS_Subset DEF Buyers
<1>4. bought'[u] = bought[u] \cup items /\ \A v \in User \ {u} : bought'[v] = bought[v]
  BY <1>1 DEF TypeOK
<1>5. CASE Pair(i, j, oldItems', newItems')
  <2>1. {i, j} \subseteq bought'[u] /\ ~({i, j} \subseteq bought[u])
    BY <1>1, <1>4, <1>5 DEF Pair
  <2>2. u \notin Buyers(i, j)
    BY <2>1 DEF Buyers
  <2>3. Buyers(i, j)' = Buyers(i, j) \cup {u}
    BY <1>4, <2>1 DEF Buyers
  <2>4. Cardinality(Buyers(i, j) \cup {u}) = Cardinality(Buyers(i, j)) + 1
    BY <1>3, <2>2, FS_AddElement
  <2> QED BY <1>5, <2>3, <2>4 DEF Count
<1>6. CASE ~Pair(i, j, oldItems', newItems')
  <2>1. {i, j} \subseteq bought'[u] <=> {i, j} \subseteq bought[u]
    BY <1>1, <1>4, <1>6 DEF Pair
  <2>2. Buyers(i, j)' = Buyers(i, j)
    BY <1>4, <2>1 DEF Buyers
  <2>3. Count(i, j) \in Nat
    BY CountType
  <2> QED BY <1>6, <2>2, <2>3 DEF Count
<1> QED BY <1>5, <1>6

LEMMA SameCount ==
  ASSUME bought' = bought, NEW i, NEW j
  PROVE  Count(i, j)' = Count(i, j)
  BY DEF Count, Buyers

LEMMA InitCount == Init => ExactInv /\ BoundInv
<1> SUFFICES ASSUME Init PROVE ExactInv /\ BoundInv
  OBVIOUS
<1>1. \A i, j \in Item : Count(i, j) = 0
  <2> TAKE i, j \in Item
  <2>1. Buyers(i, j) = {}
    BY DEF Init, Buyers
  <2> QED BY <2>1, FS_EmptySet DEF Count
<1>2. \A i, j \in Item :
        /\ visitMatrix_[i][j] = 0 /\ visitFreqDB_[j] = 0
        /\ disk.visit[i][j] = 0 /\ disk.freq[j] = 0
        /\ Lag(i, j) = 0 /\ FreqLag(j) = 0
  BY DEF Init, ZeroMatrix, Zeros, Lag, FreqLag
<1> QED BY <1>1, <1>2 DEF ExactInv, BoundInv, Init

(* Steps away from the counting keep both invariants: they neither buy nor *)
(* count, and the stores are open.                                         *)
LEMMA QuietSteps ==
  ASSUME CountInv, UNCHANGED <<bought, counts, disk, crashed>>,
         pc \notin {"down", "visit", "freq"}, pc' \notin {"down", "visit", "freq"}
  PROVE  ExactInv' /\ BoundInv'
<1>1. \A i, j \in Item :
        /\ Lag(i, j) = 0 /\ Lag(i, j)' = 0
        /\ FreqLag(j) = 0 /\ FreqLag(j)' = 0
        /\ Count(i, j)' = Count(i, j)
  BY SameCount DEF Lag, FreqLag
<1>2. visitMatrix_' = visitMatrix_ /\ visitFreqDB_' = visitFreqDB_
  BY DEF counts
<1>3. ExactInv'
  BY <1>1, <1>2 DEF CountInv, ExactInv
<1>4. BoundInv'
  BY <1>1, <1>2 DEF CountInv, BoundInv
<1> QED BY <1>3, <1>4

LEMMA PurchaseCount ==
  ASSUME CountInv, NEW u \in User, NEW items \in SUBSET Item, NEW function,
         Purchase(u, items, function)
  PROVE  ExactInv' /\ BoundInv'
<1>1. pc = "idle" /\ pc' = "visit"
  BY DEF Purchase
<1>2. /\ visitMatrix_' = visitMatrix_ /\ visitFreqDB_' = visitFreqDB_
      /\ disk' = disk /\ crashed' = crashed
  BY DEF Purchase, counts, history
<1>3. ASSUME NEW i \in Item, NEW j \in Item
      PROVE  /\ Lag(i, j) = 0 /\ FreqLag(j) = 0
             /\ Count(i, j)' = Count(i, j) + Lag(i, j)'
             /\ Count(j, j)' = Count(j, j) + FreqLag(j)'
             /\ Lag(i, j)' \in Nat /\ FreqLag(j)' \in Nat
  <2>1. TypeOK
    BY DEF CountInv
  <2>2. Count(i, j)' = Count(i, j) + (IF Pair(i, j, oldItems', newItems') THEN 1 ELSE 0)
    BY <2>1, CountOfPurchase
  <2>3. Count(j, j)' = Count(j, j) + (IF Pair(j, j, oldItems', newItems') THEN 1 ELSE 0)
    BY <2>1, CountOfPurchase
  <2>4. Pair(j, j, oldItems', newItems') <=> j \in newItems'
    BY DEF Pair
  <2> QED BY <1>1, <2>2, <2>3, <2>4 DEF Lag, FreqLag
<1>4. \A i, j \in Item : Count(i, j) \in Nat
  BY CountType DEF CountInv
<1>5. \A i, j \in Item :
        /\ visitMatrix_[i][j] \in Nat /\ visitFreqDB_[j] \in Nat
        /\ disk.visit[i][j] \in Nat /\ disk.freq[j] \in Nat
  BY DEF CountInv, TypeOK, Matrix
<1>6. ExactInv'
  BY <1>1, <1>2, <1>3, <1>4, <1>5 DEF CountInv, ExactInv
<1>7. BoundInv'
  BY <1>1, <1>2, <1>3, <1>4, <1>5 DEF CountInv, BoundInv
<1> QED BY <1>6, <1>7

LEMMA UpdateVisitMatrixCount ==
  ASSUME CountInv, UpdateVisitMatrix
  PROVE  ExactInv' /\ BoundInv'
<1>1. /\ pc = "visit" /\ pc' = "freq"
      /\ visitMatrix_' = Visited(visitMatrix_, oldItems, newItems)
      /\ visitFreqDB_' = visitFreqDB_ /\ disk' = disk /\ crashed' = crashed
      /\ oldItems' = oldItems /\ newItems' = newItems /\ bought' = bought
  BY DEF UpdateVisitMatrix, history, update
<1>2. visitMatrix_ \in Matrix
  BY DEF CountInv, TypeOK
<1>3. ASSUME NEW i \in Item, NEW j \in Item
      PROVE  /\ visitMatrix_'[i][j] = visitMatrix_[i][j] + (IF i \in Mine THEN Lag(i, j) ELSE 0)
             /\ Lag(i, j)' = 0 /\ Lag(i, j) \in Nat
             /\ FreqLag(j)' = FreqLag(j)
             /\ Count(i, j)' = Count(i, j) /\ Count(j, j)' = Count(j, j)
             /\ Count(i, j) \in Nat /\ visitMatrix_[i][j] \in Nat
  <2>1. visitMatrix_'[i][j] = IF i \in Mine /\ Pair(i, j, oldItems, newItems)
                              THEN visitMatrix_[i][j] + 1 ELSE visitMatrix_[i][j]
    BY <1>1, <1>2, VisitedAt
  <2>2. visitMatrix_[i][j] \in Nat
    BY <1>2 DEF Matrix
  <2>3. Count(i, j)' = Count(i, j) /\ Count(j, j)' = Count(j, j) /\ Count(i, j) \in Nat
    BY <1>1, SameCount, CountType DEF CountInv
  <2> QED BY <1>1, <2>1, <2>2, <2>3 DEF Lag, FreqLag
<1>4. ExactInv'
  BY <1>1, <1>3 DEF CountInv, ExactInv
<1>5. BoundInv'
  BY <1>1, <1>3 DEF CountInv, BoundInv
<1> QED BY <1>4, <1>5

LEMMA UpdateVisitFreqCount ==
  ASSUME CountInv, UpdateVisitFreq
  PROVE  ExactInv' /\ BoundInv'
<1>1. /\ pc = "freq" /\ pc' \in {"idle", "rows"}
      /\ visitMatrix_' = visitMatrix_ /\ disk' = disk /\ crashed' = crashed
      /\ bought' = bought
  BY DEF UpdateVisitFreq, Return
<1>2. \A j \in Item : visitFreqDB_'[j] = visitFreqDB_[j] + (IF j \in newItems THEN 1 ELSE 0)
  BY DEF UpdateVisitFreq
<1>3. \A i, j \in Item :
        /\ Lag(i, j) = 0 /\ Lag(i, j)' = 0
        /\ visitFreqDB_'[j] = visitFreqDB_[j] + FreqLag(j) /\ FreqLag(j)' = 0
        /\ Count(i, j)' = Count(i, j)
        /\ visitFreqDB_[j] \in Nat /\ FreqLag(j) \in Nat
  BY <1>1, <1>2, SameCount DEF Lag, FreqLag, CountInv, TypeOK
<1>4. ExactInv'
  BY <1>1, <1>3 DEF CountInv, ExactInv
<1>5. BoundInv'
  BY <1>1, <1>3 DEF CountInv, BoundInv
<1> QED BY <1>4, <1>5

LEMMA FlushCount ==
  ASSUME CountInv, FlushStep
  PROVE  ExactInv' /\ BoundInv'
<1>1. /\ pc \notin {"down", "visit", "freq"} /\ pc' \notin {"down", "visit", "freq"}
      /\ visitMatrix_' = visitMatrix_ /\ visitFreqDB_' = visitFreqDB_
      /\ bought' = bought /\ crashed' = crashed
  BY DEF FlushStep, Flush, counts, history
<1>2. /\ disk'.visit \in {disk.visit, visitMatrix_}
      /\ disk'.freq \in {disk.freq, visitFreqDB_}
  BY DEF FlushStep, Flush, CountInv, TypeOK
<1>3. \A i, j \in Item :
        /\ Lag(i, j) = 0 /\ Lag(i, j)' = 0 /\ FreqLag(j) = 0 /\ FreqLag(j)' = 0
        /\ Count(i, j)' = Count(i, j)
        /\ visitMatrix_[i][j] \in Nat /\ visitFreqDB_[j] \in Nat
  BY <1>1, SameCount DEF Lag, FreqLag, CountInv, TypeOK, Matrix
<1>4. ExactInv'
  BY <1>1, <1>3 DEF CountInv, ExactInv
<1>5. BoundInv'
  BY <1>1, <1>2, <1>3 DEF CountInv, BoundInv
<1> QED BY <1>4, <1>5

(* What is down has zeros in memory. *)
LEMMA ForgottenCounts ==
  ASSUME Forget, bought' = bought, TypeOK
  PROVE  /\ pc' = "down"
         /\ \A i, j \in Item :
              /\ visitMatrix_'[i][j] = 0 /\ visitFreqDB_'[j] = 0
              /\ Lag(i, j)' = 0 /\ FreqLag(j)' = 0
              /\ Count(i, j)' = Count(i, j) /\ Count(i, j) \in Nat
  BY SameCount, CountType DEF Forget, ZeroMatrix, Zeros, Lag, FreqLag

LEMMA CloseCount ==
  ASSUME CountInv, Close
  PROVE  ExactInv' /\ BoundInv'
<1>1. /\ pc = "idle" /\ Forget /\ bought' = bought /\ crashed' = crashed
      /\ disk'.visit = visitMatrix_ /\ disk'.freq = visitFreqDB_
  BY DEF Close, history
<1>2. \A i, j \in Item :
        /\ Lag(i, j) = 0 /\ FreqLag(j) = 0
        /\ visitMatrix_[i][j] \in Nat /\ visitFreqDB_[j] \in Nat
  BY <1>1 DEF Lag, FreqLag, CountInv, TypeOK, Matrix
<1>3. /\ pc' = "down"
      /\ \A i, j \in Item :
           /\ visitMatrix_'[i][j] = 0 /\ visitFreqDB_'[j] = 0
           /\ Lag(i, j)' = 0 /\ FreqLag(j)' = 0
           /\ Count(i, j)' = Count(i, j) /\ Count(i, j) \in Nat
  BY <1>1, ForgottenCounts DEF CountInv
<1>4. ExactInv'
  BY <1>1, <1>2, <1>3 DEF CountInv, ExactInv
<1>5. BoundInv'
  BY <1>1, <1>2, <1>3 DEF CountInv, BoundInv
<1> QED BY <1>4, <1>5

LEMMA OpenCount ==
  ASSUME CountInv, Open
  PROVE  ExactInv' /\ BoundInv'
<1>1. /\ pc = "down" /\ pc' = "idle" /\ bought' = bought /\ crashed' = crashed
      /\ visitMatrix_' = disk.visit /\ visitFreqDB_' = disk.freq /\ disk' = disk
  BY DEF Open, history
<1>2. \A i, j \in Item :
        /\ Lag(i, j)' = 0 /\ FreqLag(j)' = 0
        /\ Count(i, j)' = Count(i, j)
        /\ disk.visit[i][j] \in Nat /\ disk.freq[j] \in Nat
  BY <1>1, SameCount DEF Lag, FreqLag, CountInv, TypeOK, Matrix
<1>3. ExactInv'
  BY <1>1, <1>2 DEF CountInv, ExactInv
<1>4. BoundInv'
  BY <1>1, <1>2 DEF CountInv, BoundInv
<1> QED BY <1>3, <1>4

LEMMA CrashCount ==
  ASSUME CountInv, Crash
  PROVE  ExactInv' /\ BoundInv'
<1>1. Forget /\ bought' = bought /\ crashed' = TRUE
  BY DEF Crash
<1>2. PICK visits, freqs, sims :
        disk' = [disk EXCEPT !.visit = Kept(visitMatrix_, disk.visit, visits),
                             !.freq = Kept(visitFreqDB_, disk.freq, freqs),
                             !.sim = Kept(simMatrix_, disk.sim, sims)]
  BY DEF Crash
<1>3. \A i, j \in Item :
        /\ disk'.visit[i][j] \in {disk.visit[i][j], visitMatrix_[i][j]}
        /\ disk'.freq[j] \in {disk.freq[j], visitFreqDB_[j]}
  BY <1>2 DEF Kept, CountInv, TypeOK
<1>4. \A i, j \in Item :
        /\ Lag(i, j) \in Nat /\ FreqLag(j) \in Nat
        /\ visitMatrix_[i][j] \in Nat /\ visitFreqDB_[j] \in Nat
  BY DEF Lag, FreqLag, CountInv, TypeOK, Matrix
<1>5. /\ pc' = "down"
      /\ \A i, j \in Item :
           /\ visitMatrix_'[i][j] = 0 /\ visitFreqDB_'[j] = 0
           /\ Lag(i, j)' = 0 /\ FreqLag(j)' = 0
           /\ Count(i, j)' = Count(i, j) /\ Count(i, j) \in Nat
  BY <1>1, ForgottenCounts DEF CountInv
<1>6. \A i, j \in Item :
        /\ visitMatrix_[i][j] <= Count(i, j) /\ visitFreqDB_[j] <= Count(j, j)
        /\ disk.visit[i][j] <= Count(i, j) /\ disk.freq[j] <= Count(j, j)
  BY <1>4, <1>5 DEF CountInv, BoundInv
<1>7. BoundInv'
  BY <1>3, <1>5, <1>6 DEF BoundInv
<1> QED BY <1>1, <1>7 DEF ExactInv

LEMMA NextCount == CountInv /\ [Next]_vars => CountInv'
<1> SUFFICES ASSUME CountInv, [Next]_vars PROVE ExactInv' /\ BoundInv'
  BY NextType DEF CountInv
<1>1. ASSUME NEW u \in User, NEW items \in SUBSET Item,
             NEW function \in {"updateMatrix", "updateVisitMatrix"},
             Purchase(u, items, function)
      PROVE  ExactInv' /\ BoundInv'
  BY <1>1, PurchaseCount
<1>2. CASE UpdateVisitMatrix
  BY <1>2, UpdateVisitMatrixCount
<1>3. CASE UpdateVisitFreq
  BY <1>3, UpdateVisitFreqCount
<1>4. CASE BuildSimMatrix
  BY <1>4, QuietSteps DEF BuildSimMatrix, history
<1>5. ASSUME NEW i \in Item, UpdateSimRow(i) \/ UpdateSimRowCols(i) \/ UpdateNeighbor(i)
      PROVE  ExactInv' /\ BoundInv'
  BY <1>5, QuietSteps DEF UpdateSimRow, UpdateSimRowCols, UpdateNeighbor, history
<1>6. CASE EndRows \/ EndCols \/ EndUpdate
  BY <1>6, QuietSteps DEF EndRows, EndCols, EndUpdate, Return, history
<1>7. CASE FlushStep
  BY <1>7, FlushCount
<1>8. CASE Close
  BY <1>8, CloseCount
<1>9. CASE Open
  BY <1>9, OpenCount
<1>10. CASE Crash
  BY <1>10, CrashCount
<1>11. CASE UNCHANGED vars
  <2>1. UNCHANGED <<bought, visitMatrix_, visitFreqDB_, disk, pc, oldItems, newItems, crashed>>
    BY <1>11 DEF vars, counts, update, history
  <2>2. \A i, j \in Item : /\ Count(i, j)' = Count(i, j)
                            /\ Lag(i, j)' = Lag(i, j) /\ FreqLag(j)' = FreqLag(j)
    BY <2>1, SameCount DEF Lag, FreqLag
  <2> QED BY <2>1, <2>2 DEF CountInv, ExactInv, BoundInv
<1> QED
  BY <1>1, <1>2, <1>3, <1>4, <1>5, <1>6, <1>7, <1>8, <1>9, <1>10, <1>11 DEF Next

LEMMA CountInvHolds == Spec => []CountInv
<1>1. Init => CountInv
  BY InitType, InitCount DEF CountInv
<1> QED BY <1>1, NextCount, PTL DEF Spec

LEMMA CountsFollow == CountInv => CountsUsers
<1> SUFFICES ASSUME CountInv, ~crashed, pc \notin {"down", "visit"},
                    NEW i \in Item, NEW j \in Item
             PROVE  /\ i \in Mine => visitMatrix_[i][j] = Count(i, j)
                    /\ pc # "freq" => visitFreqDB_[j] = Count(j, j)
  BY DEF CountsUsers
<1>1. Lag(i, j) = 0 /\ (pc # "freq" => FreqLag(j) = 0)
  BY DEF Lag, FreqLag
<1>2. visitMatrix_[i][j] \in Nat /\ visitFreqDB_[j] \in Nat
  BY DEF CountInv, TypeOK, Matrix
<1> QED BY <1>1, <1>2 DEF CountInv, ExactInv

(* As long as the stores were closed in order, the visit matrix and the    *)
(* frequencies are the numbers of users who bought the items.              *)
THEOREM CountsAreThoseOfUsers == Spec => []CountsUsers
  BY CountsFollow, CountInvHolds, PTL

(* Over any crashes no purchase is counted twice or made up. *)
THEOREM NoCountIsMadeUp == Spec => []NothingIsMadeUp
<1>1. CountInv => NothingIsMadeUp
  <2> SUFFICES ASSUME CountInv, NEW i \in Item, NEW j \in Item
               PROVE  /\ visitMatrix_[i][j] <= Count(i, j) /\ disk.visit[i][j] <= Count(i, j)
                      /\ visitFreqDB_[j] <= Count(j, j) /\ disk.freq[j] <= Count(j, j)
    BY DEF NothingIsMadeUp
  <2>1. Lag(i, j) \in Nat /\ FreqLag(j) \in Nat
    BY DEF Lag, FreqLag
  <2>2. visitMatrix_[i][j] \in Nat /\ visitFreqDB_[j] \in Nat
    BY DEF CountInv, TypeOK, Matrix
  <2>3. Count(i, j) \in Nat /\ Count(j, j) \in Nat
    BY CountType DEF CountInv
  <2> QED BY <2>1, <2>2, <2>3 DEF CountInv, BoundInv
<1> QED BY <1>1, CountInvHolds, PTL

-----------------------------------------------------------------------------
(* The neighbours of a row as a function of what they depend on.           *)
TopsOf(row, k) ==
  {{[item |-> j, sim |-> row[j]] : j \in S} :
     S \in {S \in SUBSET ColsOf(row) :
              /\ Cardinality(S) <= k
              /\ \A s \in S, t \in ColsOf(row) \ S : ~Less(row[s], row[t])
              /\ S # ColsOf(row) => Cardinality(S) = k}}

LEMMA NeighborsAreTops == \A row : NeighborsOf(row) = TopsOf(row, topK_)
  BY DEF NeighborsOf, Tops, TopsOf

(* The neighbours are those of the rows, but for the rows an update has    *)
(* still to do, and what is not dirty is on disk.                          *)
RowDone(i) == neighbors_[i] \in TopsOf(simMatrix_[i], topK_)
RowSaved(i) == disk.neighbors[i] \in TopsOf(disk.sim[i], topK_)
OnDisk(i) == disk.neighbors[i] = neighbors_[i]

UpInv ==
  /\ \A i \in Item \ updatedRows : RowDone(i)
  /\ \A i \in Item \ dirty_flags_ : OnDisk(i)

NothingLeft ==
  \/ pc \notin {"rows", "cols", "neighbors"}
  \/ pc = "rows" /\ call = "buildSimMatrix"
  => updatedRows = {}

TopInv ==
  /\ ~crashed /\ pc = "down" => dirty_flags_ = {} /\ \A i \in Item : RowSaved(i)
  /\ ~crashed /\ pc # "down" => UpInv
  /\ NothingLeft

LEMMA InitTop ==
  ASSUME TopKs \subseteq Nat, Init
  PROVE  TopInv
<1>1. ASSUME NEW i \in Item
      PROVE  {} \in TopsOf(NoSims[i], topK_)
  <2>1. ColsOf(NoSims[i]) = {}
    BY DEF NoSims, ColsOf
  <2>2. Cardinality({}) <= topK_
    BY FS_EmptySet DEF Init
  <2>3. {} = {[item |-> j, sim |-> NoSims[i][j]] : j \in {}}
    OBVIOUS
  <2> QED BY <2>1, <2>2, <2>3 DEF TopsOf
<1>2. \A i \in Item : RowSaved(i)
  BY <1>1 DEF Init, RowSaved, Empty
<1> QED BY <1>2 DEF Init, TopInv, NothingLeft

(* Steps that leave rows and neighbours alone. *)
LEMMA TopFrame ==
  ASSUME TopInv, UNCHANGED <<topK_, simMatrix_, neighbors, disk, updatedRows, crashed>>,
         pc # "down", pc' # "down", NothingLeft'
  PROVE  TopInv'
  BY DEF TopInv, UpInv, RowDone, OnDisk, neighbors

LEMMA SimRowTop ==
  ASSUME TypeOK, TopInv, NEW i \in Item, UpdateSimRow(i)
  PROVE  TopInv'
<1>1. /\ pc = "rows" /\ pc' = pc /\ call' = call /\ crashed' = crashed
      /\ topK_' = topK_ /\ disk' = disk
      /\ updatedRows' = updatedRows \cup Symmetric(SimRow(i))
      /\ dirty_flags_' = dirty_flags_ \cup {i}
  BY DEF UpdateSimRow, history
<1>2. \A r \in Item \ Symmetric(SimRow(i)) :
        simMatrix_'[r] = IF r = i THEN SimRow(i) ELSE simMatrix_[r]
  BY DEF UpdateSimRow
<1>3. simMatrix_'[i] = SimRow(i)
  BY DEF UpdateSimRow
<1>4. neighbors_'[i] \in TopsOf(SimRow(i), topK_)
  BY NeighborsAreTops DEF UpdateSimRow, TypeOK, Neighbors
<1>5. \A r \in Item \ {i} : neighbors_'[r] = neighbors_[r]
  BY DEF UpdateSimRow, TypeOK, Neighbors
<1>6. NothingLeft'
  BY <1>1 DEF NothingLeft, TopInv, Symmetric
<1>7. ~crashed => \A r \in Item \ updatedRows' : RowDone(r)'
  BY <1>1, <1>2, <1>3, <1>4, <1>5 DEF TopInv, UpInv, RowDone
<1>8. ~crashed => \A r \in Item \ dirty_flags_' : OnDisk(r)'
  BY <1>1, <1>5 DEF TopInv, UpInv, OnDisk
<1> QED BY <1>1, <1>6, <1>7, <1>8 DEF TopInv, UpInv

LEMMA SimRowColsTop ==
  ASSUME TypeOK, TopInv, NEW i \in Item, UpdateSimRowCols(i)
  PROVE  TopInv'
<1>1. /\ pc = "cols" /\ pc' = pc /\ call' = call /\ crashed' = crashed
      /\ topK_' = topK_ /\ disk' = disk /\ i \in rows
      /\ updatedRows' = updatedRows \cup {i}
      /\ dirty_flags_' = dirty_flags_ /\ neighbors_' = neighbors_
  BY DEF UpdateSimRowCols, history, neighbors
<1>2. \A r \in Item \ {i} : simMatrix_'[r] = simMatrix_[r]
  BY DEF UpdateSimRowCols, TypeOK
<1>3. ~crashed => \A r \in Item \ updatedRows' : RowDone(r)'
  BY <1>1, <1>2 DEF TopInv, UpInv, RowDone
<1>4. ~crashed => \A r \in Item \ dirty_flags_' : OnDisk(r)'
  BY <1>1 DEF TopInv, UpInv, OnDisk
<1>5. NothingLeft'
  BY <1>1 DEF NothingLeft
<1> QED BY <1>1, <1>3, <1>4, <1>5 DEF TopInv, UpInv

LEMMA UpdateNeighborTop ==
  ASSUME TypeOK, TopInv, NEW i \in Item, UpdateNeighbor(i)
  PROVE  TopInv'
<1>1. /\ pc = "neighbors" /\ pc' = pc /\ crashed' = crashed
      /\ topK_' = topK_ /\ disk' = disk /\ simMatrix_' = simMatrix_
      /\ updatedRows' = updatedRows \ {i}
      /\ dirty_flags_' = dirty_flags_ \cup {i}
  BY DEF UpdateNeighbor, history
<1>2. neighbors_'[i] \in TopsOf(simMatrix_[i], topK_)
  BY NeighborsAreTops DEF UpdateNeighbor, TypeOK, Neighbors
<1>3. \A r \in Item \ {i} : neighbors_'[r] = neighbors_[r]
  BY DEF UpdateNeighbor, TypeOK, Neighbors
<1>4. ~crashed => \A r \in Item \ updatedRows' : RowDone(r)'
  BY <1>1, <1>2, <1>3 DEF TopInv, UpInv, RowDone
<1>5. ~crashed => \A r \in Item \ dirty_flags_' : OnDisk(r)'
  BY <1>1, <1>3 DEF TopInv, UpInv, OnDisk
<1>6. NothingLeft'
  BY <1>1 DEF NothingLeft
<1> QED BY <1>1, <1>4, <1>5, <1>6 DEF TopInv, UpInv

LEMMA FlushTop ==
  ASSUME TypeOK, TopInv, FlushStep
  PROVE  TopInv'
<1>1. /\ pc \in {"idle", "flush_sim", "flush_neighbors", "flush_freq"}
      /\ pc' \in {"idle", "flush_sim", "flush_neighbors", "flush_freq"}
      /\ crashed' = crashed /\ topK_' = topK_ /\ simMatrix_' = simMatrix_
      /\ neighbors_' = neighbors_ /\ updatedRows' = updatedRows
  BY DEF FlushStep, Flush, history, update
<1>2. CASE pc = "flush_neighbors"
  <2>1. disk'.neighbors = FlushedNeighbors /\ dirty_flags_' = {}
    BY <1>2 DEF FlushStep, Flush, TypeOK
  <2>2. ~crashed => \A r \in Item : OnDisk(r)'
    BY <1>1, <2>1 DEF FlushedNeighbors, TopInv, UpInv, OnDisk
  <2>3. ~crashed => \A r \in Item \ updatedRows' : RowDone(r)'
    BY <1>1 DEF TopInv, UpInv, RowDone
  <2> QED BY <1>1, <2>2, <2>3 DEF TopInv, UpInv, NothingLeft
<1>3. CASE pc # "flush_neighbors"
  <2>1. disk'.neighbors = disk.neighbors /\ dirty_flags_' = dirty_flags_
    BY <1>3 DEF FlushStep, Flush, TypeOK
  <2>2. ~crashed => \A r \in Item \ dirty_flags_' : OnDisk(r)'
    BY <1>1, <2>1 DEF TopInv, UpInv, OnDisk
  <2>3. ~crashed => \A r \in Item \ updatedRows' : RowDone(r)'
    BY <1>1 DEF TopInv, UpInv, RowDone
  <2> QED BY <1>1, <2>2, <2>3 DEF TopInv, UpInv, NothingLeft
<1> QED BY <1>2, <1>3

LEMMA CloseTop ==
  ASSUME TypeOK, TopInv, Close
  PROVE  TopInv'
<1>1. /\ pc = "idle" /\ pc' = "down" /\ crashed' = crashed /\ topK_' = topK_
      /\ disk'.sim = simMatrix_ /\ disk'.neighbors = FlushedNeighbors
      /\ dirty_flags_' = {} /\ updatedRows' = {}
  BY DEF Close, Forget, history
<1>2. ASSUME ~crashed, NEW r \in Item
      PROVE  RowSaved(r)'
  <2>1. FlushedNeighbors[r] = neighbors_[r]
    BY <1>1, <1>2 DEF FlushedNeighbors, TopInv, UpInv, OnDisk
  <2>2. RowDone(r)
    BY <1>1, <1>2 DEF TopInv, UpInv, NothingLeft
  <2> QED BY <1>1, <2>1, <2>2 DEF RowDone, RowSaved
<1> QED BY <1>1, <1>2 DEF TopInv, NothingLeft

LEMMA OpenTop ==
  ASSUME TypeOK, TopInv, Open
  PROVE  TopInv'
<1>1. /\ pc = "down" /\ pc' = "idle" /\ crashed' = crashed /\ topK_' = topK_
      /\ simMatrix_' = disk.sim /\ neighbors_' = disk.neighbors /\ disk' = disk
      /\ dirty_flags_' = dirty_flags_ /\ updatedRows' = updatedRows
  BY DEF Open, history, update
<1> QED BY <1>1 DEF TopInv, UpInv, NothingLeft, RowDone, RowSaved, OnDisk

LEMMA NextTop == TypeOK /\ TopInv /\ [Next]_vars => TopInv'
<1> SUFFICES ASSUME TypeOK, TopInv, [Next]_vars PROVE TopInv'
  OBVIOUS
<1>1. ASSUME NEW u \in User, NEW items \in SUBSET Item,
             NEW function \in {"updateMatrix", "updateVisitMatrix"},
             Purchase(u, items, function)
      PROVE  TopInv'
  <2>1. NothingLeft'
    BY <1>1 DEF Purchase, TopInv, NothingLeft
  <2> QED BY <1>1, <2>1, TopFrame DEF Purchase, history
<1>2. CASE UpdateVisitMatrix
  <2>1. NothingLeft'
    BY <1>2 DEF UpdateVisitMatrix, update, TopInv, NothingLeft
  <2> QED BY <1>2, <2>1, TopFrame DEF UpdateVisitMatrix, update, history
<1>3. CASE UpdateVisitFreq
  <2>1. NothingLeft'
    BY <1>3 DEF UpdateVisitFreq, Return, TopInv, NothingLeft
  <2> QED BY <1>3, <2>1, TopFrame DEF UpdateVisitFreq, Return
<1>4. CASE BuildSimMatrix
  <2>1. NothingLeft'
    BY <1>4 DEF BuildSimMatrix, TopInv, NothingLeft
  <2> QED BY <1>4, <2>1, TopFrame DEF BuildSimMatrix, history
<1>5. ASSUME NEW i \in Item, UpdateSimRow(i) \/ UpdateSimRowCols(i) \/ UpdateNeighbor(i)
      PROVE  TopInv'
  BY <1>5, SimRowTop, SimRowColsTop, UpdateNeighborTop
<1>6. CASE EndRows
  <2>1. NothingLeft'
    BY <1>6 DEF EndRows, Return, TopInv, NothingLeft
  <2> QED BY <1>6, <2>1, TopFrame DEF EndRows, Return
<1>7. CASE EndCols
  <2>1. NothingLeft'
    BY <1>7 DEF EndCols, NothingLeft
  <2> QED BY <1>7, <2>1, TopFrame DEF EndCols, update, history
<1>8. CASE EndUpdate
  <2>1. NothingLeft'
    BY <1>8 DEF EndUpdate, Return, NothingLeft
  <2> QED BY <1>8, <2>1, TopFrame DEF EndUpdate, Return, history
<1>9. CASE FlushStep
  BY <1>9, FlushTop
<1>10. CASE Close
  BY <1>10, CloseTop
<1>11. CASE Open
  BY <1>11, OpenTop
<1>12. CASE Crash
  BY <1>12 DEF Crash, Forget, TopInv, NothingLeft
<1>13. CASE UNCHANGED vars
  <2>1. UNCHANGED <<topK_, simMatrix_, neighbors_, dirty_flags_, disk, updatedRows, crashed,
                    pc, call>>
    BY <1>13 DEF vars, neighbors, update, history
  <2> QED BY <2>1 DEF TopInv, UpInv, NothingLeft, RowDone, RowSaved, OnDisk
<1> QED
  BY <1>1, <1>2, <1>3, <1>4, <1>5, <1>6, <1>7, <1>8, <1>9, <1>10, <1>11, <1>12, <1>13 DEF Next

(* Between the calls, and over restarts, the neighbours of an item are the *)
(* most similar ones of its row, in updated rows and in all others.        *)
THEOREM NeighborsStayTop == ASSUME TopKs \subseteq Nat PROVE Spec => []NeighborsAreTop
<1>1. Init => TypeOK /\ TopInv
  BY InitType, InitTop
<1>2. TypeOK /\ TopInv /\ [Next]_vars => (TypeOK /\ TopInv)'
  BY NextType, NextTop
<1>3. TypeOK /\ TopInv => NeighborsAreTop
  BY NeighborsAreTops, MineAssumption
     DEF TopInv, UpInv, NothingLeft, RowDone, NeighborsAreTop
<1> QED BY <1>1, <1>2, <1>3, PTL DEF Spec

-----------------------------------------------------------------------------
(* The similarity that counts stand for, and the claim on the rows: where  *)
(* nothing is counted there is no similarity; a rebuild has done the rows  *)
(* it is past; without a sharder the rows are current between the updates, *)
(* and during one but for the rows to do and their columns.                *)
SimIn(visit, freq, i, j) ==
  IF j # i /\ visit[i][j] # 0 THEN Sim(visit[i][j], visit[i][i], freq[j]) ELSE NoSim

Current(i, j) == simMatrix_[i][j] = SimIn(visitMatrix_, visitFreqDB_, i, j)

NullInv ==
  \A i, j \in Item :
    /\ pc # "down" /\ visitMatrix_[i][j] = 0 => simMatrix_[i][j] = NoSim
    /\ pc = "down" /\ disk.visit[i][j] = 0 => disk.sim[i][j] = NoSim

RebuildInv ==
  pc = "rows" /\ call = "buildSimMatrix" =>
    \A i \in Item \ rows, j \in Item : Current(i, j)

PendingInv ==
  \A i, j \in Item :
    CASE pc = "down" -> disk.sim[i][j] = SimIn(disk.visit, disk.freq, i, j)
      [] pc = "freq" -> i \notin newItems /\ j \notin newItems => Current(i, j)
      [] pc = "rows" /\ call = "updateMatrix" ->
           i \notin rows /\ (i \in newItems \/ j \notin rows) => Current(i, j)
      [] pc = "rows" /\ call # "updateMatrix" -> TRUE
      [] OTHER -> Current(i, j)

RowsInv ==
  /\ ~crashed => NullInv /\ RebuildInv
  /\ ~crashed /\ ~Sharded /\ ~behind => PendingInv
  /\ pc = "rows" => rows \subseteq Item
  /\ pc = "rows" /\ call = "updateMatrix" => rows \subseteq newItems
  /\ pc = "cols" => Sharded

LEMMA SimRowIs ==
  ASSUME NEW i \in Item, NEW j \in Item
  PROVE  SimRow(i)[j] = SimIn(visitMatrix_, visitFreqDB_, i, j)
  BY DEF SimRow, SimIn

LEMMA InitRows == Init => RowsInv
<1> SUFFICES ASSUME Init PROVE RowsInv
  OBVIOUS
<1>1. \A i, j \in Item : disk.sim[i][j] = NoSim /\ disk.visit[i][j] = 0
  BY DEF Init, NoSims, ZeroMatrix, Zeros
<1> QED BY <1>1 DEF Init, RowsInv, NullInv, RebuildInv, PendingInv, SimIn

(* Steps that leave the counts and the rows alone and are not about them.  *)
LEMMA RowsFrame ==
  ASSUME RowsInv, UNCHANGED <<counts, simMatrix_, history>>,
         pc \notin {"down", "freq", "rows"}, pc' \notin {"down", "freq", "rows"},
         pc' = "cols" => Sharded
  PROVE  RowsInv'
  BY DEF RowsInv, NullInv, RebuildInv, PendingInv, Current, counts, history

(* Visiting raises counts, of pairs with a new item only. *)
LEMMA VisitRows ==
  ASSUME TypeOK, RowsInv, UpdateVisitMatrix
  PROVE  RowsInv'
<1>1. /\ pc = "visit" /\ pc' = "freq" /\ simMatrix_' = simMatrix_
      /\ visitFreqDB_' = visitFreqDB_ /\ newItems' = newItems
      /\ behind' = behind /\ crashed' = crashed
  BY DEF UpdateVisitMatrix, update, history
<1>2. \A i, j \in Item :
        visitMatrix_'[i][j] = IF i \in Mine /\ Pair(i, j, oldItems, newItems)
                              THEN visitMatrix_[i][j] + 1 ELSE visitMatrix_[i][j]
  BY VisitedAt DEF UpdateVisitMatrix, TypeOK
<1>3. \A i, j \in Item : visitMatrix_[i][j] \in Nat
  BY DEF TypeOK, Matrix
<1>4. ~crashed => NullInv'
  BY <1>1, <1>2, <1>3 DEF RowsInv, NullInv
<1>5. ASSUME ~crashed, ~Sharded, ~behind, NEW i \in Item, NEW j \in Item,
             i \notin newItems, j \notin newItems
      PROVE  Current(i, j)'
  <2>1. visitMatrix_'[i][j] = visitMatrix_[i][j] /\ visitMatrix_'[i][i] = visitMatrix_[i][i]
    BY <1>2, <1>5 DEF Pair
  <2>2. Current(i, j)
    BY <1>1, <1>5 DEF RowsInv, PendingInv
  <2> QED BY <1>1, <2>1, <2>2 DEF Current, SimIn
<1> QED BY <1>1, <1>4, <1>5 DEF RowsInv, RebuildInv, PendingInv

LEMMA FreqRows ==
  ASSUME TypeOK, RowsInv, UpdateVisitFreq
  PROVE  RowsInv'
<1>1. /\ pc = "freq" /\ simMatrix_' = simMatrix_ /\ visitMatrix_' = visitMatrix_
      /\ crashed' = crashed
      /\ \A j \in Item \ newItems : visitFreqDB_'[j] = visitFreqDB_[j]
  BY DEF UpdateVisitFreq, TypeOK
<1>2. ~crashed => NullInv'
  BY <1>1 DEF RowsInv, NullInv, UpdateVisitFreq, Return
<1>3. CASE call = "updateVisitMatrix"
  BY <1>2, <1>3 DEF UpdateVisitFreq, Return, RowsInv, RebuildInv
<1>4. CASE call = "updateMatrix"
  <2>1. /\ pc' = "rows" /\ call' = "updateMatrix" /\ rows' = newItems \cap Mine
        /\ newItems' = newItems /\ behind' = behind
    BY <1>4 DEF UpdateVisitFreq
  <2>2. ASSUME ~crashed, ~Sharded, ~behind, NEW i \in Item, NEW j \in Item,
               i \notin rows', i \in newItems \/ j \notin rows'
        PROVE  Current(i, j)'
    <3>1. i \notin newItems /\ j \notin newItems
      BY <2>1, <2>2, MineAssumption
    <3>2. Current(i, j)
      BY <1>1, <2>2, <3>1 DEF RowsInv, PendingInv
    <3> QED BY <1>1, <3>1, <3>2 DEF Current, SimIn
  <2> QED BY <1>1, <1>2, <2>1, <2>2 DEF RowsInv, RebuildInv, PendingInv, TypeOK
<1> QED BY <1>3, <1>4 DEF UpdateVisitFreq

LEMMA BuildRows ==
  ASSUME RowsInv, BuildSimMatrix
  PROVE  RowsInv'
<1>1. /\ pc = "idle" /\ pc' = "rows" /\ call' = "buildSimMatrix"
      /\ rows' = {i \in Item : \E j \in Item : visitMatrix_[i][j] # 0}
      /\ UNCHANGED <<visitMatrix_, visitFreqDB_, simMatrix_, behind, crashed>>
  BY DEF BuildSimMatrix, counts, history
<1>2. ~crashed => RebuildInv'
  BY <1>1 DEF RowsInv, NullInv, RebuildInv, Current, SimIn
<1> QED BY <1>1, <1>2 DEF RowsInv, NullInv, PendingInv

(* Without a sharder the counts are symmetric, so a similarity and its     *)
(* mirror image are the same.                                              *)
LEMMA CountIsSymmetric == \A i, j : Count(i, j) = Count(j, i)
<1> TAKE i, j
<1>1. {i, j} = {j, i}
  OBVIOUS
<1> QED BY <1>1 DEF Count, Buyers

LEMMA SimIsSymmetric ==
  ASSUME CountInv, ~crashed, ~Sharded, pc = "rows", NEW i \in Item, NEW j \in Item
  PROVE  /\ SimIn(visitMatrix_, visitFreqDB_, i, j) = SimIn(visitMatrix_, visitFreqDB_, j, i)
         /\ visitMatrix_[i][j] = visitMatrix_[j][i]
<1>1. \A k, l \in Item : visitMatrix_[k][l] = Count(k, l) /\ visitFreqDB_[l] = Count(l, l)
  BY CountsFollow, MineAssumption DEF CountsUsers
<1>2. Count(i, i) \in Nat /\ Count(j, j) \in Nat
  BY CountType DEF CountInv
<1>3. Count(i, i) * Count(j, j) = Count(j, j) * Count(i, i)
  BY <1>2
<1>4. visitMatrix_[i][j] = visitMatrix_[j][i]
  BY <1>1, CountIsSymmetric
<1>5. Sim(visitMatrix_[i][j], visitMatrix_[i][i], visitFreqDB_[j])
        = Sim(visitMatrix_[j][i], visitMatrix_[j][j], visitFreqDB_[i])
  BY <1>1, <1>3, <1>4 DEF Sim
<1> QED BY <1>4, <1>5 DEF SimIn

LEMMA SimRowRows ==
  ASSUME CountInv, RowsInv, NEW i \in Item, UpdateSimRow(i)
  PROVE  RowsInv'
<1> DEFINE row == SimRow(i)
           symmetric == Symmetric(row)
           S(k, l) == SimIn(visitMatrix_, visitFreqDB_, k, l)
<1>1. /\ pc = "rows" /\ pc' = pc /\ call' = call /\ crashed' = crashed /\ behind' = behind
      /\ visitMatrix_' = visitMatrix_ /\ visitFreqDB_' = visitFreqDB_
      /\ newItems' = newItems /\ i \in rows /\ rows' = rows \ {i}
  BY DEF UpdateSimRow, history, counts
<1>2. \A j \in Item : row[j] = S(i, j)
  BY SimRowIs
<1>3. symmetric \subseteq {r \in Item : row[r] # NoSim /\ r # i /\ ~Sharded}
  BY DEF Symmetric, ColsOf, SimRow
<1>4. \A r, j \in Item :
        simMatrix_'[r][j] = IF r = i THEN row[j]
                            ELSE IF r \in symmetric /\ j = i THEN row[r]
                            ELSE simMatrix_[r][j]
  <2>1. \A r \in Item : simMatrix_[r] \in [Item -> Similarity]
    BY DEF CountInv, TypeOK
  <2>2. \A r \in Item :
          simMatrix_'[r] = IF r = i THEN row
                           ELSE IF r \in symmetric THEN [simMatrix_[r] EXCEPT ![i] = row[r]]
                           ELSE simMatrix_[r]
    BY DEF UpdateSimRow
  <2> QED BY <2>1, <2>2
<1>5. ASSUME ~crashed, NEW r \in symmetric
      PROVE  row[r] = S(r, i) /\ visitMatrix_[r][i] # 0
  <2>1. ~Sharded /\ r \in Item /\ row[r] # NoSim
    BY <1>3
  <2>2. S(i, r) = S(r, i) /\ visitMatrix_[r][i] = visitMatrix_[i][r]
    BY <1>1, <1>5, <2>1, SimIsSymmetric
  <2> QED BY <1>2, <2>1, <2>2 DEF SimIn
<1>6. ~crashed => NullInv'
  <2> SUFFICES ASSUME ~crashed, NEW r \in Item, NEW j \in Item, visitMatrix_[r][j] = 0
               PROVE  simMatrix_'[r][j] = NoSim
    BY <1>1 DEF NullInv
  <2>1. simMatrix_[r][j] = NoSim
    BY <1>1 DEF RowsInv, NullInv
  <2>2. S(r, j) = NoSim
    BY DEF SimIn
  <2> QED BY <1>2, <1>4, <1>5, <2>1, <2>2
<1>7. ~crashed => RebuildInv'
  <2> SUFFICES ASSUME ~crashed, call = "buildSimMatrix",
                      NEW r \in Item \ rows', NEW j \in Item
               PROVE  Current(r, j)'
    BY <1>1 DEF RebuildInv
  <2>1. symmetric = {}
    BY DEF Symmetric
  <2>2. CASE r = i
    BY <1>1, <1>2, <1>4, <2>2 DEF Current
  <2>3. CASE r # i
    BY <1>1, <1>4, <2>1, <2>3 DEF RowsInv, RebuildInv, Current
  <2> QED BY <2>2, <2>3
<1>8. ~crashed /\ ~Sharded /\ ~behind => PendingInv'
  <2> SUFFICES ASSUME ~crashed, ~Sharded, ~behind, call = "updateMatrix",
                      NEW r \in Item, NEW j \in Item,
                      r \notin rows', r \in newItems \/ j \notin rows'
               PROVE  Current(r, j)'
    BY <1>1 DEF PendingInv
  <2>1. CASE r = i
    BY <1>1, <1>2, <1>4, <2>1 DEF Current
  <2>2. CASE r # i /\ (r \in newItems \/ j # i)
    <3>1. Current(r, j)
      BY <1>1, <2>2 DEF RowsInv, PendingInv
    <3> QED BY <1>1, <1>4, <1>5, <2>2, <3>1 DEF Current
  <2>3. CASE r \notin newItems /\ j = i
    <3>1. CASE r \in symmetric
      BY <1>1, <1>3, <1>4, <1>5, <2>3, <3>1 DEF Current
    <3>2. CASE r \notin symmetric
      <4>1. row[r] = NoSim
        BY <2>3, <3>2 DEF Symmetric, ColsOf
      <4>2. r # i
        BY <1>1, <2>3 DEF RowsInv
      <4>3. visitMatrix_[i][r] = 0
        <5>1. r \in Item
          OBVIOUS
        <5>2. ASSUME visitMatrix_[i][r] # 0
              PROVE  row[r].ij = visitMatrix_[i][r]
          <6>1. row[r] = Sim(visitMatrix_[i][r], visitMatrix_[i][i], visitFreqDB_[r])
            BY <1>2, <4>2, <5>1, <5>2 DEF SimIn
          <6> QED BY <6>1 DEF Sim
        <5> QED BY <4>1, <5>2 DEF NoSim
      <4>4. visitMatrix_[r][i] = 0
        BY <1>1, <4>3, SimIsSymmetric
      <4>5. simMatrix_[r][i] = NoSim /\ S(r, i) = NoSim
        BY <1>1, <4>4 DEF RowsInv, NullInv, SimIn
      <4> QED BY <1>1, <1>4, <2>3, <3>2, <4>2, <4>5 DEF Current
    <3> QED BY <3>1, <3>2
  <2> QED BY <2>1, <2>2, <2>3
<1> QED BY <1>1, <1>6, <1>7, <1>8 DEF RowsInv

LEMMA SimRowColsRows ==
  ASSUME CountInv, RowsInv, NEW i \in Item, UpdateSimRowCols(i)
  PROVE  RowsInv'
<1>1. /\ pc = "cols" /\ pc' = pc /\ crashed' = crashed
      /\ visitMatrix_' = visitMatrix_ /\ visitFreqDB_' = visitFreqDB_
  BY DEF UpdateSimRowCols, history, counts
<1>2. \A r, j \in Item :
        simMatrix_'[r][j] = IF r = i /\ j \in newItems /\ j # i
                            THEN SimIn(visitMatrix_, visitFreqDB_, i, j) ELSE simMatrix_[r][j]
  BY SimRowIs DEF UpdateSimRowCols, CountInv, TypeOK
<1>3. ~crashed => NullInv'
  BY <1>1, <1>2 DEF RowsInv, NullInv, SimIn
<1> QED BY <1>1, <1>3 DEF RowsInv, RebuildInv

LEMMA EndRowsRows ==
  ASSUME RowsInv, EndRows
  PROVE  RowsInv'
<1>1. /\ pc = "rows" /\ rows = {} /\ crashed' = crashed
      /\ visitMatrix_' = visitMatrix_ /\ visitFreqDB_' = visitFreqDB_
      /\ simMatrix_' = simMatrix_
  BY DEF EndRows, counts
<1>2. ~crashed => NullInv'
  BY <1>1 DEF RowsInv, NullInv, EndRows, Return
<1>3. CASE call = "buildSimMatrix"
  <2>1. ~crashed => \A i, j \in Item : Current(i, j)'
    BY <1>1, <1>3 DEF RowsInv, RebuildInv, Current
  <2>2. pc' = "idle"
    BY <1>3 DEF EndRows, Return
  <2> QED BY <1>1, <1>2, <2>1, <2>2 DEF RowsInv, RebuildInv, PendingInv
<1>4. CASE call = "updateMatrix"
  <2>1. pc' \in {"cols", "neighbors"} /\ (pc' = "cols" => Sharded) /\ behind' = behind
    BY <1>4 DEF EndRows
  <2>2. ~crashed /\ ~Sharded /\ ~behind => \A i, j \in Item : Current(i, j)'
    BY <1>1, <1>4 DEF RowsInv, PendingInv, Current
  <2> QED BY <1>1, <1>2, <2>1, <2>2 DEF RowsInv, RebuildInv, PendingInv
<1> QED BY <1>3, <1>4 DEF EndRows

LEMMA CloseRows ==
  ASSUME RowsInv, Close
  PROVE  RowsInv'
<1>1. /\ pc = "idle" /\ pc' = "down" /\ crashed' = crashed /\ behind' = behind
      /\ disk'.visit = visitMatrix_ /\ disk'.freq = visitFreqDB_ /\ disk'.sim = simMatrix_
  BY DEF Close, Forget, history
<1>2. ~crashed => NullInv'
  BY <1>1 DEF RowsInv, NullInv
<1>3. ~crashed /\ ~Sharded /\ ~behind => PendingInv'
  BY <1>1 DEF RowsInv, PendingInv, Current
<1> QED BY <1>1, <1>2, <1>3 DEF RowsInv, RebuildInv

LEMMA OpenRows ==
  ASSUME RowsInv, Open
  PROVE  RowsInv'
<1>1. /\ pc = "down" /\ pc' = "idle" /\ crashed' = crashed /\ behind' = behind
      /\ visitMatrix_' = disk.visit /\ visitFreqDB_' = disk.freq /\ simMatrix_' = disk.sim
  BY DEF Open, history
<1>2. ~crashed => NullInv'
  BY <1>1 DEF RowsInv, NullInv
<1>3. ~crashed /\ ~Sharded /\ ~behind => PendingInv'
  BY <1>1 DEF RowsInv, PendingInv, Current
<1> QED BY <1>1, <1>2, <1>3 DEF RowsInv, RebuildInv

LEMMA NextRows == CountInv /\ RowsInv /\ [Next]_vars => RowsInv'
<1> SUFFICES ASSUME CountInv, RowsInv, [Next]_vars PROVE RowsInv'
  OBVIOUS
<1>1. ASSUME NEW u \in User, NEW items \in SUBSET Item,
             NEW function \in {"updateMatrix", "updateVisitMatrix"},
             Purchase(u, items, function)
      PROVE  RowsInv'
  BY <1>1, RowsFrame DEF Purchase
<1>2. CASE UpdateVisitMatrix
  BY <1>2, VisitRows DEF CountInv
<1>3. CASE UpdateVisitFreq
  BY <1>3, FreqRows DEF CountInv
<1>4. CASE BuildSimMatrix
  BY <1>4, BuildRows
<1>5. ASSUME NEW i \in Item, UpdateSimRow(i) \/ UpdateSimRowCols(i)
      PROVE  RowsInv'
  BY <1>5, SimRowRows, SimRowColsRows
<1>6. ASSUME NEW i \in Item, UpdateNeighbor(i)
      PROVE  RowsInv'
  BY <1>6, RowsFrame DEF UpdateNeighbor
<1>7. CASE EndRows
  BY <1>7, EndRowsRows
<1>8. CASE EndCols \/ EndUpdate
  BY <1>8, RowsFrame DEF EndCols, EndUpdate, Return
<1>9. CASE FlushStep
  BY <1>9, RowsFrame DEF FlushStep, Flush
<1>10. CASE Close
  BY <1>10, CloseRows
<1>11. CASE Open
  BY <1>11, OpenRows
<1>12. CASE Crash
  BY <1>12 DEF Crash, Forget, RowsInv
<1>13. CASE UNCHANGED vars
  BY <1>13 DEF vars, counts, update, history, RowsInv, NullInv, RebuildInv, PendingInv, Current
<1> QED
  BY <1>1, <1>2, <1>3, <1>4, <1>5, <1>6, <1>7, <1>8, <1>9, <1>10, <1>11, <1>12, <1>13 DEF Next

LEMMA RowsInvHolds == Spec => [](CountInv /\ RowsInv)
<1>1. Init => CountInv /\ RowsInv
  BY InitType, InitCount, InitRows DEF CountInv
<1>2. CountInv /\ RowsInv /\ [Next]_vars => (CountInv /\ RowsInv)'
  BY NextCount, NextRows
<1> QED BY <1>1, <1>2, PTL DEF Spec

(* The products of frequencies that a word must hold.                      *)
NoProductWraps == \A m, n \in 0 .. Cardinality(User) : m * n < Modulus

LEMMA GoldIsCurrent ==
  ASSUME CountInv, NoProductWraps, ~crashed, pc \notin {"down", "visit", "freq"},
         NEW i \in Mine, NEW j \in Item
  PROVE  SimIn(visitMatrix_, visitFreqDB_, i, j)
           = IF i # j /\ Count(i, j) # 0 THEN Gold(i, j) ELSE NoSim
<1>1. i \in Item
  BY MineAssumption
<1>2. /\ visitMatrix_[i][j] = Count(i, j) /\ visitMatrix_[i][i] = Count(i, i)
      /\ visitFreqDB_[j] = Count(j, j)
  BY <1>1, CountsFollow DEF CountsUsers
<1>3. \A k \in Item : Count(k, k) \in 0 .. Cardinality(User)
  <2> TAKE k \in Item
  <2>1. Cardinality(Buyers(k, k)) <= Cardinality(User)
    BY UserAssumption, FS_Subset DEF Buyers
  <2>2. Cardinality(User) \in Nat
    BY UserAssumption, FS_CardinalityType
  <2> QED BY <2>1, <2>2, CountType DEF Count, CountInv
<1>4. Count(i, i) * Count(j, j) < Modulus /\ Count(i, i) * Count(j, j) \in Nat
  <2>1. Count(i, i) \in Nat /\ Count(j, j) \in Nat
    BY CountType DEF CountInv
  <2> QED BY <1>1, <1>3, <2>1 DEF NoProductWraps
<1>5. \A p \in Nat : p < Modulus => p % Modulus = p
  BY ModulusAssumption
<1>6. Sim(Count(i, j), Count(i, i), Count(j, j)) = Gold(i, j)
  BY <1>4, <1>5 DEF Sim, Gold
<1> QED BY <1>2, <1>6 DEF SimIn

LEMMA RowsAreCurrent ==
  ASSUME CountInv, RowsInv, NoProductWraps
  PROVE  SimIsCurrent
<1> SUFFICES ASSUME ~Sharded, Between, NEW i \in Item, NEW j \in Item
             PROVE  simMatrix_[i][j] = IF i # j /\ Count(i, j) # 0 THEN Gold(i, j) ELSE NoSim
  BY DEF SimIsCurrent
<1>1. Current(i, j)
  BY DEF Between, RowsInv, PendingInv
<1> QED BY <1>1, GoldIsCurrent, MineAssumption DEF Current, Between

(* Without a sharder every similarity is that of the purchases between the *)
(* updates, in all rows an update did not name as well.                    *)
THEOREM RowsStayCurrent == ASSUME NoProductWraps PROVE Spec => []SimIsCurrent
  BY RowsAreCurrent, RowsInvHolds, PTL

(* A rebuild leaves every row of the node as the purchases have it. *)
THEOREM RebuildsAreCurrent == ASSUME NoProductWraps PROVE Spec => RebuildIsCurrent
<1>1. CountInv /\ RowsInv /\ [Next]_vars =>
        [pc = "rows" /\ pc' = "idle" /\ ~crashed =>
           \A i \in Mine : \A j \in Item \ {i} :
             Count(i, j) # 0 => simMatrix_'[i][j] = Gold(i, j)]_vars
  <2> SUFFICES ASSUME CountInv, RowsInv, Next, pc = "rows", pc' = "idle", ~crashed,
                      NEW i \in Mine, NEW j \in Item \ {i}, Count(i, j) # 0
               PROVE  simMatrix_'[i][j] = Gold(i, j)
    OBVIOUS
  <2>1. EndRows /\ call = "buildSimMatrix"
    BY DEF Next, Purchase, UpdateVisitMatrix, UpdateVisitFreq, BuildSimMatrix, UpdateSimRow,
           UpdateSimRowCols, UpdateNeighbor, EndRows, EndCols, EndUpdate, FlushStep, Flush,
           Close, Open, Crash, Forget
  <2>2. i \in Item /\ rows = {} /\ simMatrix_' = simMatrix_
    BY <2>1, MineAssumption DEF EndRows
  <2>3. Current(i, j)
    BY <2>1, <2>2 DEF RowsInv, RebuildInv
  <2> QED BY <2>2, <2>3, GoldIsCurrent DEF Current
<1> QED BY <1>1, RowsInvHolds, PTL DEF Spec, RebuildIsCurrent

-----------------------------------------------------------------------------
(* Where there is room for all, the neighbours of an item are all items    *)
(* someone bought together with it.                                        *)
LEMMA AllAreNeighbors ==
  ASSUME CountInv, RowsInv, TopInv, NoProductWraps, TopKs \subseteq Nat, IsFiniteSet(Item),
         ~Sharded, Between, topK_ >= Cardinality(Item) - 1, NEW i \in Item
  PROVE  {n.item : n \in neighbors_[i]} = {j \in Item : j # i /\ Count(i, j) # 0}
<1> DEFINE row == simMatrix_[i]
<1>1. \A j \in Item : row[j] # NoSim <=> j # i /\ Count(i, j) # 0
  <2> TAKE j \in Item
  <2>1. row[j] = IF i # j /\ Count(i, j) # 0 THEN Gold(i, j) ELSE NoSim
    BY RowsAreCurrent DEF SimIsCurrent
  <2>2. Gold(i, j) = NoSim => Count(i, j) = 0
    BY DEF Gold, NoSim
  <2> QED BY <2>1, <2>2
<1>2. ColsOf(row) = {j \in Item : j # i /\ Count(i, j) # 0}
  BY <1>1 DEF ColsOf
<1>3. neighbors_[i] \in TopsOf(row, topK_)
  BY DEF TopInv, UpInv, NothingLeft, RowDone, Between
<1>4. PICK S \in SUBSET ColsOf(row) :
        /\ S # ColsOf(row) => Cardinality(S) = topK_
        /\ neighbors_[i] = {[item |-> j, sim |-> row[j]] : j \in S}
  BY <1>3 DEF TopsOf
<1>5. S = ColsOf(row)
  <2> SUFFICES ASSUME S # ColsOf(row) PROVE FALSE
    OBVIOUS
  <2>1. PICK j \in ColsOf(row) : j \notin S
    OBVIOUS
  <2>2. S \subseteq Item \ {i} /\ j \in Item \ {i}
    BY <1>2
  <2>3. IsFiniteSet(Item \ {i}) /\ Cardinality(Item \ {i}) = Cardinality(Item) - 1
    BY FS_RemoveElement
  <2>4. IsFiniteSet(S) /\ IsFiniteSet(S \cup {j})
    BY <2>2, <2>3, FS_Subset, FS_AddElement
  <2>5. Cardinality(S \cup {j}) = Cardinality(S) + 1
    BY <2>1, <2>4, FS_AddElement
  <2>6. Cardinality(S \cup {j}) <= Cardinality(Item \ {i})
    BY <2>2, <2>3, FS_Subset
  <2>7. topK_ \in Nat /\ Cardinality(Item) \in Nat
    BY FS_CardinalityType DEF CountInv, TypeOK
  <2>8. Cardinality(S) = topK_
    BY <1>4
  <2> QED BY <2>3, <2>5, <2>6, <2>7, <2>8
<1>6. {n.item : n \in neighbors_[i]} = S
  <2> DEFINE entry(j) == [item |-> j, sim |-> row[j]]
  <2>1. \A j : entry(j).item = j
    OBVIOUS
  <2> HIDE DEF entry, row
  <2>2. neighbors_[i] = {entry(j) : j \in S}
    BY <1>4 DEF entry
  <2>3. \A x : x \in S => x \in {n.item : n \in neighbors_[i]}
    BY <2>1, <2>2
  <2>4. \A x : x \in {n.item : n \in neighbors_[i]} => x \in S
    BY <2>1, <2>2
  <2> QED BY <2>3, <2>4
<1> QED BY <1>2, <1>5, <1>6

(* Where there is room for all neighbours, what is recommended is all that *)
(* someone bought together with an item visited.                           *)
THEOREM BoughtTogetherIsRecommended ==
  ASSUME NoProductWraps, TopKs \subseteq Nat, IsFiniteSet(Item)
  PROVE  Spec => []RecommendsBoughtTogether
<1>1. CountInv /\ RowsInv /\ TopInv => RecommendsBoughtTogether
  <2> SUFFICES ASSUME CountInv, RowsInv, TopInv, ~Sharded, Between,
                      topK_ >= Cardinality(Item) - 1, NEW visited \in SUBSET Item
               PROVE  Recommend(visited)
                        = {c \in Item \ visited : \E i \in visited : Count(c, i) # 0}
    BY DEF RecommendsBoughtTogether
  <2>1. ASSUME NEW i \in Item
        PROVE  {n.item : n \in neighbors_[i]} = {j \in Item : j # i /\ Count(i, j) # 0}
    BY AllAreNeighbors
  <2>2. visited \cap Mine = visited /\ Mine = Item
    BY MineAssumption
  <2>3. \A c \in Item : c \in CandidateSet(visited)
          <=> \E i \in visited : c # i /\ Count(i, c) # 0
    BY <2>1, <2>2 DEF CandidateSet
  <2>4. \A c \in Item : (\E n \in neighbors_[c] : n.item \in visited)
          <=> \E i \in visited : i # c /\ Count(c, i) # 0
    <3> TAKE c \in Item
    <3>1. (\E n \in neighbors_[c] : n.item \in visited)
            <=> \E i \in visited : i \in {n.item : n \in neighbors_[c]}
      OBVIOUS
    <3> QED BY <2>1, <3>1
  <2>5. \A c \in Item : c \in Recommend(visited)
          <=> c \notin visited /\ \E i \in visited : Count(c, i) # 0
    BY <2>2, <2>3, <2>4, CountIsSymmetric DEF Recommend
  <2>6. Recommend(visited) \subseteq Item
    BY <2>2 DEF Recommend
  <2> QED BY <2>5, <2>6
<1>2. Spec => []TopInv
  <2>1. Init => TypeOK /\ TopInv
    BY InitType, InitTop
  <2>2. TypeOK /\ TopInv /\ [Next]_vars => (TypeOK /\ TopInv)'
    BY NextType, NextTop
  <2> QED BY <2>1, <2>2, PTL DEF Spec
<1> QED BY <1>1, <1>2, RowsInvHolds, PTL

-----------------------------------------------------------------------------
(* With a sharder a similarity may be that of an earlier frequency of the  *)
(* other item, but not of one below the visits of the pair.  During an     *)
(* update that is so but for the rows of the new items still to do and the *)
(* columns of the new items in the rows of the old ones.                   *)
Fresh(sim, visit, freq, i, j) ==
  /\ sim.ij = visit[i][j]
  /\ visit[i][j] # 0 =>
       \E jj \in Nat : /\ visit[i][j] <= jj /\ jj <= freq[j]
                       /\ sim.prod = (visit[i][i] * jj) % Modulus

RowFresh(i, j) == Fresh(simMatrix_[i][j], visitMatrix_, visitFreqDB_, i, j)

FreshInv ==
  \A i \in Mine, j \in Item :
    i # j =>
      CASE pc = "down" -> Fresh(disk.sim[i][j], disk.visit, disk.freq, i, j)
        [] pc = "freq" -> i \notin newItems /\ (i \in oldItems => j \notin newItems) => RowFresh(i, j)
        [] pc = "rows" /\ call = "updateMatrix" ->
             i \notin rows /\ (i \in oldItems => j \notin newItems) => RowFresh(i, j)
        [] pc = "rows" /\ call # "updateMatrix" -> RowFresh(i, j)
        [] pc = "cols" -> (i \in rows => j \notin newItems) => RowFresh(i, j)
        [] OTHER -> RowFresh(i, j)

ShardInv == Sharded /\ ~crashed /\ ~behind => FreshInv

(* A similarity just computed is fresh: nobody buys both more often than   *)
(* one of them.                                                            *)
LEMMA PairsAreBuyers ==
  ASSUME TypeOK, NEW i, NEW j
  PROVE  Count(i, j) <= Count(j, j)
<1>1. Buyers(i, j) \subseteq Buyers(j, j) /\ IsFiniteSet(Buyers(j, j))
  BY UserAssumption, FS_Subset DEF Buyers
<1> QED BY <1>1, FS_Subset DEF Count

LEMMA ComputedIsFresh ==
  ASSUME CountInv, ~crashed, pc \in {"rows", "cols"},
         NEW i \in Mine, NEW j \in Item, i # j
  PROVE  Fresh(SimRow(i)[j], visitMatrix_, visitFreqDB_, i, j)
<1>1. i \in Item
  BY MineAssumption
<1>2. visitMatrix_[i][j] = Count(i, j) /\ visitFreqDB_[j] = Count(j, j)
  BY <1>1, CountsFollow DEF CountsUsers
<1>3. Count(i, j) <= Count(j, j) /\ Count(j, j) \in Nat
  BY PairsAreBuyers, CountType DEF CountInv
<1>4. CASE visitMatrix_[i][j] # 0
  <2>1. SimRow(i)[j] = Sim(visitMatrix_[i][j], visitMatrix_[i][i], visitFreqDB_[j])
    BY <1>1, <1>4 DEF SimRow
  <2>2. /\ SimRow(i)[j].ij = visitMatrix_[i][j]
        /\ SimRow(i)[j].prod = (visitMatrix_[i][i] * visitFreqDB_[j]) % Modulus
    BY <2>1 DEF Sim
  <2> QED BY <1>2, <1>3, <2>2 DEF Fresh
<1>5. CASE visitMatrix_[i][j] = 0
  <2>1. SimRow(i)[j] = NoSim
    BY <1>1, <1>5 DEF SimRow
  <2> QED BY <1>5, <2>1 DEF Fresh, NoSim
<1> QED BY <1>4, <1>5

LEMMA InitShard == Init => ShardInv
<1> SUFFICES ASSUME Init PROVE FreshInv
  BY DEF ShardInv
<1>1. \A i \in Mine, j \in Item : disk.sim[i][j] = NoSim /\ disk.visit[i][j] = 0
  BY MineAssumption DEF Init, NoSims, ZeroMatrix, Zeros
<1>2. \A i \in Mine, j \in Item : Fresh(disk.sim[i][j], disk.visit, disk.freq, i, j)
  BY <1>1 DEF Fresh, NoSim
<1> QED BY <1>2 DEF Init, FreshInv

LEMMA ShardFrame ==
  ASSUME ShardInv, UNCHANGED <<counts, simMatrix_, history>>,
         pc \notin {"down", "freq", "rows", "cols"},
         pc' \notin {"down", "freq", "rows", "cols"}
  PROVE  ShardInv'
<1>1. ASSUME Sharded, ~crashed, ~behind
      PROVE  \A i \in Mine, j \in Item : i # j => RowFresh(i, j)'
  BY <1>1 DEF ShardInv, FreshInv, RowFresh, counts
<1> QED BY <1>1 DEF ShardInv, FreshInv, history

LEMMA VisitShard ==
  ASSUME TypeOK, ShardInv, UpdateVisitMatrix
  PROVE  ShardInv'
<1>1. /\ pc = "visit" /\ pc' = "freq" /\ simMatrix_' = simMatrix_
      /\ visitFreqDB_' = visitFreqDB_ /\ newItems' = newItems /\ oldItems' = oldItems
      /\ behind' = behind /\ crashed' = crashed
  BY DEF UpdateVisitMatrix, update, history
<1>2. \A i, j \in Item :
        visitMatrix_'[i][j] = IF i \in Mine /\ Pair(i, j, oldItems, newItems)
                              THEN visitMatrix_[i][j] + 1 ELSE visitMatrix_[i][j]
  BY VisitedAt DEF UpdateVisitMatrix, TypeOK
<1>3. ASSUME Sharded, ~crashed, ~behind, NEW i \in Mine, NEW j \in Item, i # j,
             i \notin newItems, i \in oldItems => j \notin newItems
      PROVE  RowFresh(i, j)'
  <2>1. visitMatrix_'[i][j] = visitMatrix_[i][j] /\ visitMatrix_'[i][i] = visitMatrix_[i][i]
    BY <1>2, <1>3, MineAssumption DEF Pair
  <2>2. RowFresh(i, j)
    BY <1>1, <1>3 DEF ShardInv, FreshInv
  <2> QED BY <1>1, <2>1, <2>2 DEF RowFresh, Fresh
<1> QED BY <1>1, <1>3 DEF ShardInv, FreshInv

LEMMA FreqShard ==
  ASSUME TypeOK, ShardInv, UpdateVisitFreq
  PROVE  ShardInv'
<1>1. /\ pc = "freq" /\ simMatrix_' = simMatrix_ /\ visitMatrix_' = visitMatrix_
      /\ crashed' = crashed
      /\ \A j \in Item : visitFreqDB_[j] <= visitFreqDB_'[j]
      /\ \A j \in Item : visitFreqDB_[j] \in Nat /\ visitFreqDB_'[j] \in Nat
  BY DEF UpdateVisitFreq, TypeOK
<1>2. CASE call = "updateVisitMatrix"
  BY <1>2 DEF UpdateVisitFreq, Return, ShardInv
<1>3. CASE call = "updateMatrix"
  <2>1. /\ pc' = "rows" /\ call' = "updateMatrix" /\ rows' = newItems \cap Mine
        /\ newItems' = newItems /\ oldItems' = oldItems /\ behind' = behind
    BY <1>3 DEF UpdateVisitFreq
  <2>2. ASSUME Sharded, ~crashed, ~behind, NEW i \in Mine, NEW j \in Item, i # j,
               i \notin rows', i \in oldItems => j \notin newItems
        PROVE  RowFresh(i, j)'
    <3>1. RowFresh(i, j)
      BY <1>1, <2>1, <2>2 DEF ShardInv, FreshInv
    <3>2. visitMatrix_[i][j] \in Nat
      BY MineAssumption DEF TypeOK, Matrix
    <3> QED BY <1>1, <3>1, <3>2 DEF RowFresh, Fresh
  <2> QED BY <1>1, <2>1, <2>2 DEF ShardInv, FreshInv
<1> QED BY <1>2, <1>3 DEF UpdateVisitFreq

LEMMA SimRowShard ==
  ASSUME CountInv, RowsInv, ShardInv, NEW i \in Item, UpdateSimRow(i)
  PROVE  ShardInv'
<1>1. /\ pc = "rows" /\ pc' = pc /\ call' = call /\ crashed' = crashed /\ behind' = behind
      /\ visitMatrix_' = visitMatrix_ /\ visitFreqDB_' = visitFreqDB_
      /\ newItems' = newItems /\ oldItems' = oldItems /\ rows' = rows \ {i}
  BY DEF UpdateSimRow, history, counts
<1> SUFFICES ASSUME Sharded, ~crashed, ~behind PROVE FreshInv'
  BY <1>1 DEF ShardInv
<1>2. \A r \in Item : simMatrix_'[r] = IF r = i THEN SimRow(i) ELSE simMatrix_[r]
  BY DEF UpdateSimRow, Symmetric
<1>3. \A r \in Mine, j \in Item : r # j /\ r # i /\ RowFresh(r, j) => RowFresh(r, j)'
  BY <1>1, <1>2, MineAssumption DEF RowFresh
<1>4. \A j \in Item : i \in Mine /\ i # j => RowFresh(i, j)'
  BY <1>1, <1>2, ComputedIsFresh DEF RowFresh
<1> QED BY <1>1, <1>3, <1>4 DEF ShardInv, FreshInv

LEMMA SimRowColsShard ==
  ASSUME CountInv, ShardInv, NEW i \in Item, UpdateSimRowCols(i)
  PROVE  ShardInv'
<1>1. /\ pc = "cols" /\ pc' = pc /\ crashed' = crashed /\ behind' = behind
      /\ visitMatrix_' = visitMatrix_ /\ visitFreqDB_' = visitFreqDB_
      /\ newItems' = newItems /\ rows' = rows \ {i}
  BY DEF UpdateSimRowCols, history, counts
<1> SUFFICES ASSUME Sharded, ~crashed, ~behind PROVE FreshInv'
  BY <1>1 DEF ShardInv
<1>2. \A r, j \in Item :
        simMatrix_'[r][j] = IF r = i /\ j \in newItems /\ j # i
                            THEN SimRow(i)[j] ELSE simMatrix_[r][j]
  BY DEF UpdateSimRowCols, CountInv, TypeOK
<1>3. \A r \in Mine, j \in Item :
        r # j /\ (r = i => j \notin newItems) /\ RowFresh(r, j) => RowFresh(r, j)'
  BY <1>1, <1>2, MineAssumption DEF RowFresh
<1>4. \A j \in newItems \cap Item : i \in Mine /\ i # j => RowFresh(i, j)'
  BY <1>1, <1>2, ComputedIsFresh DEF RowFresh
<1> QED BY <1>1, <1>3, <1>4 DEF ShardInv, FreshInv

LEMMA EndRowsShard ==
  ASSUME CountInv, RowsInv, ShardInv, EndRows
  PROVE  ShardInv'
<1>1. /\ pc = "rows" /\ rows = {} /\ crashed' = crashed
      /\ visitMatrix_' = visitMatrix_ /\ visitFreqDB_' = visitFreqDB_
      /\ simMatrix_' = simMatrix_
  BY DEF EndRows, counts
<1>2. CASE call = "buildSimMatrix"
  <2>1. ASSUME ~crashed, NEW i \in Mine, NEW j \in Item, i # j
        PROVE  RowFresh(i, j)'
    <3>1. i \in Item /\ simMatrix_[i][j] = SimRow(i)[j]
      BY <1>1, <1>2, <2>1, MineAssumption, SimRowIs DEF RowsInv, RebuildInv, Current
    <3>2. RowFresh(i, j)
      BY <1>1, <2>1, <3>1, ComputedIsFresh DEF RowFresh
    <3> QED BY <1>1, <3>2 DEF RowFresh
  <2>2. pc' = "idle"
    BY <1>2 DEF EndRows, Return
  <2> QED BY <1>1, <2>1, <2>2 DEF ShardInv, FreshInv
<1>3. CASE call = "updateMatrix"
  <2>1. /\ behind' = behind /\ newItems' = newItems
        /\ Sharded => pc' = "cols" /\ rows' = oldItems \cap Mine
    BY <1>3 DEF EndRows
  <2>2. ASSUME Sharded, ~crashed, ~behind, NEW i \in Mine, NEW j \in Item, i # j,
               i \in rows' => j \notin newItems
        PROVE  RowFresh(i, j)'
    <3>1. RowFresh(i, j)
      BY <1>1, <1>3, <2>1, <2>2 DEF ShardInv, FreshInv
    <3> QED BY <1>1, <3>1 DEF RowFresh
  <2> QED BY <1>1, <2>1, <2>2 DEF ShardInv, FreshInv
<1> QED BY <1>2, <1>3 DEF EndRows

LEMMA EndColsShard ==
  ASSUME ShardInv, EndCols
  PROVE  ShardInv'
<1>1. /\ pc = "cols" /\ pc' = "neighbors" /\ rows = {}
      /\ crashed' = crashed /\ behind' = behind
      /\ UNCHANGED <<visitMatrix_, visitFreqDB_, simMatrix_>>
  BY DEF EndCols, counts, history
<1> QED BY <1>1 DEF ShardInv, FreshInv, RowFresh

LEMMA NextShard == CountInv /\ RowsInv /\ ShardInv /\ [Next]_vars => ShardInv'
<1> SUFFICES ASSUME CountInv, RowsInv, ShardInv, [Next]_vars PROVE ShardInv'
  OBVIOUS
<1>1. ASSUME NEW u \in User, NEW items \in SUBSET Item,
             NEW function \in {"updateMatrix", "updateVisitMatrix"},
             Purchase(u, items, function)
      PROVE  ShardInv'
  BY <1>1, ShardFrame DEF Purchase
<1>2. CASE UpdateVisitMatrix
  BY <1>2, VisitShard DEF CountInv
<1>3. CASE UpdateVisitFreq
  BY <1>3, FreqShard DEF CountInv
<1>4. CASE BuildSimMatrix
  <2>1. /\ pc = "idle" /\ pc' = "rows" /\ call' = "buildSimMatrix"
        /\ UNCHANGED <<visitMatrix_, visitFreqDB_, simMatrix_, behind, crashed>>
    BY <1>4 DEF BuildSimMatrix, counts, history
  <2> QED BY <2>1 DEF ShardInv, FreshInv, RowFresh
<1>5. ASSUME NEW i \in Item, UpdateSimRow(i) \/ UpdateSimRowCols(i)
      PROVE  ShardInv'
  BY <1>5, SimRowShard, SimRowColsShard
<1>6. ASSUME NEW i \in Item, UpdateNeighbor(i)
      PROVE  ShardInv'
  BY <1>6, ShardFrame DEF UpdateNeighbor
<1>7. CASE EndRows
  BY <1>7, EndRowsShard
<1>8. CASE EndCols
  BY <1>8, EndColsShard
<1>9. CASE EndUpdate
  BY <1>9, ShardFrame DEF EndUpdate, Return
<1>10. CASE FlushStep
  BY <1>10, ShardFrame DEF FlushStep, Flush
<1>11. CASE Close
  <2>1. /\ pc = "idle" /\ pc' = "down" /\ crashed' = crashed /\ behind' = behind
        /\ disk'.visit = visitMatrix_ /\ disk'.freq = visitFreqDB_ /\ disk'.sim = simMatrix_
    BY <1>11 DEF Close, Forget, history
  <2> QED BY <2>1 DEF ShardInv, FreshInv, RowFresh
<1>12. CASE Open
  <2>1. /\ pc = "down" /\ pc' = "idle" /\ crashed' = crashed /\ behind' = behind
        /\ visitMatrix_' = disk.visit /\ visitFreqDB_' = disk.freq /\ simMatrix_' = disk.sim
    BY <1>12 DEF Open, history
  <2> QED BY <2>1 DEF ShardInv, FreshInv, RowFresh
<1>13. CASE Crash
  BY <1>13 DEF Crash, ShardInv
<1>14. CASE UNCHANGED vars
  BY <1>14 DEF vars, counts, update, history, ShardInv, FreshInv, RowFresh
<1> QED
  BY <1>1, <1>2, <1>3, <1>4, <1>5, <1>6, <1>7, <1>8, <1>9, <1>10, <1>11, <1>12, <1>13, <1>14
     DEF Next

LEMMA FreshIsEnough ==
  ASSUME CountInv, RowsInv, ShardInv, NoProductWraps
  PROVE  SimIsNeverTooSmall
<1> SUFFICES ASSUME Between, NEW i \in Mine, NEW j \in Item \ {i}
             PROVE  /\ simMatrix_[i][j].ij = Count(i, j)
                    /\ simMatrix_[i][j].ij # 0 =>
                         \E jj \in simMatrix_[i][j].ij .. Count(j, j) :
                           simMatrix_[i][j].prod = Count(i, i) * jj
  BY DEF SimIsNeverTooSmall
<1>1. i \in Item
  BY MineAssumption
<1>2. /\ visitMatrix_[i][j] = Count(i, j) /\ visitMatrix_[i][i] = Count(i, i)
      /\ visitFreqDB_[j] = Count(j, j)
  BY <1>1, CountsFollow DEF CountsUsers, Between
<1>3. RowFresh(i, j)
  <2>1. CASE Sharded
    BY <2>1 DEF ShardInv, FreshInv, Between
  <2>2. CASE ~Sharded
    <3>1. simMatrix_[i][j] = SimRow(i)[j]
      BY <1>1, <2>2, SimRowIs DEF Between, RowsInv, PendingInv, Current
    <3>2. Count(i, j) <= Count(j, j) /\ Count(j, j) \in Nat
      BY PairsAreBuyers, CountType DEF CountInv
    <3>3. CASE visitMatrix_[i][j] # 0
      BY <1>1, <1>2, <3>1, <3>2, <3>3 DEF SimRow, Sim, RowFresh, Fresh
    <3>4. CASE visitMatrix_[i][j] = 0
      BY <1>1, <3>1, <3>4 DEF SimRow, NoSim, RowFresh, Fresh
    <3> QED BY <3>3, <3>4
  <2> QED BY <2>1, <2>2
<1>4. simMatrix_[i][j].ij = Count(i, j)
  BY <1>2, <1>3 DEF RowFresh, Fresh
<1>5. ASSUME Count(i, j) # 0
      PROVE  \E jj \in Count(i, j) .. Count(j, j) : simMatrix_[i][j].prod = Count(i, i) * jj
  <2>1. PICK jj \in Nat : /\ Count(i, j) <= jj /\ jj <= Count(j, j)
                          /\ simMatrix_[i][j].prod = (Count(i, i) * jj) % Modulus
    BY <1>2, <1>3, <1>5 DEF RowFresh, Fresh
  <2>2. Cardinality(User) \in Nat /\ \A k : Count(k, k) \in Nat /\ Count(k, k) <= Cardinality(User)
    <3>1. \A k : Buyers(k, k) \subseteq User
      BY DEF Buyers
    <3> QED BY <3>1, UserAssumption, FS_Subset, FS_CardinalityType, CountType
            DEF Count, CountInv
  <2>3. Count(i, i) \in 0 .. Cardinality(User) /\ jj \in 0 .. Cardinality(User)
    BY <2>1, <2>2
  <2>4. Count(i, i) * jj < Modulus /\ Count(i, i) * jj \in Nat
    BY <2>1, <2>2, <2>3 DEF NoProductWraps
  <2>5. \A p \in Nat : p < Modulus => p % Modulus = p
    BY ModulusAssumption
  <2>6. simMatrix_[i][j].prod = Count(i, i) * jj
    BY <2>1, <2>4, <2>5
  <2>7. jj \in Count(i, j) .. Count(j, j)
    BY <2>1, CountType DEF CountInv
  <2> QED BY <2>6, <2>7
<1> QED BY <1>4, <1>5

(* With a sharder a similarity between the updates may be old, never too   *)
(* small: the visits of the pair are exact, and the frequency of the other *)
(* item is one it had since they were that many.                           *)
THEOREM StaleSimIsBounded == ASSUME NoProductWraps PROVE Spec => []SimIsNeverTooSmall
<1>1. Init => ShardInv
  BY InitShard
<1>2. CountInv /\ RowsInv /\ ShardInv /\ [Next]_vars => ShardInv'
  BY NextShard
<1>3. CountInv /\ RowsInv /\ ShardInv => SimIsNeverTooSmall
  BY FreshIsEnough
<1> QED BY <1>1, <1>2, <1>3, RowsInvHolds, PTL DEF Spec
=============================================================================
