------------------------------- MODULE ItemCF -------------------------------
(***************************************************************************)
(* Incremental item-based collaborative filtering (resys/incremcf and the  *)
(* ItemCoVisitation and SimilarityNeighbor it is made of).                 *)
(*                                                                         *)
(* A purchase adds items to those a user bought before.  The visit matrix  *)
(* counts the users who bought both of two items, visitFreqDB_ those who   *)
(* bought one; from them come the similarities v_ij / sqrt(v_ii * v_jj)    *)
(* and, per item, its top K neighbours, which recommend reads.  With a     *)
(* sharder a node keeps the rows of some items only and every node is told *)
(* of every purchase.                                                      *)
(*                                                                         *)
(* An update is cut where one store is left and the next one written, and  *)
(* at each row.  The four stores have a copy on disk each, written by      *)
(* flush one after the other.  Matrices and sdb files are libraries: their *)
(* caches may write rows back before a flush, so a crash keeps any of them.*)
(***************************************************************************)
EXTENDS Integers, FiniteSets

CONSTANTS
  User, Item,
  Mine,      (* the rows that testRow of the sharder accepts               *)
  Sharded,   (* is there a sharder?                                        *)
  TopKs,     (* the numbers of neighbours an item may have at most         *)
  Modulus,   (* 2^32: frequencies are multiplied as uint32_t               *)
  MayCrash,
  WriteBack  (* may caches have written to disk since the last flush?      *)

ASSUME UserAssumption == IsFiniteSet(User)
ASSUME MineAssumption == Mine \subseteq Item /\ (~Sharded => Mine = Item)
ASSUME ModulusAssumption == Modulus \in Nat \ {0}

VARIABLES
  topK_,              (* maxNeighborNum of the constructor, at each start  *)
  bought,             (* what each user bought: the callers' knowledge     *)
  visitMatrix_,       (* v_ij, 0 where there is no element                 *)
  visitFreqDB_,       (* v_jj, for every item                              *)
  simMatrix_,         (* the similarities                                  *)
  neighbors_,         (* for each item a set of [item, sim]                *)
  dirty_flags_,       (* the items whose neighbours are not on disk        *)
  disk,               (* the four stores on disk                           *)
  call, pc,           (* the operation under way and where it is           *)
  oldItems, newItems, (* its arguments                                     *)
  rows,               (* rows of the similarity matrix it has yet to do    *)
  updatedRows,        (* rows whose neighbours it has yet to do            *)
  behind, crashed     (* history: the similarities wait for a rebuild; the *)
                      (* program did not end with the stores closed        *)

given == <<topK_, bought>>
counts == <<visitMatrix_, visitFreqDB_>>
neighbors == <<neighbors_, dirty_flags_>>
update == <<call, oldItems, newItems, rows, updatedRows>>
history == <<behind, crashed>>
vars == <<given, counts, simMatrix_, neighbors, disk, pc, update, history>>

-----------------------------------------------------------------------------
(* A similarity is kept as v_ij and the product under the root.            *)
NoSim == [ij |-> 0, prod |-> 1]
Similarity == [ij : Nat, prod : Nat]

Sim(ij, ii, jj) == [ij |-> ij, prod |-> (ii * jj) % Modulus]

Less(s, t) == s.ij * s.ij * t.prod < t.ij * t.ij * s.prod

ColsOf(row) == {j \in Item : row[j] # NoSim}

(* Mutant: One neighbour too few is kept. *)
Tops_OneLess(row) ==
  {S \in SUBSET ColsOf(row) :
     /\ Cardinality(S) < topK_
     /\ \A s \in S, t \in ColsOf(row) \ S : ~Less(row[s], row[t])
     /\ S # ColsOf(row) => Cardinality(S) = topK_ - 1}

(* SimilarityQueue and updateNeighborFromQueue_: the K most similar; the   *)
(* order of iteration decides between equals.                              *)
Tops(row) ==
  {S \in SUBSET ColsOf(row) :
     /\ Cardinality(S) <= topK_
     /\ \A s \in S, t \in ColsOf(row) \ S : ~Less(row[s], row[t])
     /\ S # ColsOf(row) => Cardinality(S) = topK_}

NeighborsOf(row) == {{[item |-> j, sim |-> row[j]] : j \in S} : S \in Tops(row)}

Empty == [i \in Item |-> {}]
Zeros == [i \in Item |-> 0]
ZeroMatrix == [i \in Item |-> Zeros]
NoSims == [i \in Item |-> [j \in Item |-> NoSim]]

(* Mutant: The new items are not paired with each other. *)
Visited_OldOnly(m, old, new) ==
  [i \in Item |-> [j \in Item |->
     IF /\ i \in Mine
        /\ (i \in old /\ j \in new) \/ (i \in new /\ j \in old) \/ (i \in new /\ i = j)
     THEN m[i][j] + 1 ELSE m[i][j]]]

(* Mutant: The old items are paired with each other again. *)
Visited_OldAgain(m, old, new) ==
  [i \in Item |-> [j \in Item |->
     IF i \in Mine /\ i \in old \cup new /\ j \in old \cup new
     THEN m[i][j] + 1 ELSE m[i][j]]]

(* ItemCoVisitation::visit: old*new pairs, then new*total pairs. *)
Visited(m, old, new) ==
  [i \in Item |-> [j \in Item |->
     IF i \in Mine /\ ((i \in old /\ j \in new) \/ (i \in new /\ j \in old \cup new))
     THEN m[i][j] + 1 ELSE m[i][j]]]

(* updateSimRow_: the similarities of a row, as the counts are now. *)
SimRow(i) ==
  [j \in Item |->
     IF j # i /\ visitMatrix_[i][j] # 0
     THEN Sim(visitMatrix_[i][j], visitMatrix_[i][i], visitFreqDB_[j])
     ELSE NoSim]

(* Mutant: Only the rows of the items bought before are touched. *)
Symmetric_OldOnly(row) ==
  IF call = "updateMatrix" /\ ~Sharded THEN ColsOf(row) \cap oldItems ELSE {}

(* Without a sharder updateMatrix also sets the symmetric values, in the   *)
(* rows that it does not compute anyway (UpdateSimFunc).                   *)
Symmetric(row) ==
  IF call = "updateMatrix" /\ ~Sharded THEN ColsOf(row) \ newItems ELSE {}

(* The stores as flush leaves them: only dirty neighbours are written. *)
FlushedNeighbors ==
  [i \in Item |-> IF i \in dirty_flags_ THEN neighbors_[i] ELSE disk.neighbors[i]]

-----------------------------------------------------------------------------
Return == pc' = "idle" /\ call' = "none" /\ oldItems' = {} /\ newItems' = {}

(* updateMatrix or updateVisitMatrix is called: the user buys new items.   *)
Purchase(u, items, function) ==
  /\ pc = "idle"
  /\ items # {} /\ items \cap bought[u] = {}
  /\ bought' = [bought EXCEPT ![u] = bought[u] \cup items]
  /\ oldItems' = bought[u] /\ newItems' = items
  /\ call' = function
  /\ pc' = "visit"
  /\ UNCHANGED <<topK_, counts, simMatrix_, neighbors, disk, rows, updatedRows, history>>

UpdateVisitMatrix ==
  /\ pc = "visit"
  /\ visitMatrix_' = Visited(visitMatrix_, oldItems, newItems)
  /\ pc' = "freq"
  /\ UNCHANGED <<given, visitFreqDB_, simMatrix_, neighbors, disk, update, history>>

(* updateVisitFreq_, of all items and not only those of this node; then    *)
(* updateVisitMatrix is through and updateMatrix goes on.                  *)
UpdateVisitFreq ==
  /\ pc = "freq"
  /\ visitFreqDB_' = [i \in Item |-> visitFreqDB_[i] + (IF i \in newItems THEN 1 ELSE 0)]
  /\ \/ /\ call = "updateVisitMatrix"
        /\ Return /\ behind' = TRUE
        /\ UNCHANGED rows
     \/ /\ call = "updateMatrix"
        /\ rows' = newItems \cap Mine
        /\ pc' = "rows"
        /\ UNCHANGED <<call, oldItems, newItems, behind>>
  /\ UNCHANGED <<given, visitMatrix_, simMatrix_, neighbors, disk, updatedRows, crashed>>

(* Mutant: Only the rows that were not written yet are rebuilt. *)
BuildSimMatrix_Dirty ==
  /\ pc = "idle"
  /\ rows' = dirty_flags_
  /\ call' = "buildSimMatrix"
  /\ pc' = "rows"
  /\ UNCHANGED <<given, counts, simMatrix_, neighbors, disk, oldItems, newItems,
                 updatedRows, history>>

(* buildSimMatrix: every row of the visit matrix. *)
BuildSimMatrix ==
  /\ pc = "idle"
  /\ rows' = {i \in Item : \E j \in Item : visitMatrix_[i][j] # 0}
  /\ call' = "buildSimMatrix"
  /\ pc' = "rows"
  /\ UNCHANGED <<given, counts, simMatrix_, neighbors, disk, oldItems, newItems,
                 updatedRows, history>>

(* updateSimRow_: the row, its neighbours and the symmetric values. *)
UpdateSimRow(i) ==
  LET row == SimRow(i)
      symmetric == Symmetric(row)
  IN  /\ pc = "rows" /\ i \in rows
      /\ simMatrix_' = [r \in Item |->
           IF r = i THEN row
           ELSE IF r \in symmetric THEN [simMatrix_[r] EXCEPT ![i] = row[r]]
           ELSE simMatrix_[r]]
      /\ updatedRows' = updatedRows \cup symmetric
      /\ \E top \in NeighborsOf(row) : neighbors_' = [neighbors_ EXCEPT ![i] = top]
      /\ dirty_flags_' = dirty_flags_ \cup {i}
      /\ rows' = rows \ {i}
      /\ UNCHANGED <<given, counts, disk, call, oldItems, newItems, pc, history>>

(* The rows are through: with a sharder those of the old items follow. *)
EndRows ==
  /\ pc = "rows" /\ rows = {}
  /\ \/ /\ call = "buildSimMatrix"
        /\ Return /\ behind' = FALSE
        /\ UNCHANGED rows
     \/ /\ call = "updateMatrix"
        /\ \/ Sharded /\ pc' = "cols" /\ rows' = oldItems \cap Mine
           \/ ~Sharded /\ pc' = "neighbors" /\ UNCHANGED rows
        /\ UNCHANGED <<call, oldItems, newItems, behind>>
  /\ UNCHANGED <<given, counts, simMatrix_, neighbors, disk, updatedRows, crashed>>

(* Mutant: The columns of the old items are updated. *)
UpdateSimRowCols_Old(i) ==
  /\ pc = "cols" /\ i \in rows
  /\ simMatrix_' = [simMatrix_ EXCEPT ![i] =
       [j \in Item |-> IF j \in oldItems /\ j # i THEN SimRow(i)[j] ELSE simMatrix_[i][j]]]
  /\ updatedRows' = updatedRows \cup {i}
  /\ rows' = rows \ {i}
  /\ UNCHANGED <<given, counts, neighbors, disk, call, oldItems, newItems, pc, history>>

(* updateSimRowCols_: the columns of the new items in the row of an old one.*)
UpdateSimRowCols(i) ==
  /\ pc = "cols" /\ i \in rows
  /\ simMatrix_' = [simMatrix_ EXCEPT ![i] =
       [j \in Item |-> IF j \in newItems /\ j # i THEN SimRow(i)[j] ELSE simMatrix_[i][j]]]
  /\ updatedRows' = updatedRows \cup {i}
  /\ rows' = rows \ {i}
  /\ UNCHANGED <<given, counts, neighbors, disk, call, oldItems, newItems, pc, history>>

EndCols ==
  /\ pc = "cols" /\ rows = {}
  /\ pc' = "neighbors"
  /\ UNCHANGED <<given, counts, simMatrix_, neighbors, disk, update, history>>

(* Mutant: The neighbours are not marked as dirty. *)
UpdateNeighbor_NotDirty(i) ==
  /\ pc = "neighbors" /\ i \in updatedRows
  /\ \E top \in NeighborsOf(simMatrix_[i]) : neighbors_' = [neighbors_ EXCEPT ![i] = top]
  /\ updatedRows' = updatedRows \ {i}
  /\ UNCHANGED <<given, counts, simMatrix_, dirty_flags_, disk, call, oldItems, newItems,
                 rows, pc, history>>

(* UpdateSimFunc::updateNeighbor: the row is read back. *)
UpdateNeighbor(i) ==
  /\ pc = "neighbors" /\ i \in updatedRows
  /\ \E top \in NeighborsOf(simMatrix_[i]) : neighbors_' = [neighbors_ EXCEPT ![i] = top]
  /\ dirty_flags_' = dirty_flags_ \cup {i}
  /\ updatedRows' = updatedRows \ {i}
  /\ UNCHANGED <<given, counts, simMatrix_, disk, call, oldItems, newItems, rows, pc,
                 history>>

EndUpdate ==
  /\ pc = "neighbors" /\ updatedRows = {}
  /\ Return
  /\ UNCHANGED <<given, counts, simMatrix_, neighbors, disk, rows, updatedRows, history>>

-----------------------------------------------------------------------------
(* flush: the visit matrix, the similarities, the neighbours, then the     *)
(* frequencies.                                                            *)
Flush ==
  \/ /\ pc = "idle" /\ pc' = "flush_sim"
     /\ disk' = [disk EXCEPT !.visit = visitMatrix_]
     /\ UNCHANGED dirty_flags_
  \/ /\ pc = "flush_sim" /\ pc' = "flush_neighbors"
     /\ disk' = [disk EXCEPT !.sim = simMatrix_]
     /\ UNCHANGED dirty_flags_
  \/ /\ pc = "flush_neighbors" /\ pc' = "flush_freq"
     /\ disk' = [disk EXCEPT !.neighbors = FlushedNeighbors]
     /\ dirty_flags_' = {}
  \/ /\ pc = "flush_freq" /\ pc' = "idle"
     /\ disk' = [disk EXCEPT !.freq = visitFreqDB_]
     /\ UNCHANGED dirty_flags_

FlushStep ==
  /\ Flush
  /\ UNCHANGED <<given, counts, simMatrix_, neighbors_, update, history>>

(* What is in memory is gone when the program is down. *)
Forget ==
  /\ visitMatrix_' = ZeroMatrix /\ visitFreqDB_' = Zeros
  /\ simMatrix_' = NoSims /\ neighbors_' = Empty /\ dirty_flags_' = {}
  /\ call' = "none" /\ oldItems' = {} /\ newItems' = {}
  /\ rows' = {} /\ updatedRows' = {}
  /\ pc' = "down"

(* The destructors write what is left and close the stores. *)
Close ==
  /\ pc = "idle"
  /\ disk' = [visit |-> visitMatrix_, freq |-> visitFreqDB_, sim |-> simMatrix_,
              neighbors |-> FlushedNeighbors]
  /\ Forget
  /\ UNCHANGED <<given, history>>

(* The constructor opens the stores and loads all neighbours. *)
Open ==
  /\ pc = "down"
  /\ visitMatrix_' = disk.visit /\ visitFreqDB_' = disk.freq
  /\ simMatrix_' = disk.sim /\ neighbors_' = disk.neighbors
  /\ pc' = "idle"
  /\ UNCHANGED <<given, dirty_flags_, disk, update, history>>

(* A crash at any point: each row of the matrices and each frequency is    *)
(* what flush wrote last or what a cache has written since.                *)
Kept(memory, stored, written) ==
  [i \in Item |-> IF i \in written THEN memory[i] ELSE stored[i]]

Crash ==
  /\ MayCrash /\ pc # "down"
  /\ \E visits, freqs, sims \in IF WriteBack THEN SUBSET Item ELSE {{}} :
       disk' = [disk EXCEPT !.visit = Kept(visitMatrix_, disk.visit, visits),
                            !.freq = Kept(visitFreqDB_, disk.freq, freqs),
                            !.sim = Kept(simMatrix_, disk.sim, sims)]
  /\ Forget
  /\ crashed' = TRUE
  /\ UNCHANGED <<given, behind>>

Init ==
  /\ topK_ \in TopKs
  /\ bought = [u \in User |-> {}]
  /\ visitMatrix_ = ZeroMatrix /\ visitFreqDB_ = Zeros
  /\ simMatrix_ = NoSims /\ neighbors_ = Empty /\ dirty_flags_ = {}
  /\ disk = [visit |-> ZeroMatrix, freq |-> Zeros, sim |-> NoSims, neighbors |-> Empty]
  /\ call = "none" /\ oldItems = {} /\ newItems = {}
  /\ rows = {} /\ updatedRows = {}
  /\ pc = "down"
  /\ behind = FALSE /\ crashed = FALSE

Next ==
  \/ \E u \in User, items \in SUBSET Item,
        function \in {"updateMatrix", "updateVisitMatrix"} : Purchase(u, items, function)
  \/ UpdateVisitMatrix \/ UpdateVisitFreq \/ BuildSimMatrix
  \/ \E i \in Item : UpdateSimRow(i) \/ UpdateSimRowCols(i) \/ UpdateNeighbor(i)
  \/ EndRows \/ EndCols \/ EndUpdate
  \/ FlushStep \/ Close \/ Open \/ Crash

Spec == Init /\ [][Next]_vars

-----------------------------------------------------------------------------
(* The candidates and the items recommend returns for those visited, when  *)
(* howMany does not cut them: a candidate of this node with a positive     *)
(* weight, that is, with a visited item among its neighbours.              *)
CandidateSet(visited) == UNION {{n.item : n \in neighbors_[i]} : i \in visited \cap Mine}

Recommend(visited) ==
  {c \in CandidateSet(visited) \cap Mine :
     c \notin visited /\ \E n \in neighbors_[c] : n.item \in visited}

-----------------------------------------------------------------------------
(* The purchases themselves: how many users bought both items.  Until its  *)
(* turn a store does not know of the purchase under way.                   *)
Buyers(i, j) == {u \in User : {i, j} \subseteq bought[u]}
Count(i, j) == Cardinality(Buyers(i, j))

Gold(i, j) == [ij |-> Count(i, j), prod |-> Count(i, i) * Count(j, j)]

(* Every variable has its type. *)
Matrix == [Item -> [Item -> Nat]]
Neighbors == [Item -> SUBSET [item : Item, sim : Similarity]]

TypeOK ==
  /\ topK_ \in TopKs
  /\ bought \in [User -> SUBSET Item]
  /\ visitMatrix_ \in Matrix /\ visitFreqDB_ \in [Item -> Nat]
  /\ simMatrix_ \in [Item -> [Item -> Similarity]]
  /\ neighbors_ \in Neighbors /\ dirty_flags_ \subseteq Item
  /\ disk \in [visit : Matrix, freq : [Item -> Nat],
               sim : [Item -> [Item -> Similarity]], neighbors : Neighbors]
  /\ call \in {"none", "updateMatrix", "updateVisitMatrix", "buildSimMatrix"}
  /\ pc \in {"down", "idle", "visit", "freq", "rows", "cols", "neighbors",
             "flush_sim", "flush_neighbors", "flush_freq"}
  /\ oldItems \subseteq Item /\ newItems \subseteq Item
  /\ rows \subseteq Item /\ updatedRows \subseteq Item
  /\ behind \in BOOLEAN /\ crashed \in BOOLEAN

(* "the covisit matrix records the number of users who have visited both   *)
(* item i and item j" (ItemCoVisitation.h:47), in the rows of this node;   *)
(* the frequencies are those of every item, and both survive a restart.    *)
CountsUsers ==
  ~crashed /\ pc \notin {"down", "visit"} =>
    \A i, j \in Item :
      /\ i \in Mine => visitMatrix_[i][j] = Count(i, j)
      /\ pc # "freq" => visitFreqDB_[j] = Count(j, j)

(* Without a sharder every similarity is v_ij / sqrt(v_ii * v_jj) between  *)
(* the updates, also in the rows of items that were not bought: the gold   *)
(* matrix of ItemCFTest.cpp:356.                                           *)
Between == pc = "idle" /\ ~crashed /\ ~behind

SimIsCurrent ==
  ~Sharded /\ Between =>
    \A i, j \in Item :
      simMatrix_[i][j] = IF i # j /\ Count(i, j) # 0 THEN Gold(i, j) ELSE NoSim

(* With a sharder the rows of items that were not bought are not updated:  *)
(* between the updates a similarity may be that of an earlier time, when   *)
(* the other item had fewer buyers.  It is never too small.                *)
SimIsNeverTooSmall ==
  Between =>
    \A i \in Mine : \A j \in Item \ {i} :
      LET sim == simMatrix_[i][j]
      IN  /\ sim.ij = Count(i, j)
          /\ sim.ij # 0 => \E jj \in sim.ij .. Count(j, j) : sim.prod = Count(i, i) * jj

(* A rebuild brings every row of the node up to date. *)
RebuildIsCurrent ==
  [][pc = "rows" /\ pc' = "idle" /\ ~crashed =>
       \A i \in Mine : \A j \in Item \ {i} :
         Count(i, j) # 0 => simMatrix_'[i][j] = Gold(i, j)]_vars

(* Between the updates, also those that computed no similarities, the      *)
(* neighbours of an item are the most similar ones of its row, with the    *)
(* similarities of that row; a restart brings back the same.               *)
NeighborsAreTop ==
  pc = "idle" /\ ~crashed =>
    \A i \in Mine : neighbors_[i] \in NeighborsOf(simMatrix_[i])

(* "the freq value in visit matrix should be positive." (the assertions at *)
(* IncrementalItemCF.cpp:269 and 310), where no lost purchase is to blame: *)
(* the matrix has the other item's own visits, so they were counted.       *)
FreqOfVisitedIsPositive ==
  pc = "rows" =>
    \A i \in rows, j \in Item :
      i # j /\ visitMatrix_[i][j] # 0 /\ visitMatrix_[j][j] # 0 => visitFreqDB_[j] # 0

(* Where there is room for all neighbours, what is recommended to whoever  *)
(* visited some items is all that someone bought together with one of      *)
(* them.                                                                   *)
RecommendsBoughtTogether ==
  ~Sharded /\ Between /\ topK_ >= Cardinality(Item) - 1 =>
    \A visited \in SUBSET Item :
      Recommend(visited) =
        {c \in Item \ visited : \E i \in visited : Count(c, i) # 0}

(* Crashes lose purchases, in whichever store; none is ever counted twice  *)
(* or made up.                                                             *)
NothingIsMadeUp ==
  \A i, j \in Item :
    /\ visitMatrix_[i][j] <= Count(i, j) /\ disk.visit[i][j] <= Count(i, j)
    /\ visitFreqDB_[j] <= Count(j, j) /\ disk.freq[j] <= Count(j, j)
=============================================================================
