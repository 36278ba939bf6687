--------------------------- MODULE AllPairsSearch ---------------------------
(***************************************************************************)
(* AllPairsSearch and DocSimOutput (similarity/all-pairs-similarity-       *)
(* search/): vectors come in data sets, each small enough that its         *)
(* inverted lists fit in memory.  One data set after the other is indexed, *)
(* and the vectors of it and of all that follow are compared with those in *)
(* the index; the pairs are sorted and the best of each document written   *)
(* to a database that stays over restarts.                                 *)
(*                                                                         *)
(* A document is named by its data set and its place there.  What a scan   *)
(* of the inverted lists adds up is given: the weight of two documents.    *)
(* The search is cut at each vector that is read, the construction of the  *)
(* similarity index at each pair.                                          *)
(***************************************************************************)
EXTENDS Integers, Sequences, FiniteSets

CONSTANTS
  MaxSets, MaxSize,  (* bounds: how many data sets, and vectors in each    *)
  Inputs,            (* the sizes of the data sets, in the order they are  *)
                     (* read                                               *)
  MaxDocs,           (* what maxDoc may be                                 *)
  Weights,           (* what the weights may be, as functions on Pairs     *)
  thresholdSim_,
  Limit              (* how many similar documents are kept                *)

Doc == (1 .. MaxSets) \X (1 .. MaxSize)
Pairs == Doc \X Doc

ASSUME InputsAssumption ==
  /\ MaxSets \in Nat \ {0} /\ MaxSize \in Nat \ {0}
  /\ Inputs \subseteq UNION {[1 .. n -> 1 .. MaxSize] : n \in 1 .. MaxSets}
ASSUME MaxDocsAssumption == MaxDocs \subseteq Nat
ASSUME WeightsAssumption ==
  /\ Weights \subseteq [Pairs -> Nat] /\ thresholdSim_ \in Nat
  /\ \A w \in Weights : \A d, e \in Doc : w[<<d, e>>] = w[<<e, d>>]
ASSUME LimitAssumption == Limit \in Nat \ {0}

VARIABLES
  size,            (* the number of vectors in each data set, a sequence   *)
  maxDoc,          (* how many are read, 0 for all                         *)
  weight,
  i, j,            (* the data set in the index, and the one being read    *)
  read,            (* how many of its vectors were read                    *)
  invertedLists_,  (* the documents in the index                           *)
  sorter_,         (* how often each pair was put                          *)
  db_,             (* the similar documents of each document, best first   *)
  before,          (* history: what db_ was when the search began          *)
  unread,          (* the sorted pairs next_data has still to give         *)
  lastIndexId,     (* the document whose pairs are being collected, ...    *)
  listData,        (* ... and those collected; no pair is put twice, see   *)
                   (* EachPairOnce, so that a list is a set                *)
  failed,          (* history: the documents whose update failed           *)
  pc

input == <<size, maxDoc, weight>>
search == <<i, j, read, invertedLists_>>
construction == <<unread, lastIndexId, listData, failed>>
vars == <<input, search, sorter_, db_, before, construction, pc>>

dataSetNum == Len(size)
NoPairs == [p \in Pairs |-> 0]
NoDoc == <<>>   (* lastIndexId is 0, which numbers no document            *)

(* What the sorter gives: the pairs that were put. *)
Sorted == {p \in Pairs : sorter_[p] > 0}

(* Only the search in a single data set looks at maxDoc. *)
BeginSearch ==
  /\ pc = "idle"
  /\ size' \in Inputs /\ weight' \in Weights
  /\ maxDoc' \in MaxDocs /\ (maxDoc' # 0 => Len(size') = 1)
  /\ i' = 1 /\ j' = 1 /\ read' = 0 /\ invertedLists_' = {}
  /\ before' = db_
  /\ pc' = "searching"
  /\ UNCHANGED <<sorter_, db_, construction>>

(* next() finds no more vectors, or enough were read. *)
AtEnd == read = size[j] \/ (maxDoc # 0 /\ read >= maxDoc)

(* findMatchPairs0, and indexVector0 for a vector of the data set that is  *)
(* indexed: a pair is put in both directions.                              *)
Matches(d) ==
  {p \in Pairs :
     /\ \/ p[1] = d /\ p[2] \in invertedLists_
        \/ p[2] = d /\ p[1] \in invertedLists_
     /\ weight[p] > thresholdSim_}

ReadVector ==
  /\ pc = "searching" /\ ~AtEnd
  /\ LET d == <<j, read + 1>>
     IN  /\ sorter_' = [p \in Pairs |-> IF p \in Matches(d) THEN sorter_[p] + 1 ELSE sorter_[p]]
         /\ invertedLists_' = IF i = j THEN invertedLists_ \cup {d} ELSE invertedLists_
  /\ read' = read + 1
  /\ UNCHANGED <<input, i, j, db_, before, construction, pc>>

(* The next data set is compared with the index, ... *)
NextDataSet ==
  /\ pc = "searching" /\ AtEnd /\ j < dataSetNum
  /\ j' = j + 1 /\ read' = 0
  /\ UNCHANGED <<input, i, invertedLists_, sorter_, db_, before, construction, pc>>

(* Mutant: The index is not cleared for the next data set. *)
NextIndex_NotCleared ==
  /\ pc = "searching" /\ AtEnd /\ j = dataSetNum /\ i < dataSetNum
  /\ i' = i + 1 /\ j' = i + 1 /\ read' = 0
  /\ UNCHANGED <<input, invertedLists_, sorter_, db_, before, construction, pc>>

(* Mutant: The last data set is compared again and again. *)
NextIndex_Stays ==
  /\ pc = "searching" /\ AtEnd /\ j = dataSetNum /\ i < dataSetNum
  /\ j' = i + 1 /\ read' = 0 /\ invertedLists_' = {}
  /\ UNCHANGED <<input, i, sorter_, db_, before, construction, pc>>

(* ... and after the last one the next is indexed.                         *)
NextIndex ==
  /\ pc = "searching" /\ AtEnd /\ j = dataSetNum /\ i < dataSetNum
  /\ i' = i + 1 /\ j' = i + 1 /\ read' = 0 /\ invertedLists_' = {}
  /\ UNCHANGED <<input, sorter_, db_, before, construction, pc>>

(* finish: with no pair at all nothing else is done. *)
Finish ==
  /\ pc = "searching" /\ AtEnd /\ i = dataSetNum
  /\ pc' = IF sorter_ = NoPairs THEN "finished" ELSE "constructing"
  /\ unread' = Sorted /\ lastIndexId' = NoDoc /\ listData' = {} /\ failed' = {}
  /\ UNCHANGED <<input, search, sorter_, db_, before>>

-----------------------------------------------------------------------------
Before(d, e) == d[1] < e[1] \/ (d[1] = e[1] /\ d[2] < e[2])

Injective(s) == \A m, n \in DOMAIN s : m # n => s[m] # s[n]
Least(m, n) == IF m < n THEN m ELSE n

(* The best of S for d, at most Limit; equal weights come in any order.    *)
BestLists(d, S) ==
  {s \in [1 .. Least(Limit, Cardinality(S)) -> S] :
     /\ Injective(s)
     /\ \A m, n \in DOMAIN s : m < n => weight[<<d, s[m]>>] >= weight[<<d, s[n]>>]
     /\ \A e \in S : (\A m \in DOMAIN s : s[m] # e) =>
          \A m \in DOMAIN s : weight[<<d, s[m]>>] >= weight[<<d, e>>]}

(* updateSimIndex: the best replace what the database had.  Nobody looks   *)
(* at its result: where the database is not open, or refuses the update,   *)
(* the list is lost.                                                       *)
UpdateSimIndex(d, list) ==
  \/ /\ db_' \in {[db_ EXCEPT ![d] = s] : s \in BestLists(d, list)}
     /\ UNCHANGED failed
  \/ /\ failed' = failed \cup {d}
     /\ UNCHANGED db_

(* The pairs come sorted by their first document.                          *)
NextPairs == {p \in unread : \A q \in unread : ~Before(q[1], p[1])}

(* Mutant: The list is not cleared for the next document. *)
NextPair_NotCleared ==
  /\ pc = "constructing"
  /\ \E p \in NextPairs :
       /\ \/ /\ p[1] = lastIndexId \/ lastIndexId = NoDoc
             /\ UNCHANGED <<db_, failed>>
          \/ /\ p[1] # lastIndexId /\ lastIndexId # NoDoc
             /\ UpdateSimIndex(lastIndexId, listData)
       /\ listData' = listData \cup {p[2]}
       /\ lastIndexId' = p[1]
       /\ unread' = unread \ {p}
  /\ UNCHANGED <<input, search, sorter_, before, pc>>

(* constructSimIndex, one pair at a time: the first pair of a document     *)
(* has the list of the one before written and begins a list.               *)
NextPair ==
  /\ pc = "constructing"
  /\ \E p \in NextPairs :
       /\ \/ /\ p[1] = lastIndexId
             /\ listData' = listData \cup {p[2]}
             /\ UNCHANGED <<db_, failed>>
          \/ /\ p[1] # lastIndexId
             /\ listData' = {p[2]}
             /\ \/ lastIndexId # NoDoc /\ UpdateSimIndex(lastIndexId, listData)
                \/ lastIndexId = NoDoc /\ UNCHANGED <<db_, failed>>
       /\ lastIndexId' = p[1]
       /\ unread' = unread \ {p}
  /\ UNCHANGED <<input, search, sorter_, before, pc>>

(* The last list is written after the loop.  The program ends, having      *)
(* constructed the index or not; the sorter's file is removed by the next  *)
(* one.                                                                    *)
EndConstruction ==
  /\ pc = "constructing" /\ unread = {}
  /\ UpdateSimIndex(lastIndexId, listData)
  /\ pc' = "finished"
  /\ UNCHANGED <<input, search, sorter_, before, unread, lastIndexId, listData>>

Stop ==
  /\ pc # "idle"
  /\ size' = <<1>> /\ maxDoc' = 0 /\ weight' = NoPairs
  /\ i' = 1 /\ j' = 1 /\ read' = 0 /\ invertedLists_' = {}
  /\ sorter_' = NoPairs
  /\ unread' = {} /\ lastIndexId' = NoDoc /\ listData' = {} /\ failed' = {}
  /\ before' = db_ /\ pc' = "idle"
  /\ UNCHANGED db_

Init ==
  /\ size = <<1>> /\ maxDoc = 0 /\ weight = NoPairs
  /\ i = 1 /\ j = 1 /\ read = 0 /\ invertedLists_ = {}
  /\ sorter_ = NoPairs
  /\ unread = {} /\ lastIndexId = NoDoc /\ listData = {} /\ failed = {}
  /\ db_ = [d \in Doc |-> <<>>] /\ before = db_ /\ pc = "idle"

(* What the program does by itself. *)
Run ==
  \/ ReadVector \/ NextDataSet \/ NextIndex \/ Finish
  \/ NextPair \/ EndConstruction

Next == BeginSearch \/ Run \/ Stop

Spec == Init /\ [][Next]_vars
FairSpec == Spec /\ WF_vars(Run)
-----------------------------------------------------------------------------
(* Every variable has its type. *)
TypeOK ==
  /\ size \in Inputs \cup {<<1>>} /\ maxDoc \in Nat /\ weight \in [Pairs -> Nat]
  /\ i \in 1 .. dataSetNum /\ j \in i .. dataSetNum /\ read \in 0 .. size[j]
  /\ invertedLists_ \subseteq Doc
  /\ sorter_ \in [Pairs -> Nat]
  /\ DOMAIN db_ = Doc /\ DOMAIN before = Doc
  /\ unread \subseteq Pairs /\ lastIndexId \in Doc \cup {NoDoc}
  /\ listData \subseteq Doc /\ failed \subseteq Doc
  /\ pc \in {"idle", "searching", "constructing", "finished"}

(* The documents of the input. *)
Given ==
  {d \in Doc : /\ d[1] <= dataSetNum /\ d[2] <= size[d[1]]
               /\ maxDoc # 0 => d[2] <= maxDoc}

Similar == {p \in Given \X Given : p[1] # p[2] /\ weight[p] > thresholdSim_}

Searching == pc = "searching"
SearchStatus == IF Searching THEN "searching" ELSE IF pc = "idle" THEN "none" ELSE "done"

Promise == INSTANCE PairSearch WITH
  status <- SearchStatus,
  wanted <- IF Searching THEN Similar ELSE {},
  reported <- IF Searching THEN sorter_ ELSE NoPairs

(* However the vectors are spread over data sets, each pair above the      *)
(* threshold is put exactly once in each direction, and no other.          *)
EachPairOnce == Promise!Init /\ [][Promise!Next]_(Promise!vars)

(* The loops over the data sets end. *)
SearchEnds == Promise!SearchEnds

(* When the program is through, the database has the best Limit of each    *)
(* document that is similar to another, and what it had of the others and  *)
(* of those whose update failed.                                           *)
IndexIsBest ==
  pc = "finished" =>
    \A d \in Doc :
      LET S == {e \in Doc : <<d, e>> \in Similar}
      IN  IF S = {} \/ d \in failed THEN db_[d] = before[d] ELSE db_[d] \in BestLists(d, S)
=============================================================================
