---------------------------- MODULE DupDetector ----------------------------
(***************************************************************************)
(* The duplicate detector (duplicate-detection/dup_detector.h).            *)
(*                                                                         *)
(* Documents are inserted with their fingerprints; an analysis merges the  *)
(* new ones into the stored ones and compares, table by table, those that  *)
(* agree on the table's mask.  Pairs found go into the group table, here   *)
(* the abstract relation of DupPartition.  With enable_knn_ the stored     *)
(* fingerprints are also kept in memory and inserts may come from another  *)
(* thread; otherwise they are read from the file and the inserts wait in a *)
(* file of their own.                                                      *)
(*                                                                         *)
(* An analysis is cut where its lock is taken, where a file is written and *)
(* at each pair: a crash, or an insert, can come in between.  Documents    *)
(* come once and in the order of their numbers, so a vector of             *)
(* fingerprints is the set of its items.                                   *)
(***************************************************************************)
EXTENDS Integers, Sequences, FiniteSets

CONSTANTS
  DocId,             (* documents are numbered in the order they come      *)
  Fp,                (* the fingerprint of each document, a set of bits    *)
  Length,            (* its length                                         *)
  GetK(_),           (* GetK_: how many bits may differ at this length     *)
  AttachDd,          (* the pairs whose attachments do not forbid it       *)
  Masks,             (* the masks of table_list_, as FpTables makes them   *)
  MaxTables,         (* maxt_: 0, or how many tables to use                *)
  TrashMins,         (* what trash_min_ may be                             *)
  InsertWhileMarked  (* may an insert slip in before the merge's lock?     *)

ASSUME DocIdAssumption == DocId \subseteq Nat
ASSUME AttachDdAssumption == AttachDd \subseteq DocId \X DocId
ASSUME MasksAssumption == Masks \in Seq(SUBSET Nat) /\ Masks # <<>>
ASSUME MaxTablesAssumption == MaxTables \in Nat

VARIABLES
  enable_knn_, fp_only_,  (* as constructed                                *)
  trash_min_,             (* as set                                        *)
  fp_vec_,                (* fingerprints in memory: items [docid, status] *)
  working,                (* working_fp_vec_, or the file fp_working       *)
  removed_docs_,
  storage,                (* the documents of the file fp                  *)
  redo_file, redo_,       (* redo is asked for, on disk and in memory      *)
  vec_all,                (* the fingerprints under analysis               *)
  tid, todo,              (* the table, and its pairs not yet added        *)
  same, saved,            (* the group table, see DupPartition             *)
  pc,
  unsaved, unflushed,     (* history: the last Save, the last Flush failed *)
  interrupted,            (* history: an analysis was cut off since redo   *)
  removed, leaving,       (* history: the documents RemoveDoc was called   *)
  gone, settled           (* for; see RemoveDoc for the others             *)

mode == <<enable_knn_, fp_only_, trash_min_>>
analysis == <<vec_all, tid, todo>>
groups == <<same, saved>>
removals == <<removed, leaving, gone, settled>>
history == <<unsaved, unflushed, interrupted, removals>>
vars == <<mode, fp_vec_, working, removed_docs_, storage, redo_file, redo_,
          analysis, groups, pc, history>>

Group == INSTANCE DupPartition WITH Relations <- {}

Old == 0
New == 1
ItemType == [docid : DocId, status : {Old, New}]
Items(docs, status) == {[docid |-> d, status |-> status] : d \in docs}
Docs(items) == {it.docid : it \in items}
Marked(items) == Items(Docs(items), New)

(* The documents that were analysed: in memory or in the file. *)
Stored == IF enable_knn_ THEN Docs(fp_vec_) ELSE storage
Removed == {removed_docs_[i] : i \in DOMAIN removed_docs_}

TableCount == IF MaxTables > 0 /\ MaxTables < Len(Masks) THEN MaxTables ELSE Len(Masks)

HammingDist(d, e) == Cardinality((Fp[d] \ Fp[e]) \cup (Fp[e] \ Fp[d]))

(* Mutant: The shorter document decides how much may differ. *)
IsDuplicated_Shorter(d, e) ==
  /\ HammingDist(d, e) <= GetK(IF Length[d] < Length[e] THEN Length[d] ELSE Length[e])
  /\ <<d, e>> \in AttachDd

(* IsDuplicated_: the longer document decides how much may differ. *)
IsDuplicated(d, e) ==
  /\ HammingDist(d, e) <= GetK(IF Length[d] > Length[e] THEN Length[d] ELSE Length[e])
  /\ <<d, e>> \in AttachDd

MaskedBits(d, t) == Fp[d] \cap Masks[t]

(* Mutant: One document less is enough. *)
SkipTrash_OneLess(t, size) == t # 1 /\ size + 1 >= trash_min_

SkipTrash(t, size) == t # 1 /\ size >= trash_min_

(* FindDD_: the fingerprints that agree with that of d on the mask. *)
Agreeing(items, t, d) == {it \in items : MaskedBits(it.docid, t) = MaskedBits(d, t)}

(* FindDD_ and PairWiseCompare_: the pairs one table finds. *)
FindDD(items, t) ==
  {pair \in Docs(items) \X Docs(items) :
     LET range == Agreeing(items, t, pair[1])
     IN  /\ pair[1] < pair[2] /\ pair[2] \in Docs(range)
         /\ ~SkipTrash(t, Cardinality(range))
         /\ \E it \in range : it.docid \in {pair[1], pair[2]} /\ it.status = New
         /\ IsDuplicated(pair[1], pair[2])}

-----------------------------------------------------------------------------
(* Plausible bugs, which the runs are shown to catch.                      *)

(* Mutant: Of the removed documents only the first is dropped. *)
Dropped_First(d) == removed_docs_ # <<>> /\ removed_docs_[1] = d

(* Mutant: The status of the fingerprints read from the file is not set. *)
Open_StatusNotSet ==
  /\ pc = "down"
  /\ Group!Restore
  /\ working' = {}
  /\ fp_vec_' = IF enable_knn_ THEN Items(storage, 2) ELSE {}
  /\ redo_' = redo_file
  /\ redo_file' = FALSE
  /\ unsaved' = FALSE
  /\ pc' = "idle"
  /\ UNCHANGED <<mode, removed_docs_, storage, analysis, unflushed, interrupted, removals>>

(* Mutant: The fingerprints are written before the new ones join them. *)
SaveFps_Early ==
  /\ pc = "merged"
  /\ \/ storage' = {it.docid : it \in {x \in vec_all : x.status = Old}} /\ unsaved' = FALSE
     \/ UNCHANGED storage /\ unsaved' = TRUE
  /\ \/ fp_only_ /\ pc' = "idle" /\ vec_all' = {}
     \/ ~fp_only_ /\ pc' = "saved" /\ UNCHANGED vec_all
  /\ settled' = IF fp_only_ /\ ~unsaved' THEN gone ELSE settled
  /\ UNCHANGED <<mode, fp_vec_, working, removed_docs_, redo_file, redo_, tid, todo,
                 groups, unflushed, interrupted, removed, leaving, gone>>

-----------------------------------------------------------------------------
(* Open: what was inserted and not analysed is thrown away; the request to *)
(* redo is taken off the disk.  The group table is loaded by its owner.    *)
Open ==
  /\ pc = "down"
  /\ Group!Restore
  /\ working' = {}
  /\ fp_vec_' = IF enable_knn_ THEN Items(storage, Old) ELSE {}
  /\ redo_' = redo_file
  /\ redo_file' = FALSE
  /\ unsaved' = FALSE
  /\ pc' = "idle"
  /\ UNCHANGED <<mode, removed_docs_, storage, analysis, unflushed, interrupted, removals>>

(* InsertDoc: documents come in the order of their numbers and do not come *)
(* back after they were removed.  Only with enable_knn_ may an analysis be *)
(* going on, and it holds the lock while it merges.                        *)
InsertDoc(d) ==
  /\ \/ pc = "idle"
     \/ enable_knn_ /\ pc \in {"merged", "saved", "comparing", "flushing"}
     \/ enable_knn_ /\ pc = "marked" /\ InsertWhileMarked
  /\ \A x \in storage \cup Docs(fp_vec_) \cup Docs(working) : x < d
  /\ d \notin removed
  /\ working' = working \cup Items({d}, Old)
  /\ UNCHANGED <<mode, fp_vec_, removed_docs_, storage, redo_file, redo_, analysis,
                 groups, pc, history>>

(* RemoveDoc: any document that was inserted, once before each round of    *)
(* FinishRemoveDocs.  The history goes by what is called and written:      *)
(* `leaving' are documents removed after their analysis and in the order   *)
(* of their numbers; FinishRemoveDocs makes them `gone'; and those are     *)
(* `settled', and outlive a stop, when both files have been written since. *)
RemoveDoc(d) ==
  /\ pc = "idle"
  /\ d \in Stored \cup Docs(working)
  /\ d \notin Removed
  /\ removed_docs_' = Append(removed_docs_, d)
  /\ \/ fp_only_ /\ UNCHANGED groups
     \/ ~fp_only_ /\ Group!Remove(d)
  /\ removed' = removed \cup {d}
  /\ leaving' = leaving \cup {x \in {d} \cap Stored : \A y \in Removed : y < x}
  /\ UNCHANGED <<mode, fp_vec_, working, storage, redo_file, redo_, analysis, pc,
                 unsaved, unflushed, interrupted, gone, settled>>

(* FinishRemoveDocs passes once over both lists, which are in order: a     *)
(* document is dropped unless a larger one was removed before it.          *)
Dropped(d) ==
  \E i \in DOMAIN removed_docs_ :
    removed_docs_[i] = d /\ \A j \in 1 .. (i - 1) : removed_docs_[j] <= d

FinishRemoveDocs ==
  /\ pc = "idle"
  /\ removed_docs_ # <<>> /\ Stored # {}
  /\ LET new_fps == {d \in Stored : ~Dropped(d)}
     IN  \/ storage' = new_fps /\ unsaved' = FALSE
         \/ UNCHANGED storage /\ unsaved' = TRUE
  /\ fp_vec_' = IF enable_knn_ THEN {it \in fp_vec_ : ~Dropped(it.docid)} ELSE {}
  /\ removed_docs_' = <<>>
  /\ leaving' = {}
  /\ gone' = IF unsaved' /\ ~enable_knn_ THEN gone ELSE gone \cup leaving
  /\ settled' = IF fp_only_ /\ ~unsaved' THEN gone' ELSE settled
  /\ UNCHANGED <<mode, working, redo_file, redo_, analysis, groups, pc, unflushed, interrupted,
                 removed>>

(* RunDdAnalysis begins: what came in since the last time is marked as     *)
(* new, without the lock.  FinishRemoveDocs is called after the removals   *)
(* and before the analysis.                                                *)
Mark(force) ==
  /\ pc = "idle"
  /\ force \/ working # {}
  /\ Removed \cap Stored = {}
  /\ working' = Marked(working)
  /\ pc' = "marked"
  /\ UNCHANGED <<mode, fp_vec_, removed_docs_, storage, redo_file, redo_, analysis,
                 groups, history>>

(* Under the lock: the new fingerprints join the others, and on a redo all *)
(* of them count as new.                                                   *)
Merge ==
  LET old == IF enable_knn_ THEN fp_vec_ ELSE Items(storage, Old)
      merged == old \cup working
      items == IF redo_ THEN Marked(merged) ELSE merged
  IN  /\ pc = "marked"
      /\ vec_all' = items
      /\ fp_vec_' = IF enable_knn_ THEN items ELSE {}
      /\ working' = {}
      /\ redo_' = FALSE
      /\ pc' = "merged"
      /\ UNCHANGED <<mode, removed_docs_, storage, redo_file, tid, todo, groups, history>>

(* The fingerprints are written; that it failed is only logged. *)
SaveFps ==
  /\ pc = "merged"
  /\ \/ storage' = Docs(vec_all) /\ unsaved' = FALSE
     \/ UNCHANGED storage /\ unsaved' = TRUE
  /\ \/ fp_only_ /\ pc' = "idle" /\ vec_all' = {}
     \/ ~fp_only_ /\ pc' = "saved" /\ UNCHANGED vec_all
  /\ settled' = IF fp_only_ /\ ~unsaved' THEN gone ELSE settled
  /\ UNCHANGED <<mode, fp_vec_, working, removed_docs_, redo_file, redo_, tid, todo,
                 groups, unflushed, interrupted, removed, leaving, gone>>

(* FindDD_ of the first table, and of the next when one is through. *)
StartTable ==
  /\ \/ pc = "saved" /\ tid' = 1
     \/ pc = "comparing" /\ todo = {} /\ tid < TableCount /\ tid' = tid + 1
  /\ todo' = FindDD(vec_all, tid')
  /\ pc' = "comparing"
  /\ UNCHANGED <<mode, fp_vec_, working, removed_docs_, storage, redo_file, redo_, vec_all,
                 groups, history>>

(* A pair is added to the groups, under their lock. *)
AddPair ==
  /\ pc = "comparing"
  /\ \E pair \in todo :
       /\ Group!Discover(pair[1], pair[2])
       /\ todo' = todo \ {pair}
  /\ UNCHANGED <<mode, fp_vec_, working, removed_docs_, storage, redo_file, redo_, vec_all,
                 tid, pc, history>>

(* The groups are written when the tables are through: opening the file    *)
(* empties it, or fails and ends the analysis.                             *)
Finished ==
  /\ vec_all' = {} /\ tid' = 0 /\ todo' = {}
  /\ interrupted' = IF \A it \in vec_all : it.status = New
                    THEN FALSE ELSE interrupted

BeginFlush ==
  /\ pc = "comparing" /\ todo = {} /\ tid = TableCount
  /\ \/ /\ Group!BeginSave
        /\ pc' = "flushing"
        /\ UNCHANGED unflushed
     \/ /\ pc' = "idle"
        /\ unflushed' = TRUE
        /\ UNCHANGED groups
  /\ Finished
  /\ UNCHANGED <<mode, fp_vec_, working, removed_docs_, storage, redo_file, redo_,
                 unsaved, removals>>

(* The groups are written and the file is closed; when that fails, what    *)
(* the file holds cannot be read back.                                     *)
EndFlush ==
  /\ pc = "flushing"
  /\ \/ /\ Group!EndSave
        /\ unflushed' = FALSE
        /\ settled' = IF unsaved THEN settled ELSE gone
     \/ /\ unflushed' = TRUE
        /\ UNCHANGED <<groups, settled>>
  /\ pc' = "idle"
  /\ UNCHANGED <<mode, fp_vec_, working, removed_docs_, storage, redo_file, redo_, analysis,
                 unsaved, interrupted, removed, leaving, gone>>

(* The program ends at any point; only the files are left.  An analysis    *)
(* whose fingerprints were written and whose groups were not is cut off.   *)
Crash ==
  /\ pc # "down"
  /\ Group!Crash
  /\ fp_vec_' = {} /\ working' = {} /\ removed_docs_' = <<>>
  /\ redo_' = FALSE
  /\ vec_all' = {} /\ tid' = 0 /\ todo' = {}
  /\ unsaved' = FALSE /\ unflushed' = FALSE
  /\ interrupted' = (interrupted \/ unflushed \/ pc \in {"saved", "comparing", "flushing"})
  /\ leaving' = {} /\ gone' = settled
  /\ pc' = "down"
  /\ UNCHANGED <<mode, storage, redo_file, removed, settled>>

(* While the program is down its operator may ask for a redo, or delete    *)
(* the file of the groups, with a redo if there is anything to lose.       *)
AskRedo ==
  /\ pc = "down" /\ ~redo_file
  /\ redo_file' = TRUE
  /\ UNCHANGED <<mode, fp_vec_, working, removed_docs_, storage, redo_, analysis, groups,
                 pc, history>>

DiscardGroups ==
  /\ pc = "down" /\ saved # {}
  /\ Group!Discard
  /\ interrupted' = TRUE
  /\ UNCHANGED <<mode, fp_vec_, working, removed_docs_, storage, redo_file, redo_, analysis,
                 pc, unsaved, unflushed, removals>>

Init ==
  /\ Group!Init
  /\ enable_knn_ \in BOOLEAN /\ fp_only_ \in BOOLEAN /\ (fp_only_ => enable_knn_)
  /\ trash_min_ \in TrashMins
  /\ fp_vec_ = {} /\ working = {} /\ removed_docs_ = <<>> /\ storage = {}
  /\ redo_file = FALSE /\ redo_ = FALSE
  /\ vec_all = {} /\ tid = 0 /\ todo = {}
  /\ pc = "down"
  /\ unsaved = FALSE /\ unflushed = FALSE /\ interrupted = FALSE
  /\ removed = {} /\ leaving = {} /\ gone = {} /\ settled = {}

Next ==
  \/ Open \/ Crash \/ AskRedo \/ DiscardGroups
  \/ \E d \in DocId : InsertDoc(d) \/ RemoveDoc(d)
  \/ FinishRemoveDocs
  \/ \E force \in BOOLEAN : Mark(force)
  \/ Merge \/ SaveFps \/ StartTable \/ AddPair \/ BeginFlush \/ EndFlush

Spec == Init /\ [][Next]_vars
-----------------------------------------------------------------------------
(* What duplicates are, whatever the tables: fingerprints within the       *)
(* distance allowed for the longer of the two documents.                   *)
MaxLength(d, e) == IF Length[d] > Length[e] THEN Length[d] ELSE Length[e]

Near ==
  {p \in AttachDd : HammingDist(p[1], p[2]) <= GetK(MaxLength(p[1], p[2]))}

(* Every variable has its type. *)
TypeOK ==
  /\ enable_knn_ \in BOOLEAN /\ fp_only_ \in BOOLEAN /\ trash_min_ \in TrashMins
  /\ fp_vec_ \subseteq ItemType /\ working \subseteq ItemType /\ vec_all \subseteq ItemType
  /\ removed_docs_ \in Seq(DocId) /\ storage \subseteq DocId
  /\ redo_file \in BOOLEAN /\ redo_ \in BOOLEAN
  /\ tid \in 0 .. TableCount /\ todo \subseteq DocId \X DocId
  /\ same \subseteq DocId \X DocId
  /\ saved = {Group!NotSaved} \/ saved \subseteq DocId \X DocId
  /\ pc \in {"down", "idle", "marked", "merged", "saved", "comparing", "flushing"}
  /\ unsaved \in BOOLEAN /\ unflushed \in BOOLEAN /\ interrupted \in BOOLEAN
  /\ removed \subseteq DocId /\ leaving \subseteq DocId
  /\ gone \subseteq DocId /\ settled \subseteq DocId

(* Documents are in one group only if a chain of duplicates links them: no *)
(* group, in memory or on disk, is partly inside a set of documents which  *)
(* has no duplicates outside.                                              *)
Closed(S, pairs) == \A p \in pairs : p[1] \in S <=> p[2] \in S

GroupsAreChains ==
  \A S \in SUBSET DocId : Closed(S, Near) =>
    /\ Closed(S, same)
    /\ saved # {Group!NotSaved} => Closed(S, saved)

(* Between analyses every two duplicates that are stored and were not      *)
(* removed are in one group, in either order of arrival and over restarts, *)
(* unless an analysis was cut off and none was done again with redo, or    *)
(* each mask on which they agree, which is not the first, is one on which  *)
(* trash_min_ documents agree with them.                                   *)
Standing == Stored \ removed

RangeSize(d, t) == Cardinality({e \in DocId : MaskedBits(e, t) = MaskedBits(d, t)})

MayBeMissed(d, e) ==
  \A t \in 1 .. TableCount :
    MaskedBits(d, t) = MaskedBits(e, t) => t > 1 /\ RangeSize(d, t) >= trash_min_

EveryPairIsFound ==
  pc = "idle" /\ ~fp_only_ /\ ~interrupted =>
    \A d, e \in Standing :
      d < e /\ <<d, e>> \in Near => <<d, e>> \in same \/ MayBeMissed(d, e)

(* A document that is gone is neither stored nor in a group again, over    *)
(* inserts, analyses and redos; one whose removal both files hold not over *)
(* stops either.  Not gone are documents removed before their analysis,    *)
(* or after a larger one in the same round, or whose FinishRemoveDocs      *)
(* could not write and had no copy in memory: those do come back.          *)
RemovedStayOut ==
  pc \in {"idle", "comparing"} =>
    \A d \in gone : d \notin Stored /\ <<d, d>> \notin same

(* Between analyses the file of fingerprints is what is in memory. *)
StorageIsCurrent ==
  pc = "idle" /\ enable_knn_ /\ ~unsaved => storage = Docs(fp_vec_)

(* "set status = new" (dup_detector.h:364): all that was inserted since    *)
(* the last analysis counts as new in this one.                            *)
InsertedAreNew ==
  [][Merge => \A it \in vec_all' : it.docid \notin Stored => it.status = New]_vars
=============================================================================
