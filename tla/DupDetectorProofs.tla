------------------------- MODULE DupDetectorProofs -------------------------
(***************************************************************************)
(* Proofs about DupDetector: whatever the documents, fingerprints, masks   *)
(* and interleavings, every variable has its type, and documents are put   *)
(* in one group only if a chain of duplicates links them, in memory and on *)
(* disk, over crashes and restarts; what is removed stays out of storage   *)
(* and groups, memory and file agree, and no pair of duplicates is missed. *)
(***************************************************************************)
EXTENDS DupDetector, FiniteSetTheorems, TLAPS

(* The pairs that wait to be added are duplicates: what FindDD_ finds.     *)
TodoIsNear == todo \subseteq Near

(* Groups closed under the pairs found so far stay so, one pair at a time. *)
SoundInv == TypeOK /\ TodoIsNear /\ GroupsAreChains

(***************************************************************************)
(* The operators.                                                          *)
(***************************************************************************)
LEMMA DocsOfItems ==
  ASSUME NEW items, items \subseteq ItemType
  PROVE  Docs(items) \subseteq DocId
BY DEF Docs, ItemType

LEMMA ItemsAreItems ==
  ASSUME NEW docs, docs \subseteq DocId, NEW status \in {Old, New}
  PROVE  Items(docs, status) \subseteq ItemType
BY DEF Items, ItemType

LEMMA MarkedAreItems ==
  ASSUME NEW items, items \subseteq ItemType
  PROVE  Marked(items) \subseteq ItemType
<1>1. Docs(items) \subseteq DocId
  BY DocsOfItems
<1>2. New \in {Old, New}
  OBVIOUS
<1> QED BY <1>1, <1>2, ItemsAreItems DEF Marked

(* FindDD_ finds pairs of stored documents that are duplicates. *)
LEMMA FoundAreNear ==
  ASSUME NEW items, items \subseteq ItemType, NEW t
  PROVE  FindDD(items, t) \subseteq Near /\ FindDD(items, t) \subseteq DocId \X DocId
<1>1. Docs(items) \subseteq DocId
  BY DocsOfItems
<1> SUFFICES ASSUME NEW pair \in FindDD(items, t)
             PROVE  pair \in Near /\ pair \in DocId \X DocId
  OBVIOUS
<1>2. pair \in Docs(items) \X Docs(items) /\ IsDuplicated(pair[1], pair[2])
  BY DEF FindDD
<1>3. pair \in DocId \X DocId /\ pair = <<pair[1], pair[2]>>
  BY <1>1, <1>2
<1>4. pair \in AttachDd
  BY <1>2, <1>3 DEF IsDuplicated
<1>5. HammingDist(pair[1], pair[2]) <= GetK(MaxLength(pair[1], pair[2]))
  BY <1>2 DEF IsDuplicated, MaxLength
<1> QED BY <1>3, <1>4, <1>5 DEF Near

LEMMA ThereIsATable == TableCount \in Nat \ {0}
<1>1. Len(Masks) \in Nat \ {0}
  BY MasksAssumption
<1> QED BY <1>1, MaxTablesAssumption DEF TableCount

(* Types of the groups' relation. *)
Pairs == DocId \X DocId

(* A pair of two documents that no closed set separates may be added.      *)
LEMMA DiscoverKeepsClosed ==
  ASSUME same \subseteq Pairs, NEW d \in DocId, NEW e \in DocId,
         NEW S \in SUBSET DocId, Closed(S, same), d \in S <=> e \in S,
         Group!Discover(d, e)
  PROVE  Closed(S, same') /\ same' \subseteq Pairs
<1> DEFINE joined == Group!ClassOf(d) \cup Group!ClassOf(e)
<1>1. same' = same \cup (joined \X joined)
  BY DEF Group!Discover
<1>2. \A x \in joined : x \in DocId /\ (x \in S <=> d \in S)
  <2> SUFFICES ASSUME NEW x \in joined PROVE x \in DocId /\ (x \in S <=> d \in S)
    OBVIOUS
  <2>1. CASE x \in Group!ClassOf(d)
    BY <2>1 DEF Group!ClassOf, Closed
  <2>2. CASE x \in Group!ClassOf(e)
    BY <2>2 DEF Group!ClassOf, Closed
  <2> QED BY <2>1, <2>2
<1>3. \A p \in joined \X joined : p \in Pairs /\ (p[1] \in S <=> p[2] \in S)
  BY <1>2 DEF Pairs
<1> HIDE DEF joined
<1> QED BY <1>1, <1>3 DEF Closed

-----------------------------------------------------------------------------
(***************************************************************************)
(* Types.                                                                  *)
(***************************************************************************)
LEMMA InitType == Init => TypeOK
<1> SUFFICES ASSUME Init PROVE TypeOK
  OBVIOUS
<1>1. tid \in 0 .. TableCount
  BY ThereIsATable DEF Init
<1>2. enable_knn_ \in BOOLEAN /\ fp_only_ \in BOOLEAN /\ trash_min_ \in TrashMins
  BY DEF Init
<1>3. redo_file \in BOOLEAN /\ redo_ \in BOOLEAN
      /\ unsaved \in BOOLEAN /\ unflushed \in BOOLEAN /\ interrupted \in BOOLEAN
  BY DEF Init
<1>4. fp_vec_ = {} /\ working = {} /\ vec_all = {} /\ storage = {} /\ todo = {}
      /\ removed_docs_ \in Seq(DocId) /\ same = {} /\ saved = {}
      /\ removed = {} /\ leaving = {} /\ gone = {} /\ settled = {} /\ pc = "down"
  BY DEF Init, Group!Init
<1> QED BY <1>1, <1>2, <1>3, <1>4 DEF TypeOK

LEMMA OpenType == TypeOK /\ Open => TypeOK'
<1> SUFFICES ASSUME TypeOK, Open PROVE TypeOK'
  OBVIOUS
<1>1. Items(storage, Old) \subseteq ItemType
  BY ItemsAreItems DEF TypeOK
<1>2. fp_vec_' \subseteq ItemType
  BY <1>1 DEF Open
<1>3. same' \subseteq DocId \X DocId /\ saved' = saved
  BY DEF Open, TypeOK, Group!Restore
<1> QED BY <1>2, <1>3 DEF Open, TypeOK, mode, analysis, removals

LEMMA InsertType == ASSUME TypeOK, NEW d \in DocId, InsertDoc(d) PROVE TypeOK'
<1>1. Items({d}, Old) \subseteq ItemType
  BY ItemsAreItems
<1> QED BY <1>1 DEF InsertDoc, TypeOK, mode, analysis, groups, history, removals

LEMMA RemoveType == ASSUME TypeOK, NEW d \in DocId, RemoveDoc(d) PROVE TypeOK'
<1>1. removed_docs_' \in Seq(DocId)
  BY DEF RemoveDoc, TypeOK
<1>2. same' \subseteq same /\ saved' = saved
  BY DEF RemoveDoc, groups, Group!Remove
<1>3. removed' \subseteq DocId /\ leaving' \subseteq DocId /\ gone' = gone /\ settled' = settled
  BY DEF RemoveDoc, TypeOK
<1> QED BY <1>1, <1>2, <1>3 DEF RemoveDoc, TypeOK, mode, analysis

LEMMA FinishRemoveType == TypeOK /\ FinishRemoveDocs => TypeOK'
<1> SUFFICES ASSUME TypeOK, FinishRemoveDocs PROVE TypeOK'
  OBVIOUS
<1>1. Stored \subseteq DocId
  BY DocsOfItems DEF Stored, TypeOK
<1>2. storage' \subseteq DocId /\ unsaved' \in BOOLEAN
  BY <1>1 DEF FinishRemoveDocs, TypeOK
<1>3. fp_vec_' \subseteq ItemType /\ removed_docs_' \in Seq(DocId)
  BY DEF FinishRemoveDocs, TypeOK
<1>4. leaving' \subseteq DocId /\ gone' \subseteq DocId /\ settled' \subseteq DocId
  BY DEF FinishRemoveDocs, TypeOK
<1> QED BY <1>2, <1>3, <1>4 DEF FinishRemoveDocs, TypeOK, mode, analysis, groups

LEMMA MarkType == ASSUME TypeOK, NEW force, Mark(force) PROVE TypeOK'
<1>1. working' \subseteq ItemType
  BY MarkedAreItems DEF Mark, TypeOK
<1> QED BY <1>1 DEF Mark, TypeOK, mode, analysis, groups, history, removals

LEMMA MergeType == TypeOK /\ Merge => TypeOK'
<1> SUFFICES ASSUME TypeOK, Merge PROVE TypeOK'
  OBVIOUS
<1> DEFINE old == IF enable_knn_ THEN fp_vec_ ELSE Items(storage, Old)
           merged == old \cup working
           items == IF redo_ THEN Marked(merged) ELSE merged
<1>1. merged \subseteq ItemType
  BY ItemsAreItems DEF TypeOK
<1>2. items \subseteq ItemType
  BY <1>1, MarkedAreItems
<1>3. vec_all' = items /\ fp_vec_' = (IF enable_knn_ THEN items ELSE {}) /\ working' = {}
  BY DEF Merge
<1> HIDE DEF items, merged, old
<1>4. vec_all' \subseteq ItemType /\ fp_vec_' \subseteq ItemType /\ working' \subseteq ItemType
  BY <1>2, <1>3
<1> QED BY <1>4 DEF Merge, TypeOK, mode, groups, history, removals

LEMMA SaveType == TypeOK /\ SaveFps => TypeOK'
<1> SUFFICES ASSUME TypeOK, SaveFps PROVE TypeOK'
  OBVIOUS
<1>1. storage' \subseteq DocId /\ unsaved' \in BOOLEAN
  BY DocsOfItems DEF SaveFps, TypeOK
<1>2. vec_all' \subseteq ItemType /\ pc' \in {"idle", "saved"} /\ settled' \subseteq DocId
  BY DEF SaveFps, TypeOK
<1> QED BY <1>1, <1>2 DEF SaveFps, TypeOK, mode, groups

LEMMA StartTableType == TypeOK /\ StartTable => TypeOK'
<1> SUFFICES ASSUME TypeOK, StartTable PROVE TypeOK'
  OBVIOUS
<1>1. tid' \in 0 .. TableCount
  BY ThereIsATable DEF StartTable, TypeOK
<1>2. todo' \subseteq DocId \X DocId
  BY FoundAreNear DEF StartTable, TypeOK
<1> QED BY <1>1, <1>2 DEF StartTable, TypeOK, mode, groups, history, removals

(* The whole of DocId separates nothing: here the lemma gives the types.   *)
LEMMA AddPairType == TypeOK /\ AddPair => TypeOK'
<1> SUFFICES ASSUME TypeOK, AddPair PROVE TypeOK'
  OBVIOUS
<1>1. PICK pair \in todo : Group!Discover(pair[1], pair[2]) /\ todo' = todo \ {pair}
  BY DEF AddPair
<1>2. pair[1] \in DocId /\ pair[2] \in DocId
  BY <1>1 DEF TypeOK
<1>3. same \subseteq Pairs /\ Closed(DocId, same)
  BY DEF TypeOK, Pairs, Closed
<1>4. same' \subseteq DocId \X DocId
  BY <1>1, <1>2, <1>3, DiscoverKeepsClosed DEF Pairs
<1>5. saved' = saved /\ todo' \subseteq DocId \X DocId
  BY <1>1 DEF Group!Discover, TypeOK
<1> QED BY <1>4, <1>5 DEF AddPair, TypeOK, mode, history, removals

LEMMA BeginFlushType == TypeOK /\ BeginFlush => TypeOK'
<1> SUFFICES ASSUME TypeOK, BeginFlush PROVE TypeOK'
  OBVIOUS
<1>1. tid' \in 0 .. TableCount /\ vec_all' = {} /\ todo' = {}
  BY ThereIsATable DEF BeginFlush, Finished
<1>2. same' = same /\ (saved' = saved \/ saved' = {Group!NotSaved})
  BY DEF BeginFlush, groups, Group!BeginSave
<1>3. interrupted' \in BOOLEAN
  BY DEF BeginFlush, Finished, TypeOK
<1>4. unflushed' \in BOOLEAN /\ pc' \in {"idle", "flushing"}
  BY DEF BeginFlush, TypeOK
<1> QED BY <1>1, <1>2, <1>3, <1>4 DEF BeginFlush, TypeOK, mode, removals

LEMMA EndFlushType == TypeOK /\ EndFlush => TypeOK'
<1> SUFFICES ASSUME TypeOK, EndFlush PROVE TypeOK'
  OBVIOUS
<1>1. same' = same /\ (saved' = same \/ saved' = saved)
  BY DEF EndFlush, groups, Group!EndSave
<1>2. unflushed' \in BOOLEAN /\ settled' \subseteq DocId
  BY DEF EndFlush, TypeOK
<1> QED BY <1>1, <1>2 DEF EndFlush, TypeOK, mode, analysis

LEMMA CrashType == TypeOK /\ Crash => TypeOK'
<1> SUFFICES ASSUME TypeOK, Crash PROVE TypeOK'
  OBVIOUS
<1>1. tid' \in 0 .. TableCount /\ interrupted' \in BOOLEAN
  BY ThereIsATable DEF Crash
<1>2. same' = {} /\ saved' = saved
  BY DEF Crash, Group!Crash
<1>3. /\ removed_docs_' \in Seq(DocId) /\ removed' = removed
      /\ leaving' = {} /\ gone' = settled /\ settled' = settled
  BY DEF Crash
<1> QED BY <1>1, <1>2, <1>3 DEF Crash, TypeOK, mode

LEMMA OperatorType == TypeOK /\ (AskRedo \/ DiscardGroups) => TypeOK'
<1> SUFFICES ASSUME TypeOK, AskRedo \/ DiscardGroups PROVE TypeOK'
  OBVIOUS
<1>1. CASE AskRedo
  BY <1>1 DEF AskRedo, TypeOK, mode, analysis, groups, history, removals
<1>2. CASE DiscardGroups
  BY <1>2 DEF DiscardGroups, TypeOK, mode, analysis, removals, Group!Discard
<1> QED BY <1>1, <1>2

LEMMA StutterType == TypeOK /\ UNCHANGED vars => TypeOK'
BY DEF vars, TypeOK, mode, analysis, groups, history, removals

LEMMA NextType == TypeOK /\ [Next]_vars => TypeOK'
<1> SUFFICES ASSUME TypeOK, [Next]_vars PROVE TypeOK'
  OBVIOUS
<1>1. ASSUME NEW d \in DocId, InsertDoc(d) PROVE TypeOK'
  BY <1>1, InsertType
<1>2. ASSUME NEW d \in DocId, RemoveDoc(d) PROVE TypeOK'
  BY <1>2, RemoveType
<1>3. ASSUME NEW force \in BOOLEAN, Mark(force) PROVE TypeOK'
  BY <1>3, MarkType
<1>4. Open \/ Crash \/ AskRedo \/ DiscardGroups => TypeOK'
  BY OpenType, CrashType, OperatorType
<1>5. FinishRemoveDocs \/ Merge \/ SaveFps => TypeOK'
  BY FinishRemoveType, MergeType, SaveType
<1>6. StartTable \/ AddPair \/ BeginFlush \/ EndFlush => TypeOK'
  BY StartTableType, AddPairType, BeginFlushType, EndFlushType
<1> QED BY <1>1, <1>2, <1>3, <1>4, <1>5, <1>6, StutterType DEF Next

(* Every variable of the detector has its type.                            *)
THEOREM DetectorType == Spec => []TypeOK
BY InitType, NextType, PTL DEF Spec
-----------------------------------------------------------------------------
(***************************************************************************)
(* Soundness: what is closed under the duplicates is closed under groups.  *)
(***************************************************************************)
LEMMA InitSound == Init => SoundInv
<1> SUFFICES ASSUME Init PROVE SoundInv
  OBVIOUS
<1>1. TypeOK
  BY InitType
<1>2. todo = {} /\ same = {} /\ saved = {}
  BY DEF Init, Group!Init
<1> QED BY <1>1, <1>2 DEF SoundInv, TodoIsNear, GroupsAreChains, Closed

(* Steps that add no pair leave the relations as they are, or smaller, or  *)
(* copy one to the other.                                                  *)
LEMMA SmallerIsSound ==
  ASSUME GroupsAreChains, same' \subseteq same \/ (saved # {Group!NotSaved} /\ same' = saved),
         saved' \in {saved, {Group!NotSaved}, same, {}}
  PROVE  GroupsAreChains'
<1> SUFFICES ASSUME NEW S \in SUBSET DocId, Closed(S, Near)
             PROVE  Closed(S, same') /\ (saved' # {Group!NotSaved} => Closed(S, saved'))
  BY DEF GroupsAreChains
<1>1. Closed(S, same) /\ (saved # {Group!NotSaved} => Closed(S, saved))
  BY DEF GroupsAreChains
<1> QED BY <1>1 DEF Closed

LEMMA AddPairSound ==
  ASSUME SoundInv, AddPair
  PROVE  GroupsAreChains' /\ TodoIsNear'
<1>1. PICK pair \in todo : Group!Discover(pair[1], pair[2]) /\ todo' = todo \ {pair}
  BY DEF AddPair
<1>2. pair \in Near /\ pair[1] \in DocId /\ pair[2] \in DocId
  BY <1>1 DEF SoundInv, TypeOK, TodoIsNear
<1>3. same \subseteq Pairs /\ saved' = saved
  BY <1>1 DEF SoundInv, TypeOK, Pairs, Group!Discover
<1>4. ASSUME NEW S \in SUBSET DocId, Closed(S, Near)
      PROVE  Closed(S, same') /\ (saved # {Group!NotSaved} => Closed(S, saved))
  <2>1. Closed(S, same) /\ (saved # {Group!NotSaved} => Closed(S, saved))
    BY <1>4 DEF SoundInv, GroupsAreChains
  <2>2. pair[1] \in S <=> pair[2] \in S
    BY <1>2, <1>4 DEF Closed
  <2>3. Closed(S, same')
    BY <1>1, <1>2, <1>3, <2>1, <2>2, DiscoverKeepsClosed
  <2> QED BY <2>1, <2>3
<1>5. todo' \subseteq Near
  BY <1>1 DEF SoundInv, TodoIsNear
<1> QED BY <1>3, <1>4, <1>5 DEF GroupsAreChains, TodoIsNear

LEMMA OtherStepsSound ==
  ASSUME SoundInv, [Next]_vars, ~AddPair
  PROVE  GroupsAreChains' /\ TodoIsNear'
<1>1. /\ same' \subseteq same \/ (saved # {Group!NotSaved} /\ same' = saved)
      /\ saved' \in {saved, {Group!NotSaved}, same, {}}
  <2>1. CASE Open
    BY <2>1 DEF Open, Group!Restore
  <2>2. CASE \E d \in DocId : RemoveDoc(d)
    BY <2>2 DEF RemoveDoc, groups, Group!Remove
  <2>3. CASE BeginFlush \/ EndFlush
    BY <2>3 DEF BeginFlush, EndFlush, groups, Group!BeginSave, Group!EndSave
  <2>4. CASE Crash \/ DiscardGroups
    BY <2>4 DEF Crash, DiscardGroups, Group!Crash, Group!Discard
  <2>5. CASE UNCHANGED groups
    BY <2>5 DEF groups
  <2>6. (\E d \in DocId : InsertDoc(d)) \/ (\E force \in BOOLEAN : Mark(force))
          => UNCHANGED groups
    BY DEF InsertDoc, Mark
  <2>7. AskRedo \/ FinishRemoveDocs \/ Merge \/ SaveFps \/ StartTable \/ UNCHANGED vars
          => UNCHANGED groups
    BY DEF AskRedo, FinishRemoveDocs, Merge, SaveFps, StartTable, vars
  <2> QED BY <2>1, <2>2, <2>3, <2>4, <2>5, <2>6, <2>7 DEF Next
<1>2. TodoIsNear'
  <2>1. CASE StartTable
    BY <2>1, FoundAreNear DEF StartTable, SoundInv, TypeOK, TodoIsNear
  <2>2. CASE todo' \in {todo, {}}
    BY <2>2 DEF SoundInv, TodoIsNear
  <2>3. (\E d \in DocId : InsertDoc(d) \/ RemoveDoc(d)) \/ (\E force \in BOOLEAN : Mark(force))
          => todo' = todo
    BY DEF InsertDoc, RemoveDoc, Mark, analysis
  <2>4. Open \/ AskRedo \/ DiscardGroups \/ FinishRemoveDocs \/ UNCHANGED vars
          => todo' = todo
    BY DEF Open, AskRedo, DiscardGroups, FinishRemoveDocs, vars, analysis
  <2>5. Merge \/ SaveFps \/ BeginFlush \/ EndFlush \/ Crash => todo' \in {todo, {}}
    BY DEF Merge, SaveFps, BeginFlush, Finished, EndFlush, Crash, analysis
  <2> QED BY <2>1, <2>2, <2>3, <2>4, <2>5 DEF Next
<1> QED BY <1>1, <1>2, SmallerIsSound DEF SoundInv

LEMMA NextSound == SoundInv /\ [Next]_vars => SoundInv'
<1> SUFFICES ASSUME SoundInv, [Next]_vars PROVE SoundInv'
  OBVIOUS
<1>1. TypeOK'
  BY NextType DEF SoundInv
<1>2. CASE AddPair
  BY <1>1, <1>2, AddPairSound DEF SoundInv
<1>3. CASE ~AddPair
  BY <1>1, <1>3, OtherStepsSound DEF SoundInv
<1> QED BY <1>2, <1>3

(* No group, in memory or on disk, ever holds documents that no chain of   *)
(* duplicates links.                                                       *)
THEOREM GroupsAreSound == Spec => []GroupsAreChains
<1>1. SoundInv => GroupsAreChains
  BY DEF SoundInv
<1> QED BY <1>1, InitSound, NextSound, PTL DEF Spec
-----------------------------------------------------------------------------
(***************************************************************************)
(* What was removed stays out, and the file is what is in memory.  It must *)
(* be known of a document that is gone that it is in none of the sets that *)
(* flow into the stored ones, and of the groups that a document in any     *)
(* pair is paired with itself.                                             *)
(***************************************************************************)
Reflexive(rel) == \A p \in rel : <<p[1], p[1]>> \in rel /\ <<p[2], p[2]>> \in rel
Free(d, rel) == \A p \in rel : p[1] # d /\ p[2] # d

RelationsOK ==
  /\ Reflexive(same) /\ (saved # {Group!NotSaved} => Reflexive(saved))
  /\ fp_only_ => same = {} /\ saved = {} /\ pc \in {"down", "idle", "marked", "merged"}

PlacesOK ==
  /\ ~enable_knn_ \/ pc = "down" => fp_vec_ = {}
  /\ pc \notin {"merged", "saved", "comparing"} => vec_all = {}
  /\ pc # "comparing" => todo = {}
  /\ pc = "merged" => IF enable_knn_ THEN vec_all = fp_vec_ ELSE working = {}
  /\ Docs(working) \cap Stored = {}
  /\ todo \subseteq Docs(vec_all) \X Docs(vec_all)

CurrentOK ==
  enable_knn_ /\ ~unsaved /\ pc \notin {"down", "merged"} => storage = Docs(fp_vec_)

RemovalsOK ==
  /\ Removed \subseteq removed
  /\ leaving \subseteq Removed \cap Stored
  /\ leaving # {} => pc = "idle"
  /\ \A d \in leaving : Dropped(d) /\ Free(d, same)

GoneOK ==
  /\ gone \subseteq removed
  /\ \A d \in gone :
       /\ d \notin Docs(working) /\ d \notin Docs(vec_all) /\ d \notin Docs(fp_vec_)
       /\ Free(d, same)
       /\ ~enable_knn_ => d \notin storage

(* What both files hold of the removals is what a stop leaves of them.     *)
SettledOK ==
  /\ settled \subseteq gone
  /\ \A d \in settled :
       d \notin storage /\ (saved # {Group!NotSaved} => Free(d, saved))
  /\ pc = "down" => gone = settled

OutInv == TypeOK /\ RelationsOK /\ PlacesOK /\ CurrentOK /\ RemovalsOK /\ GoneOK /\ SettledOK

(* The documents of sets of items.                                         *)
LEMMA DocsOfUnion ==
  ASSUME NEW A, NEW B
  PROVE  Docs(A \cup B) = Docs(A) \cup Docs(B)
BY DEF Docs

LEMMA DocsOfNone == Docs({}) = {}
BY DEF Docs

LEMMA DocsOfNew ==
  ASSUME NEW docs, NEW status
  PROVE  Docs(Items(docs, status)) = docs
<1>1. ASSUME NEW it \in Items(docs, status)
      PROVE  it.docid \in docs
  BY DEF Items
<1>2. ASSUME NEW d \in docs
      PROVE  \E it \in Items(docs, status) : it.docid = d
  <2>1. [docid |-> d, status |-> status] \in Items(docs, status)
    BY DEF Items
  <2> QED BY <2>1
<1> QED BY <1>1, <1>2 DEF Docs

LEMMA DocsOfMarked ==
  ASSUME NEW items
  PROVE  Docs(Marked(items)) = Docs(items)
BY DocsOfNew DEF Marked

LEMMA StoredCases ==
  Stored = IF enable_knn_ THEN Docs(fp_vec_) ELSE storage
BY DEF Stored

(* A document that is not paired with itself is in no pair.                *)
LEMMA UnpairedIsFree ==
  ASSUME NEW rel, rel \subseteq Pairs, Reflexive(rel), NEW d, <<d, d>> \notin rel
  PROVE  Free(d, rel)
BY DEF Reflexive, Free

LEMMA DiscoverKeepsFree ==
  ASSUME same \subseteq Pairs, Reflexive(same), NEW d1 \in DocId, NEW d2 \in DocId,
         Group!Discover(d1, d2)
  PROVE  /\ Reflexive(same')
         /\ \A d : Free(d, same) /\ d # d1 /\ d # d2 => Free(d, same')
<1> DEFINE joined == Group!ClassOf(d1) \cup Group!ClassOf(d2)
<1>1. same' = same \cup (joined \X joined)
  BY DEF Group!Discover
<1>2. Reflexive(same')
  <2> HIDE DEF joined
  <2> QED BY <1>1 DEF Reflexive
<1>3. ASSUME NEW d, Free(d, same), d # d1, d # d2
      PROVE  Free(d, same')
  <2>1. d \notin joined
    BY <1>3 DEF Free, Group!ClassOf
  <2> HIDE DEF joined
  <2> QED BY <1>1, <1>3, <2>1 DEF Free
<1> QED BY <1>2, <1>3

(* Steps that leave both relations, or make them smaller.                  *)
LEMMA OpenOut == ASSUME OutInv, Open PROVE OutInv'
<1>1. TypeOK'
  BY OpenType DEF OutInv
<1>2. /\ pc = "down" /\ pc' = "idle" /\ saved # {Group!NotSaved} /\ same' = saved /\ saved' = saved
      /\ working' = {} /\ fp_vec_' = (IF enable_knn_ THEN Items(storage, Old) ELSE {})
      /\ UNCHANGED <<enable_knn_, fp_only_, removed_docs_, storage, vec_all, todo, removed, leaving, gone, settled>>
  BY DEF Open, Group!Restore, mode, analysis, removals
<1>3. Docs(working') = {} /\ Docs(fp_vec_') = IF enable_knn_ THEN storage ELSE {}
  BY <1>2, DocsOfNone, DocsOfNew
<1>4. RelationsOK'
  BY <1>2 DEF OutInv, RelationsOK
<1>5. PlacesOK'
  BY <1>2, <1>3 DEF OutInv, PlacesOK
<1>6. CurrentOK'
  BY <1>2, <1>3 DEF CurrentOK
<1>7. RemovalsOK'
  BY <1>2 DEF OutInv, RemovalsOK, Removed
<1>8. GoneOK' /\ SettledOK'
  BY <1>2, <1>3 DEF OutInv, GoneOK, SettledOK
<1> QED BY <1>1, <1>4, <1>5, <1>6, <1>7, <1>8 DEF OutInv

LEMMA InsertOut == ASSUME OutInv, NEW d \in DocId, InsertDoc(d) PROVE OutInv'
<1>1. TypeOK'
  BY InsertType DEF OutInv
<1>2. /\ enable_knn_ \/ pc = "idle"
      /\ d \notin removed /\ working' = working \cup Items({d}, Old)
      /\ UNCHANGED <<enable_knn_, fp_only_, fp_vec_, removed_docs_, storage, vec_all, todo, same, saved, pc,
                     unsaved, removed, leaving, gone, settled>>
  BY DEF InsertDoc, mode, analysis, groups, history, removals
<1>3. d \notin storage /\ d \notin Docs(fp_vec_)
  BY DocIdAssumption DEF InsertDoc
<1>4. Docs(working') = Docs(working) \cup {d}
  BY <1>2, DocsOfUnion, DocsOfNew
<1>5. Stored' = Stored
  BY <1>2 DEF Stored
<1>6. RelationsOK' /\ CurrentOK' /\ RemovalsOK'
  BY <1>2, <1>5 DEF OutInv, RelationsOK, CurrentOK, RemovalsOK, Removed, Dropped
<1>7. PlacesOK'
  BY <1>2, <1>3, <1>4, <1>5, StoredCases DEF OutInv, PlacesOK
<1>8. GoneOK' /\ SettledOK'
  BY <1>2, <1>4 DEF OutInv, GoneOK, SettledOK
<1> QED BY <1>1, <1>6, <1>7, <1>8 DEF OutInv

LEMMA RemoveOut == ASSUME OutInv, NEW d \in DocId, RemoveDoc(d) PROVE OutInv'
<1>1. TypeOK'
  BY RemoveType DEF OutInv
<1>2. /\ pc = "idle" /\ d \notin Removed
      /\ removed_docs_' = Append(removed_docs_, d) /\ removed' = removed \cup {d}
      /\ leaving' = leaving \cup {x \in {d} \cap Stored : \A y \in Removed : y < x}
      /\ UNCHANGED <<enable_knn_, fp_only_, fp_vec_, working, storage, vec_all, todo, saved, pc,
                     unsaved, gone, settled>>
      /\ (fp_only_ /\ same' = same) \/ same' = {p \in same : p[1] # d /\ p[2] # d}
  BY DEF RemoveDoc, mode, analysis, groups, Group!Remove
<1>3. RelationsOK'
  BY <1>2 DEF OutInv, RelationsOK, Reflexive
<1>4. PlacesOK' /\ CurrentOK'
  BY <1>2 DEF OutInv, PlacesOK, CurrentOK, Stored
<1>5. RemovalsOK'
  <2>1. removed_docs_ \in Seq(DocId)
    BY DEF OutInv, TypeOK
  <2>2. /\ DOMAIN removed_docs_ = 1 .. Len(removed_docs_) /\ Len(removed_docs_) \in Nat
        /\ DOMAIN removed_docs_' = 1 .. (Len(removed_docs_) + 1)
        /\ removed_docs_'[Len(removed_docs_) + 1] = d
        /\ \A i \in DOMAIN removed_docs_ : removed_docs_'[i] = removed_docs_[i]
    BY <1>2, <2>1
  <2>3. Removed' = Removed \cup {d}
    BY <2>2 DEF Removed
  <2>4. Stored' = Stored
    BY <1>2 DEF Stored
  <2>5. ASSUME NEW x \in leaving
        PROVE  Dropped(x)' /\ Free(x, same')
    <3>1. PICK i \in DOMAIN removed_docs_ :
            removed_docs_[i] = x /\ \A j \in 1 .. (i - 1) : removed_docs_[j] <= x
      BY DEF OutInv, RemovalsOK, Dropped
    <3>2. /\ i \in DOMAIN removed_docs_' /\ removed_docs_'[i] = x
          /\ \A j \in 1 .. (i - 1) : removed_docs_'[j] = removed_docs_[j]
      BY <2>2, <3>1
    <3>3. Dropped(x)'
      BY <3>1, <3>2 DEF Dropped
    <3>4. Free(x, same')
      BY <1>2 DEF OutInv, RemovalsOK, Free
    <3> QED BY <3>3, <3>4
  <2>6. ASSUME d \in Stored, \A y \in Removed : y < d
        PROVE  Dropped(d)' /\ Free(d, same')
    <3>1. \A j \in 1 .. Len(removed_docs_) :
            removed_docs_[j] \in DocId /\ removed_docs_[j] < d
      BY <2>1, <2>2, <2>6 DEF Removed
    <3>2. ASSUME NEW x \in DocId, x < d PROVE x <= d
      BY <3>2, DocIdAssumption
    <3>3. \A j \in 1 .. Len(removed_docs_) : removed_docs_'[j] <= d
      BY <2>2, <3>1, <3>2
    <3>4. Dropped(d)'
      BY <2>2, <3>3 DEF Dropped
    <3>5. Free(d, same')
      BY <1>2 DEF OutInv, RelationsOK, Free
    <3> QED BY <3>4, <3>5
  <2> QED BY <1>2, <2>3, <2>4, <2>5, <2>6 DEF OutInv, RemovalsOK
<1>6. GoneOK' /\ SettledOK'
  BY <1>2 DEF OutInv, GoneOK, SettledOK, Free
<1> QED BY <1>1, <1>3, <1>4, <1>5, <1>6 DEF OutInv

LEMMA FinishRemoveOut == ASSUME OutInv, FinishRemoveDocs PROVE OutInv'
<1>1. TypeOK'
  BY FinishRemoveType DEF OutInv
<1>2. /\ pc = "idle" /\ removed_docs_' = <<>>
      /\ \/ storage' = {d \in Stored : ~Dropped(d)} /\ unsaved' = FALSE
         \/ storage' = storage /\ unsaved' = TRUE
      /\ fp_vec_' = IF enable_knn_ THEN {it \in fp_vec_ : ~Dropped(it.docid)} ELSE {}
      /\ leaving' = {}
      /\ gone' = IF unsaved' /\ ~enable_knn_ THEN gone ELSE gone \cup leaving
      /\ settled' = IF fp_only_ /\ ~unsaved' THEN gone' ELSE settled
      /\ UNCHANGED <<enable_knn_, fp_only_, working, vec_all, todo, same, saved, pc, removed>>
  BY DEF FinishRemoveDocs, mode, analysis, groups
<1>3. Docs(fp_vec_') = IF enable_knn_ THEN {d \in Docs(fp_vec_) : ~Dropped(d)} ELSE {}
  <2>1. CASE enable_knn_
    BY <1>2, <2>1 DEF Docs
  <2>2. CASE ~enable_knn_
    BY <1>2, <2>2, DocsOfNone
  <2> QED BY <2>1, <2>2
<1>4. Stored' \subseteq Stored
  BY <1>2, <1>3 DEF Stored
<1>5. vec_all = {} /\ Docs(vec_all) = {}
  BY <1>2, DocsOfNone DEF OutInv, PlacesOK
<1>6. RelationsOK'
  BY <1>2 DEF OutInv, RelationsOK
<1>7. PlacesOK'
  BY <1>2, <1>4 DEF OutInv, PlacesOK
<1>8. CurrentOK'
  BY <1>2, <1>3, StoredCases DEF CurrentOK
<1>9. RemovalsOK'
  BY <1>2 DEF RemovalsOK, Removed
<1>10. ASSUME NEW d \in gone
       PROVE  d \notin Stored /\ d \notin Docs(fp_vec_')
  BY <1>3, <1>10, StoredCases DEF OutInv, GoneOK
<1>11. ASSUME NEW d \in leaving
       PROVE  /\ d \in removed /\ Free(d, same) /\ Dropped(d)
              /\ d \notin Docs(working) /\ d \notin Docs(fp_vec_')
              /\ storage' # storage \/ ~unsaved' => d \notin storage'
  <2>1. d \in Stored /\ d \in removed /\ Dropped(d) /\ Free(d, same)
    BY DEF OutInv, RemovalsOK
  <2>2. d \notin Docs(working)
    BY <2>1 DEF OutInv, PlacesOK
  <2> QED BY <1>2, <1>3, <2>1, <2>2
<1>12. GoneOK'
  <2>1. gone' \subseteq removed'
    BY <1>2, <1>11 DEF OutInv, GoneOK
  <2>2. ASSUME NEW d \in gone
        PROVE  /\ d \notin Docs(working) /\ d \notin Docs(vec_all) /\ d \notin Docs(fp_vec_')
               /\ Free(d, same) /\ (~enable_knn_ => d \notin storage')
    BY <1>2, <1>10, StoredCases DEF OutInv, GoneOK
  <2>3. ASSUME NEW d \in leaving, ~(unsaved' /\ ~enable_knn_)
        PROVE  /\ d \notin Docs(working) /\ d \notin Docs(vec_all) /\ d \notin Docs(fp_vec_')
               /\ Free(d, same) /\ (~enable_knn_ => d \notin storage')
    BY <1>2, <1>5, <1>11, <2>3
  <2> QED BY <1>2, <2>1, <2>2, <2>3 DEF GoneOK
<1>13. SettledOK'
  <2>1. settled' \subseteq gone' /\ pc' # "down"
    BY <1>2 DEF OutInv, SettledOK
  <2>2. ASSUME NEW d \in settled
        PROVE  d \notin storage' /\ (saved # {Group!NotSaved} => Free(d, saved))
    <3>1. d \notin storage /\ d \in gone /\ (saved # {Group!NotSaved} => Free(d, saved))
      BY DEF OutInv, SettledOK
    <3> QED BY <1>2, <1>10, <3>1
  <2>3. ASSUME fp_only_, ~unsaved', NEW d \in gone'
        PROVE  d \notin storage' /\ Free(d, saved)
    <3>1. Free(d, saved)
      BY <2>3 DEF OutInv, RelationsOK, Free
    <3>2. d \notin storage'
      BY <1>2, <1>10, <1>11, <2>3
    <3> QED BY <3>1, <3>2
  <2> QED BY <1>2, <2>1, <2>2, <2>3 DEF SettledOK
<1> QED BY <1>1, <1>6, <1>7, <1>8, <1>9, <1>12, <1>13 DEF OutInv

LEMMA MarkOut == ASSUME OutInv, NEW force \in BOOLEAN, Mark(force) PROVE OutInv'
<1>1. TypeOK'
  BY MarkType DEF OutInv
<1>2. /\ pc = "idle" /\ pc' = "marked" /\ Docs(working') = Docs(working)
      /\ UNCHANGED <<enable_knn_, fp_only_, fp_vec_, removed_docs_, storage, vec_all, todo, same, saved,
                     unsaved, removed, leaving, gone, settled>>
  BY DocsOfMarked DEF Mark, mode, analysis, groups, history, removals
<1>3. leaving = {}
  BY DEF Mark, OutInv, RemovalsOK
<1>4. RelationsOK' /\ CurrentOK' /\ RemovalsOK'
  BY <1>2, <1>3 DEF OutInv, RelationsOK, CurrentOK, RemovalsOK, Removed
<1>5. PlacesOK'
  BY <1>2 DEF OutInv, PlacesOK, Stored
<1>6. GoneOK' /\ SettledOK'
  BY <1>2 DEF OutInv, GoneOK, SettledOK
<1> QED BY <1>1, <1>4, <1>5, <1>6 DEF OutInv

LEMMA MergeOut == ASSUME OutInv, Merge PROVE OutInv'
<1> DEFINE old == IF enable_knn_ THEN fp_vec_ ELSE Items(storage, Old)
<1>1. TypeOK'
  BY MergeType DEF OutInv
<1>2. /\ pc = "marked" /\ pc' = "merged" /\ working' = {}
      /\ vec_all' = IF redo_ THEN Marked(old \cup working) ELSE old \cup working
      /\ fp_vec_' = IF enable_knn_ THEN vec_all' ELSE {}
      /\ UNCHANGED <<enable_knn_, fp_only_, removed_docs_, storage, todo, same, saved, unsaved, removed, leaving, gone, settled>>
  BY DEF Merge, mode, groups, history, removals
<1>3. Docs(vec_all') = Docs(old) \cup Docs(working)
  <2> HIDE DEF old
  <2>1. Docs(old \cup working) = Docs(old) \cup Docs(working)
    BY DocsOfUnion
  <2>2. Docs(Marked(old \cup working)) = Docs(old \cup working)
    BY DocsOfMarked
  <2> QED BY <1>2, <2>1, <2>2
<1>4. Docs(old) = Stored
  BY DocsOfNew DEF Stored
<1>5. Docs(working') = {} /\ Docs(fp_vec_') = IF enable_knn_ THEN Docs(vec_all') ELSE {}
  BY <1>2, DocsOfNone
<1> HIDE DEF old
<1>6. RelationsOK' /\ CurrentOK' /\ RemovalsOK'
  BY <1>2 DEF OutInv, RelationsOK, CurrentOK, RemovalsOK, Removed
<1>7. PlacesOK'
  BY <1>2, <1>5 DEF OutInv, PlacesOK
<1>8. \A d \in gone : d \notin Docs(vec_all')
  BY <1>2, <1>3, <1>4, StoredCases DEF OutInv, GoneOK
<1>9. GoneOK' /\ SettledOK'
  BY <1>2, <1>5, <1>8 DEF OutInv, GoneOK, SettledOK
<1> QED BY <1>1, <1>6, <1>7, <1>9 DEF OutInv

LEMMA SaveOut == ASSUME OutInv, SaveFps PROVE OutInv'
<1>1. TypeOK'
  BY SaveType DEF OutInv
<1>2. /\ pc = "merged"
      /\ \/ storage' = Docs(vec_all) /\ unsaved' = FALSE
         \/ storage' = storage /\ unsaved' = TRUE
      /\ \/ fp_only_ /\ pc' = "idle" /\ vec_all' = {}
         \/ ~fp_only_ /\ pc' = "saved" /\ vec_all' = vec_all
      /\ settled' = IF fp_only_ /\ ~unsaved' THEN gone ELSE settled
      /\ UNCHANGED <<enable_knn_, fp_only_, fp_vec_, working, removed_docs_, todo, same, saved,
                     removed, leaving, gone>>
  BY DEF SaveFps, mode, groups
<1>3. Docs(vec_all') \subseteq Docs(vec_all)
  BY <1>2, DocsOfNone
<1>4. RelationsOK' /\ RemovalsOK'
  BY <1>2 DEF OutInv, RelationsOK, RemovalsOK, Removed
<1>5. CurrentOK'
  BY <1>2 DEF OutInv, PlacesOK, CurrentOK
<1>6. PlacesOK'
  BY <1>2, DocsOfNone DEF OutInv, PlacesOK, Stored
<1>7. GoneOK'
  BY <1>2, <1>3 DEF OutInv, GoneOK
<1>8. SettledOK'
  BY <1>2 DEF OutInv, SettledOK, GoneOK, RelationsOK, Free
<1> QED BY <1>1, <1>4, <1>5, <1>6, <1>7, <1>8 DEF OutInv

LEMMA StartTableOut == ASSUME OutInv, StartTable PROVE OutInv'
<1>1. TypeOK'
  BY StartTableType DEF OutInv
<1>2. /\ pc \in {"saved", "comparing"} /\ pc' = "comparing" /\ todo' = FindDD(vec_all, tid')
      /\ UNCHANGED <<enable_knn_, fp_only_, fp_vec_, working, removed_docs_, storage, vec_all, same, saved,
                     unsaved, removed, leaving, gone, settled>>
  BY DEF StartTable, mode, groups, history, removals
<1>3. todo' \subseteq Docs(vec_all) \X Docs(vec_all)
  BY <1>2 DEF FindDD
<1>4. RelationsOK' /\ CurrentOK' /\ RemovalsOK'
  BY <1>2 DEF OutInv, RelationsOK, CurrentOK, RemovalsOK, Removed
<1>5. PlacesOK'
  BY <1>2, <1>3 DEF OutInv, PlacesOK, Stored
<1>6. GoneOK' /\ SettledOK'
  BY <1>2 DEF OutInv, GoneOK, SettledOK
<1> QED BY <1>1, <1>4, <1>5, <1>6 DEF OutInv

(* The pairs that are added are under analysis, and what is gone is not.   *)
LEMMA AddPairOut == ASSUME OutInv, AddPair PROVE OutInv'
<1>1. TypeOK'
  BY AddPairType DEF OutInv
<1>2. PICK pair \in todo : Group!Discover(pair[1], pair[2]) /\ todo' = todo \ {pair}
  BY DEF AddPair, removals
<1>3. /\ pc = "comparing"
      /\ UNCHANGED <<enable_knn_, fp_only_, fp_vec_, working, removed_docs_, storage, vec_all, pc,
                     unsaved, removed, leaving, gone, settled>>
  BY DEF AddPair, mode, history, removals
<1>4. /\ pair[1] \in DocId /\ pair[2] \in DocId /\ same \subseteq Pairs /\ saved' = saved
      /\ pair[1] \in Docs(vec_all) /\ pair[2] \in Docs(vec_all)
  BY <1>2 DEF OutInv, TypeOK, PlacesOK, Pairs, Group!Discover
<1>5. /\ Reflexive(same')
      /\ \A d : Free(d, same) /\ d # pair[1] /\ d # pair[2] => Free(d, same')
  BY <1>2, <1>4, DiscoverKeepsFree DEF OutInv, RelationsOK
<1>6. RelationsOK'
  BY <1>3, <1>4, <1>5 DEF OutInv, RelationsOK
<1>7. PlacesOK'
  BY <1>2, <1>3 DEF OutInv, PlacesOK, Stored
<1>8. CurrentOK' /\ RemovalsOK'
  BY <1>3 DEF OutInv, CurrentOK, RemovalsOK, Removed
<1>9. GoneOK' /\ SettledOK'
  BY <1>3, <1>4, <1>5 DEF OutInv, GoneOK, SettledOK
<1> QED BY <1>1, <1>6, <1>7, <1>8, <1>9 DEF OutInv

LEMMA BeginFlushOut == ASSUME OutInv, BeginFlush PROVE OutInv'
<1>1. TypeOK'
  BY BeginFlushType DEF OutInv
<1>2. /\ pc = "comparing" /\ pc' \in {"flushing", "idle"} /\ vec_all' = {} /\ todo' = {}
      /\ same' = same /\ (saved' = saved \/ saved' = {Group!NotSaved})
      /\ UNCHANGED <<enable_knn_, fp_only_, fp_vec_, working, removed_docs_, storage, unsaved, removed, leaving, gone, settled>>
  BY DEF BeginFlush, Finished, mode, groups, Group!BeginSave, removals
<1>3. RelationsOK'
  BY <1>2 DEF OutInv, RelationsOK
<1>4. PlacesOK'
  BY <1>2 DEF OutInv, PlacesOK, Stored
<1>5. CurrentOK' /\ RemovalsOK'
  BY <1>2 DEF OutInv, CurrentOK, RemovalsOK, Removed
<1>6. GoneOK' /\ SettledOK'
  BY <1>2, DocsOfNone DEF OutInv, GoneOK, SettledOK
<1> QED BY <1>1, <1>3, <1>4, <1>5, <1>6 DEF OutInv

LEMMA EndFlushOut == ASSUME OutInv, EndFlush PROVE OutInv'
<1>1. TypeOK'
  BY EndFlushType DEF OutInv
<1>2. /\ pc = "flushing" /\ pc' = "idle" /\ same' = same
      /\ \/ saved' = same /\ settled' = IF unsaved THEN settled ELSE gone
         \/ saved' = saved /\ settled' = settled
      /\ UNCHANGED <<enable_knn_, fp_only_, fp_vec_, working, removed_docs_, storage, vec_all, todo, unsaved,
                     removed, leaving, gone>>
  BY DEF EndFlush, mode, groups, analysis, Group!EndSave
<1>3. RelationsOK'
  BY <1>2 DEF OutInv, RelationsOK
<1>4. PlacesOK'
  BY <1>2 DEF OutInv, PlacesOK, Stored
<1>5. CurrentOK' /\ RemovalsOK'
  BY <1>2 DEF OutInv, CurrentOK, RemovalsOK, Removed
<1>6. GoneOK'
  BY <1>2 DEF OutInv, GoneOK
<1>7. ASSUME NEW d \in gone, ~unsaved
      PROVE  d \notin storage /\ Free(d, same)
  BY <1>2, <1>7 DEF OutInv, GoneOK, CurrentOK
<1>8. SettledOK'
  <2>1. settled' \subseteq gone /\ pc' # "down"
    BY <1>2 DEF OutInv, SettledOK
  <2>2. CASE settled' = settled /\ saved' = saved
    BY <1>2, <2>1, <2>2 DEF OutInv, SettledOK
  <2>3. CASE saved' = same /\ unsaved /\ settled' = settled
    BY <1>2, <2>1, <2>3 DEF OutInv, SettledOK, GoneOK
  <2>4. CASE saved' = same /\ ~unsaved /\ settled' = gone
    BY <1>2, <1>7, <2>1, <2>4 DEF SettledOK
  <2> QED BY <1>2, <2>2, <2>3, <2>4
<1> QED BY <1>1, <1>3, <1>4, <1>5, <1>6, <1>8 DEF OutInv

(* A stop leaves what both files hold.                                     *)
LEMMA CrashOut == ASSUME OutInv, Crash PROVE OutInv'
<1>1. TypeOK'
  BY CrashType DEF OutInv
<1>2. /\ pc' = "down" /\ vec_all' = {} /\ todo' = {} /\ fp_vec_' = {} /\ working' = {}
      /\ removed_docs_' = <<>> /\ same' = {} /\ saved' = saved
      /\ leaving' = {} /\ gone' = settled /\ settled' = settled
      /\ UNCHANGED <<enable_knn_, fp_only_, storage, removed>>
  BY DEF Crash, mode, Group!Crash
<1>3. RelationsOK'
  BY <1>2 DEF OutInv, RelationsOK, Reflexive
<1>4. PlacesOK'
  BY <1>2, DocsOfNone DEF PlacesOK
<1>5. CurrentOK' /\ RemovalsOK'
  BY <1>2 DEF CurrentOK, RemovalsOK, Removed
<1>6. GoneOK' /\ SettledOK'
  BY <1>2, DocsOfNone DEF OutInv, GoneOK, SettledOK, Free
<1> QED BY <1>1, <1>3, <1>4, <1>5, <1>6 DEF OutInv

LEMMA OperatorOut == ASSUME OutInv, AskRedo \/ DiscardGroups PROVE OutInv'
<1>1. TypeOK'
  BY OperatorType DEF OutInv
<1>2. /\ pc = "down" /\ same' = same /\ (saved' = saved \/ saved' = {})
      /\ UNCHANGED <<enable_knn_, fp_only_, fp_vec_, working, removed_docs_, storage, vec_all, todo, pc, unsaved,
                     removed, leaving, gone, settled>>
  BY DEF AskRedo, DiscardGroups, mode, analysis, groups, history, Group!Discard, removals
<1>3. RelationsOK'
  BY <1>2 DEF OutInv, RelationsOK, Reflexive
<1>4. PlacesOK'
  BY <1>2 DEF OutInv, PlacesOK, Stored
<1>5. CurrentOK' /\ RemovalsOK'
  BY <1>2 DEF OutInv, CurrentOK, RemovalsOK, Removed
<1>6. GoneOK' /\ SettledOK'
  BY <1>2 DEF OutInv, GoneOK, SettledOK, Free
<1> QED BY <1>1, <1>3, <1>4, <1>5, <1>6 DEF OutInv

LEMMA InitOut == Init => OutInv
<1> SUFFICES ASSUME Init PROVE OutInv
  OBVIOUS
<1>1. TypeOK
  BY InitType
<1>2. RelationsOK
  BY DEF Init, Group!Init, RelationsOK, Reflexive
<1>3. PlacesOK
  BY DocsOfNone DEF Init, PlacesOK
<1>4. CurrentOK /\ RemovalsOK /\ GoneOK /\ SettledOK
  BY DEF Init, CurrentOK, RemovalsOK, GoneOK, SettledOK, Removed
<1> QED BY <1>1, <1>2, <1>3, <1>4 DEF OutInv

LEMMA OutInvHolds == Spec => []OutInv
<1>1. Init => OutInv
  BY InitOut
<1>2. OutInv /\ [Next]_vars => OutInv'
  <2> SUFFICES ASSUME OutInv, [Next]_vars PROVE OutInv'
    OBVIOUS
  <2>1. Open \/ Crash \/ AskRedo \/ DiscardGroups => OutInv'
    BY OpenOut, CrashOut, OperatorOut
  <2>2. ASSUME NEW d \in DocId, InsertDoc(d) \/ RemoveDoc(d) PROVE OutInv'
    BY <2>2, InsertOut, RemoveOut
  <2>3. ASSUME NEW force \in BOOLEAN, Mark(force) PROVE OutInv'
    BY <2>3, MarkOut
  <2>4. FinishRemoveDocs \/ Merge \/ SaveFps => OutInv'
    BY FinishRemoveOut, MergeOut, SaveOut
  <2>5. StartTable \/ AddPair \/ BeginFlush \/ EndFlush => OutInv'
    BY StartTableOut, AddPairOut, BeginFlushOut, EndFlushOut
  <2>6. CASE UNCHANGED vars
    <3>1. TypeOK'
      BY <2>6, StutterType DEF OutInv
    <3>2. RelationsOK' /\ CurrentOK' /\ RemovalsOK'
      BY <2>6 DEF OutInv, RelationsOK, CurrentOK, RemovalsOK, Removed, Dropped, Stored,
                  vars, mode, groups, history, removals
    <3>3. PlacesOK' /\ GoneOK' /\ SettledOK'
      BY <2>6 DEF OutInv, PlacesOK, GoneOK, SettledOK, Stored, vars, mode, groups, analysis,
                  history, removals
    <3> QED BY <3>1, <3>2, <3>3 DEF OutInv
  <2> QED BY <2>1, <2>2, <2>3, <2>4, <2>5, <2>6 DEF Next
<1> QED BY <1>1, <1>2, PTL DEF Spec

(* A document that is gone is neither stored nor grouped again, over any   *)
(* inserts, analyses and redos, whose writes may fail, and over stops if   *)
(* both files were written since it left (RemoveDoc, FinishRemoveDocs,     *)
(* RunDdAnalysis, Open).  It says nothing of documents removed before      *)
(* their analysis or out of order, nor of a FinishRemoveDocs that could    *)
(* not write and had no copy in memory, nor of a stop before both writes:  *)
(* those come back.                                                        *)
THEOREM RemovedAreOut == Spec => []RemovedStayOut
<1>1. OutInv => RemovedStayOut
  <2> SUFFICES ASSUME OutInv, pc \in {"idle", "comparing"}, NEW d \in gone
               PROVE  d \notin Stored /\ <<d, d>> \notin same
    BY DEF RemovedStayOut
  <2> QED BY StoredCases DEF OutInv, GoneOK, Free
<1> QED BY <1>1, OutInvHolds, PTL

(* The file of fingerprints is what is in memory, unless the last write    *)
(* failed (FinishRemoveDocs, RunDdAnalysis).                               *)
THEOREM FileIsMemory == Spec => []StorageIsCurrent
<1>1. OutInv => StorageIsCurrent
  BY DEF OutInv, CurrentOK, StorageIsCurrent
<1> QED BY <1>1, OutInvHolds, PTL
-----------------------------------------------------------------------------
(***************************************************************************)
(* Completeness: a pair is in a group, or waits in todo, or has a table    *)
(* still to come that will find it.                                        *)
(***************************************************************************)
DetectorAssumption ==
  IsFiniteSet(DocId) /\ TrashMins \subseteq Nat /\ InsertWhileMarked = FALSE

Needed(d, e) == d < e /\ <<d, e>> \in Near /\ ~MayBeMissed(d, e)
AllIn(docs, rel) == \A d, e \in docs : Needed(d, e) => <<d, e>> \in rel

(* A table that finds a pair, if one of the two is new.                    *)
GoodTable(t, d, e) ==
  MaskedBits(d, t) = MaskedBits(e, t) /\ (t = 1 \/ RangeSize(d, t) < trash_min_)

HasNew(items, d, e) == \E it \in items : it.docid \in {d, e} /\ it.status = New

Unique(items) == \A i, j \in items : i.docid = j.docid => i = j

ShapeOK ==
  /\ Unique(vec_all) /\ Unique(fp_vec_) /\ Unique(working)
  /\ pc = "marked" => \A it \in working : it.status = New
  /\ pc # "down" => storage \subseteq Stored \cup removed
  /\ pc \in {"merged", "saved", "comparing"} => Stored \subseteq Docs(vec_all)
  /\ pc = "down" => ~unflushed

(* The groups on disk have the pairs of what a stop leaves.                *)
DiskOK ==
  ~fp_only_ /\ ~interrupted /\ ~unflushed /\ saved # {Group!NotSaved} =>
    /\ pc \in {"down", "idle", "marked"} => AllIn((storage \cup Stored) \ removed, saved)
    /\ pc = "merged" => AllIn(storage \ removed, saved)

MemoryOK ==
  ~fp_only_ /\ ~interrupted /\ pc \in {"idle", "marked", "flushing"}
    => AllIn(Stored \ removed, same)

(* During an analysis.                                                     *)
Covered(d, e) ==
  \/ <<d, e>> \in same
  \/ interrupted /\ ~HasNew(vec_all, d, e)
  \/ /\ HasNew(vec_all, d, e)
     /\ pc = "comparing" =>
          <<d, e>> \in todo \/ \E t \in (tid + 1) .. TableCount : GoodTable(t, d, e)

ComparingOK ==
  ~fp_only_ /\ pc \in {"merged", "saved", "comparing"} =>
    \A d, e \in Docs(vec_all) \ removed : Needed(d, e) => Covered(d, e)

FindInv == OutInv /\ ShapeOK /\ DiskOK /\ MemoryOK /\ ComparingOK

-----------------------------------------------------------------------------
(* The documents that agree on a mask are at least the fingerprints that do. *)
LEMMA RangesAreBounded ==
  ASSUME IsFiniteSet(DocId), NEW items, items \subseteq ItemType, Unique(items), NEW t, NEW d
  PROVE  /\ Cardinality(Agreeing(items, t, d)) \in Nat /\ RangeSize(d, t) \in Nat
         /\ Cardinality(Agreeing(items, t, d)) <= RangeSize(d, t)
<1> DEFINE range == Agreeing(items, t, d)
           agree == {e \in DocId : MaskedBits(e, t) = MaskedBits(d, t)}
           f == [it \in range |-> it.docid]
<1>1. IsFiniteSet(agree)
  BY FS_Subset
<1>2. \A it \in range : it \in items /\ it.docid \in agree
  BY DEF Agreeing, ItemType
<1>3. f \in Injection(range, agree)
  <2>1. f \in [range -> agree]
    BY <1>2
  <2>2. \A i, j \in range : f[i] = f[j] => i = j
    BY <1>2 DEF Unique
  <2> HIDE DEF f, range, agree
  <2> QED BY <2>1, <2>2 DEF Injection, IsInjective
<1> HIDE DEF f, range
<1>4. IsFiniteSet(range) /\ Cardinality(range) <= Cardinality(agree)
  BY <1>1, <1>3, FS_Injection
<1>5. Cardinality(range) \in Nat /\ Cardinality(agree) \in Nat
  BY <1>1, <1>4, FS_CardinalityType
<1> QED BY <1>4, <1>5 DEF RangeSize, range

(* What FindDD_ finds for sure.                                            *)
LEMMA GoodIsFound ==
  ASSUME DetectorAssumption, OutInv, Unique(vec_all), NEW d \in Docs(vec_all),
         NEW e \in Docs(vec_all), Needed(d, e), HasNew(vec_all, d, e), NEW t, GoodTable(t, d, e)
  PROVE  <<d, e>> \in FindDD(vec_all, t)
<1> DEFINE range == Agreeing(vec_all, t, d)
<1>1. vec_all \subseteq ItemType /\ trash_min_ \in Nat
  BY DEF OutInv, TypeOK, DetectorAssumption
<1>2. /\ Cardinality(range) \in Nat /\ RangeSize(d, t) \in Nat
      /\ Cardinality(range) <= RangeSize(d, t)
  BY <1>1, RangesAreBounded DEF DetectorAssumption
<1>3. ~SkipTrash(t, Cardinality(range))
  <2> HIDE DEF range
  <2> QED BY <1>1, <1>2 DEF SkipTrash, GoodTable
<1>4. e \in Docs(range)
  BY DEF GoodTable, Agreeing, Docs
<1>5. \E it \in range : it.docid \in {d, e} /\ it.status = New
  BY DEF HasNew, GoodTable, Agreeing
<1>6. IsDuplicated(d, e)
  BY DEF Needed, Near, IsDuplicated, MaxLength
<1>7. d < e
  BY DEF Needed
<1> HIDE DEF range
<1>8. <<d, e>> \in Docs(vec_all) \X Docs(vec_all) /\ <<d, e>>[1] = d /\ <<d, e>>[2] = e
  OBVIOUS
<1> QED BY <1>3, <1>4, <1>5, <1>6, <1>7, <1>8 DEF FindDD, range

LEMMA NeededHasTable ==
  ASSUME DetectorAssumption, OutInv, NEW d, NEW e, Needed(d, e)
  PROVE  \E t \in 1 .. TableCount : GoodTable(t, d, e)
<1>1. PICK t \in 1 .. TableCount :
        MaskedBits(d, t) = MaskedBits(e, t) /\ ~(t > 1 /\ RangeSize(d, t) >= trash_min_)
  BY DEF Needed, MayBeMissed
<1>2. RangeSize(d, t) \in Nat
  <2>1. IsFiniteSet({x \in DocId : MaskedBits(x, t) = MaskedBits(d, t)})
    BY FS_Subset DEF DetectorAssumption
  <2> QED BY <2>1, FS_CardinalityType DEF RangeSize
<1>3. trash_min_ \in Nat
  BY DEF OutInv, TypeOK, DetectorAssumption
<1>4. t = 1 \/ RangeSize(d, t) < trash_min_
  BY <1>1, <1>2, <1>3, ThereIsATable
<1> QED BY <1>1, <1>4 DEF GoodTable

(* Steps that leave mode and fingerprints judge pairs as before.           *)
LEMMA SameNeeds ==
  ASSUME UNCHANGED trash_min_
  PROVE  /\ \A d, e : Needed(d, e)' <=> Needed(d, e)
         /\ \A t, d, e : GoodTable(t, d, e)' <=> GoodTable(t, d, e)
BY DEF Needed, Near, MayBeMissed, GoodTable

LEMMA UniqueUnion ==
  ASSUME NEW A, NEW B, Unique(A), Unique(B), Docs(A) \cap Docs(B) = {}
  PROVE  Unique(A \cup B)
BY DEF Unique, Docs

LEMMA UniqueItems ==
  ASSUME NEW docs, NEW status
  PROVE  Unique(Items(docs, status))
BY DEF Unique, Items

LEMMA UniqueNone == Unique({})
BY DEF Unique
-----------------------------------------------------------------------------
LEMMA OpenFind == ASSUME FindInv, Open PROVE FindInv'
<1>1. OutInv'
  BY OpenOut DEF FindInv
<1>2. /\ pc = "down" /\ pc' = "idle" /\ saved # {Group!NotSaved} /\ same' = saved /\ saved' = saved
      /\ working' = {} /\ fp_vec_' = (IF enable_knn_ THEN Items(storage, Old) ELSE {})
      /\ UNCHANGED <<enable_knn_, fp_only_, trash_min_, storage, vec_all, todo, unflushed, interrupted,
                     removed>>
  BY DEF Open, Group!Restore, mode, analysis, removals
<1>3. Stored' = storage
  BY <1>2, DocsOfNew DEF Stored
<1>4. ShapeOK'
  BY <1>2, <1>3, UniqueItems, UniqueNone DEF FindInv, ShapeOK
<1>5. ~unflushed
  BY <1>2 DEF FindInv, ShapeOK
<1>6. DiskOK' /\ MemoryOK'
  BY <1>2, <1>3, <1>5, SameNeeds DEF FindInv, DiskOK, MemoryOK, AllIn
<1>7. ComparingOK'
  BY <1>2 DEF ComparingOK
<1> QED BY <1>1, <1>4, <1>6, <1>7 DEF FindInv

LEMMA InsertFind ==
  ASSUME DetectorAssumption, FindInv, NEW d \in DocId, InsertDoc(d)
  PROVE  FindInv'
<1>1. OutInv'
  BY InsertOut DEF FindInv
<1>2. /\ pc # "marked" /\ pc # "down" /\ working' = working \cup Items({d}, Old)
      /\ UNCHANGED <<enable_knn_, fp_only_, trash_min_, fp_vec_, storage, vec_all, tid, todo, same,
                     saved, pc, unflushed, interrupted, removed>>
  BY DEF InsertDoc, mode, analysis, groups, history, removals, DetectorAssumption
<1>3. Stored' = Stored
  BY <1>2 DEF Stored
<1>4. Unique(working')
  <2>1. d \notin Docs(working)
    BY DocIdAssumption DEF InsertDoc
  <2>2. Docs(Items({d}, Old)) = {d}
    BY DocsOfNew
  <2>3. Unique(working) /\ Unique(Items({d}, Old))
    BY UniqueItems DEF FindInv, ShapeOK
  <2> QED BY <1>2, <2>1, <2>2, <2>3, UniqueUnion
<1>5. ShapeOK'
  BY <1>2, <1>3, <1>4 DEF FindInv, ShapeOK
<1>6. DiskOK' /\ MemoryOK'
  BY <1>2, <1>3, SameNeeds DEF FindInv, DiskOK, MemoryOK, AllIn
<1>7. ComparingOK'
  BY <1>2, SameNeeds DEF FindInv, ComparingOK, Covered, HasNew
<1> QED BY <1>1, <1>5, <1>6, <1>7 DEF FindInv

LEMMA RemoveFind == ASSUME FindInv, NEW d \in DocId, RemoveDoc(d) PROVE FindInv'
<1>1. OutInv'
  BY RemoveOut DEF FindInv
<1>2. /\ pc = "idle" /\ removed' = removed \cup {d}
      /\ UNCHANGED <<enable_knn_, fp_only_, trash_min_, fp_vec_, working, storage, vec_all, todo,
                     saved, pc, unflushed, interrupted>>
      /\ same' = same \/ same' = {p \in same : p[1] # d /\ p[2] # d}
  BY DEF RemoveDoc, mode, analysis, groups, Group!Remove
<1>3. Stored' = Stored
  BY <1>2 DEF Stored
<1>4. ShapeOK'
  BY <1>2, <1>3 DEF FindInv, ShapeOK
<1>5. DiskOK'
  BY <1>2, <1>3, SameNeeds DEF FindInv, DiskOK, AllIn
<1>6. MemoryOK'
  BY <1>2, <1>3, SameNeeds DEF FindInv, MemoryOK, AllIn
<1>7. ComparingOK'
  BY <1>2 DEF ComparingOK
<1> QED BY <1>1, <1>4, <1>5, <1>6, <1>7 DEF FindInv

LEMMA FinishRemoveFind == ASSUME FindInv, FinishRemoveDocs PROVE FindInv'
<1>1. OutInv'
  BY FinishRemoveOut DEF FindInv
<1>2. /\ pc = "idle"
      /\ \/ storage' = {d \in Stored : ~Dropped(d)}
         \/ storage' = storage
      /\ fp_vec_' = IF enable_knn_ THEN {it \in fp_vec_ : ~Dropped(it.docid)} ELSE {}
      /\ UNCHANGED <<enable_knn_, fp_only_, trash_min_, working, vec_all, todo, same, saved, pc,
                     unflushed, interrupted, removed>>
  BY DEF FinishRemoveDocs, mode, analysis, groups
<1>3. Docs(fp_vec_') = IF enable_knn_ THEN {d \in Docs(fp_vec_) : ~Dropped(d)} ELSE {}
  <2>1. CASE enable_knn_
    BY <1>2, <2>1 DEF Docs
  <2>2. CASE ~enable_knn_
    BY <1>2, <2>2, DocsOfNone
  <2> QED BY <2>1, <2>2
<1>4. Stored' \subseteq Stored /\ storage' \subseteq storage \cup Stored
  BY <1>2, <1>3 DEF Stored
<1>5. \A d : Dropped(d) => d \in removed
  BY DEF Dropped, FindInv, OutInv, RemovalsOK, Removed
<1>6. Stored \subseteq Stored' \cup removed
  BY <1>2, <1>3, <1>5 DEF Stored
<1>7. storage' \subseteq Stored' \cup removed
  BY <1>2, <1>5, <1>6 DEF FindInv, ShapeOK
<1>8. Unique(fp_vec_')
  BY <1>2 DEF FindInv, ShapeOK, Unique
<1>9. ShapeOK'
  BY <1>2, <1>7, <1>8 DEF FindInv, ShapeOK
<1>10. DiskOK' /\ MemoryOK'
  BY <1>2, <1>4, SameNeeds DEF FindInv, DiskOK, MemoryOK, AllIn
<1>11. ComparingOK'
  BY <1>2 DEF ComparingOK
<1> QED BY <1>1, <1>9, <1>10, <1>11 DEF FindInv

LEMMA MarkFind == ASSUME FindInv, NEW force \in BOOLEAN, Mark(force) PROVE FindInv'
<1>1. OutInv'
  BY MarkOut DEF FindInv
<1>2. /\ pc = "idle" /\ pc' = "marked" /\ working' = Marked(working)
      /\ UNCHANGED <<enable_knn_, fp_only_, trash_min_, fp_vec_, storage, vec_all, same, saved,
                     unflushed, interrupted, removed>>
  BY DEF Mark, mode, analysis, groups, history, removals
<1>3. Stored' = Stored
  BY <1>2 DEF Stored
<1>4. Unique(working') /\ \A it \in working' : it.status = New
  <2>1. working' = Items(Docs(working), New)
    BY <1>2 DEF Marked
  <2>2. Unique(Items(Docs(working), New))
    BY UniqueItems
  <2> QED BY <2>1, <2>2 DEF Items
<1>5. ShapeOK'
  BY <1>2, <1>3, <1>4 DEF FindInv, ShapeOK
<1>6. DiskOK' /\ MemoryOK'
  BY <1>2, <1>3, SameNeeds DEF FindInv, DiskOK, MemoryOK, AllIn
<1>7. ComparingOK'
  BY <1>2 DEF ComparingOK
<1> QED BY <1>1, <1>5, <1>6, <1>7 DEF FindInv

(* Of a pair that is not new both were stored.                             *)
LEMMA MergeFind == ASSUME FindInv, Merge PROVE FindInv'
<1> DEFINE old == IF enable_knn_ THEN fp_vec_ ELSE Items(storage, Old)
<1>1. OutInv'
  BY MergeOut DEF FindInv
<1>2. /\ pc = "marked" /\ pc' = "merged" /\ working' = {}
      /\ vec_all' = IF redo_ THEN Marked(old \cup working) ELSE old \cup working
      /\ fp_vec_' = IF enable_knn_ THEN vec_all' ELSE {}
      /\ UNCHANGED <<enable_knn_, fp_only_, trash_min_, storage, todo, same, saved, unflushed,
                     interrupted, removed>>
  BY DEF Merge, mode, groups, history, removals
<1>3. Docs(old) = Stored
  BY DocsOfNew DEF Stored
<1>4. Unique(old \cup working)
  <2>1. Unique(old)
    BY UniqueItems DEF FindInv, ShapeOK
  <2>2. Docs(old) \cap Docs(working) = {}
    BY <1>3 DEF FindInv, OutInv, PlacesOK
  <2> HIDE DEF old
  <2> QED BY <2>1, <2>2, UniqueUnion DEF FindInv, ShapeOK
<1> HIDE DEF old
<1>5. Unique(vec_all') /\ Unique(fp_vec_')
  BY <1>2, <1>4, UniqueItems, UniqueNone DEF Marked
<1>6. Docs(vec_all') = Stored \cup Docs(working)
  <2>1. Docs(old \cup working) = Docs(old) \cup Docs(working)
    BY DocsOfUnion
  <2>2. Docs(Marked(old \cup working)) = Docs(old \cup working)
    BY DocsOfMarked
  <2> QED BY <1>2, <1>3, <2>1, <2>2
<1>7. Stored \subseteq Stored' /\ Stored' \subseteq Docs(vec_all')
  BY <1>2, <1>6 DEF Stored
<1>8. ShapeOK'
  BY <1>2, <1>5, <1>7, UniqueNone DEF FindInv, ShapeOK
<1>9. DiskOK' /\ MemoryOK'
  BY <1>2, SameNeeds DEF FindInv, DiskOK, MemoryOK, AllIn
<1>10. ASSUME NEW d \in Docs(vec_all'), ~\E it \in vec_all' : it.docid = d /\ it.status = New
       PROVE  d \in Stored
  <2>1. PICK it \in vec_all' : it.docid = d
    BY DEF Docs
  <2>2. it.status # New
    BY <1>10, <2>1
  <2>3. it \in old \cup working
    BY <1>2, <2>1, <2>2 DEF Marked, Items
  <2>4. it \notin working
    BY <1>2, <2>2 DEF FindInv, ShapeOK
  <2> QED BY <1>3, <2>1, <2>3, <2>4 DEF Docs
<1>11. ComparingOK'
  <2> SUFFICES ASSUME ~fp_only_, NEW d \in Docs(vec_all') \ removed,
                      NEW e \in Docs(vec_all') \ removed, Needed(d, e)
               PROVE  Covered(d, e)'
    BY <1>2, SameNeeds DEF ComparingOK
  <2>1. CASE HasNew(vec_all', d, e)
    BY <1>2, <2>1 DEF Covered
  <2>2. CASE ~HasNew(vec_all', d, e) /\ interrupted
    BY <1>2, <2>2 DEF Covered
  <2>3. CASE ~HasNew(vec_all', d, e) /\ ~interrupted
    <3>1. d \in Stored \ removed /\ e \in Stored \ removed
      BY <1>10, <2>3 DEF HasNew
    <3>2. <<d, e>> \in same
      BY <1>2, <2>3, <3>1 DEF FindInv, MemoryOK, AllIn
    <3> QED BY <1>2, <3>2 DEF Covered
  <2> QED BY <2>1, <2>2, <2>3
<1> QED BY <1>1, <1>8, <1>9, <1>11 DEF FindInv

LEMMA SaveFind == ASSUME FindInv, SaveFps PROVE FindInv'
<1>1. OutInv'
  BY SaveOut DEF FindInv
<1>2. /\ pc = "merged"
      /\ storage' = Docs(vec_all) \/ storage' = storage
      /\ \/ fp_only_ /\ pc' = "idle" /\ vec_all' = {}
         \/ ~fp_only_ /\ pc' = "saved" /\ vec_all' = vec_all
      /\ UNCHANGED <<enable_knn_, fp_only_, trash_min_, fp_vec_, working, tid, todo, same, saved,
                     unflushed, interrupted, removed>>
  BY DEF SaveFps, mode, groups
<1>3. enable_knn_ => Stored = Docs(vec_all) /\ Stored' = Stored
  BY <1>2 DEF Stored, FindInv, OutInv, PlacesOK
<1>4. ~enable_knn_ => Stored' = storage' /\ Stored = storage
  BY <1>2 DEF Stored
<1>5. ShapeOK'
  BY <1>2, <1>3, <1>4, UniqueNone DEF FindInv, ShapeOK
<1>6. DiskOK' /\ MemoryOK'
  BY <1>2 DEF DiskOK, MemoryOK
<1>7. ComparingOK'
  BY <1>2, SameNeeds DEF FindInv, ComparingOK, Covered, HasNew
<1> QED BY <1>1, <1>5, <1>6, <1>7 DEF FindInv

LEMMA LaterInInterval ==
  ASSUME NEW a \in Nat, NEW b \in Nat, NEW t \in a .. b, t # a
  PROVE  t \in (a + 1) .. b
OBVIOUS

LEMMA StartTableFind ==
  ASSUME DetectorAssumption, FindInv, StartTable
  PROVE  FindInv'
<1>1. OutInv'
  BY StartTableOut DEF FindInv
<1>2. /\ \/ pc = "saved" /\ tid' = 1
         \/ pc = "comparing" /\ todo = {} /\ tid < TableCount /\ tid' = tid + 1
      /\ pc' = "comparing" /\ todo' = FindDD(vec_all, tid')
      /\ UNCHANGED <<enable_knn_, fp_only_, trash_min_, fp_vec_, working, storage, vec_all, same, saved,
                     unflushed, interrupted, removed>>
  BY DEF StartTable, mode, groups, history, removals
<1>3. ShapeOK'
  BY <1>2 DEF FindInv, ShapeOK, Stored
<1>4. DiskOK' /\ MemoryOK'
  BY <1>2 DEF DiskOK, MemoryOK
<1>5. ComparingOK'
  <2> SUFFICES ASSUME ~fp_only_, NEW d \in Docs(vec_all) \ removed,
                      NEW e \in Docs(vec_all) \ removed, Needed(d, e)
               PROVE  Covered(d, e)'
    BY <1>2, SameNeeds DEF ComparingOK
  <2>1. Covered(d, e)
    BY <1>2 DEF FindInv, ComparingOK
  <2>2. CASE <<d, e>> \in same \/ (interrupted /\ ~HasNew(vec_all, d, e))
    BY <1>2, <2>2 DEF Covered
  <2>3. CASE <<d, e>> \notin same /\ HasNew(vec_all, d, e)
    <3>1. PICK t \in tid' .. TableCount : GoodTable(t, d, e)
      <4>1. CASE pc = "saved"
        BY <1>2, <4>1, NeededHasTable DEF FindInv
      <4>2. CASE pc = "comparing"
        BY <1>2, <2>1, <2>3, <4>2 DEF Covered
      <4> QED BY <1>2, <4>1, <4>2
    <3>2. CASE t = tid'
      <4>1. <<d, e>> \in FindDD(vec_all, t)
        BY <2>3, <3>1, GoodIsFound DEF FindInv, ShapeOK
      <4> QED BY <1>2, <2>3, <3>2, <4>1 DEF Covered
    <3>3. CASE t # tid'
      <4>1. tid' \in Nat /\ TableCount \in Nat
        BY <1>1, ThereIsATable DEF OutInv, TypeOK
      <4>2. t \in (tid' + 1) .. TableCount
        BY <3>3, <4>1, LaterInInterval
      <4>3. GoodTable(t, d, e)'
        BY <1>2, <3>1, SameNeeds
      <4> QED BY <1>2, <2>3, <4>2, <4>3 DEF Covered
    <3> QED BY <3>2, <3>3
  <2> QED BY <2>1, <2>2, <2>3 DEF Covered
<1> QED BY <1>1, <1>3, <1>4, <1>5 DEF FindInv

LEMMA AddPairFind == ASSUME FindInv, AddPair PROVE FindInv'
<1>1. OutInv'
  BY AddPairOut DEF FindInv
<1>2. PICK pair \in todo : Group!Discover(pair[1], pair[2]) /\ todo' = todo \ {pair}
  BY DEF AddPair
<1>3. /\ pc = "comparing" /\ pc' = "comparing"
      /\ UNCHANGED <<enable_knn_, fp_only_, trash_min_, fp_vec_, working, storage, vec_all, tid,
                     unflushed, interrupted, removed>>
  BY DEF AddPair, mode, history, removals
<1>4. same \subseteq same' /\ pair \in same'
  <2>1. pair = <<pair[1], pair[2]>>
    BY DEF FindInv, OutInv, TypeOK
  <2>2. pair[1] \in Group!ClassOf(pair[1]) /\ pair[2] \in Group!ClassOf(pair[2])
    BY DEF Group!ClassOf
  <2> QED BY <1>2, <2>1, <2>2 DEF Group!Discover
<1>5. ShapeOK'
  BY <1>3 DEF FindInv, ShapeOK, Stored
<1>6. DiskOK' /\ MemoryOK'
  BY <1>3 DEF DiskOK, MemoryOK
<1>7. ComparingOK'
  <2> SUFFICES ASSUME ~fp_only_, NEW d \in Docs(vec_all) \ removed,
                      NEW e \in Docs(vec_all) \ removed, Needed(d, e)
               PROVE  Covered(d, e)'
    BY <1>3, SameNeeds DEF ComparingOK
  <2>1. Covered(d, e)
    BY <1>3 DEF FindInv, ComparingOK
  <2>2. \A t : GoodTable(t, d, e)' <=> GoodTable(t, d, e)
    BY <1>3, SameNeeds
  <2> QED BY <1>2, <1>3, <1>4, <2>1, <2>2 DEF Covered
<1> QED BY <1>1, <1>5, <1>6, <1>7 DEF FindInv

(* No table is to come: what is covered is in a group, unless an earlier   *)
(* analysis was cut off and this one was no redo.                          *)
LEMMA BeginFlushFind == ASSUME FindInv, BeginFlush PROVE FindInv'
<1>1. OutInv'
  BY BeginFlushOut DEF FindInv
<1>2. /\ pc = "comparing" /\ todo = {} /\ tid = TableCount
      /\ pc' = "flushing" \/ (pc' = "idle" /\ unflushed')
      /\ vec_all' = {} /\ same' = same
      /\ interrupted' = IF \A it \in vec_all : it.status = New THEN FALSE ELSE interrupted
      /\ UNCHANGED <<enable_knn_, fp_only_, trash_min_, fp_vec_, working, storage, removed>>
  BY DEF BeginFlush, Finished, mode, groups, removals, Group!BeginSave
<1>3. Stored' = Stored
  BY <1>2 DEF Stored
<1>4. ShapeOK'
  BY <1>2, <1>3, UniqueNone DEF FindInv, ShapeOK
<1>5. DiskOK'
  BY <1>2 DEF DiskOK
<1>6. MemoryOK'
  <2> SUFFICES ASSUME ~fp_only_, ~interrupted', NEW d \in Stored \ removed,
                      NEW e \in Stored \ removed, Needed(d, e)
               PROVE  <<d, e>> \in same
    BY <1>2, <1>3, SameNeeds DEF MemoryOK, AllIn
  <2>1. d \in Docs(vec_all) /\ e \in Docs(vec_all)
    BY <1>2 DEF FindInv, ShapeOK
  <2>2. Covered(d, e)
    BY <1>2, <2>1 DEF FindInv, ComparingOK
  <2>3. ~(interrupted /\ ~HasNew(vec_all, d, e))
    BY <1>2, <2>1 DEF HasNew, Docs
  <2>4. (tid + 1) .. TableCount = {}
    BY <1>2, ThereIsATable
  <2> QED BY <1>2, <2>2, <2>3, <2>4 DEF Covered
<1>7. ComparingOK'
  BY <1>2 DEF ComparingOK
<1> QED BY <1>1, <1>4, <1>5, <1>6, <1>7 DEF FindInv

LEMMA EndFlushFind == ASSUME FindInv, EndFlush PROVE FindInv'
<1>1. OutInv'
  BY EndFlushOut DEF FindInv
<1>2. /\ pc = "flushing" /\ pc' = "idle" /\ same' = same /\ (saved' = same \/ unflushed')
      /\ UNCHANGED <<enable_knn_, fp_only_, trash_min_, fp_vec_, working, storage, vec_all, todo,
                     interrupted, removed>>
  BY DEF EndFlush, mode, analysis, groups, Group!EndSave
<1>3. Stored' = Stored /\ (storage \cup Stored) \ removed \subseteq Stored \ removed
  BY <1>2 DEF Stored, FindInv, ShapeOK
<1>4. ShapeOK'
  BY <1>2, <1>3 DEF FindInv, ShapeOK
<1>5. MemoryOK'
  BY <1>2, <1>3, SameNeeds DEF FindInv, MemoryOK, AllIn
<1>6. DiskOK'
  BY <1>2, <1>3, SameNeeds DEF FindInv, MemoryOK, DiskOK, AllIn
<1>7. ComparingOK'
  BY <1>2 DEF ComparingOK
<1> QED BY <1>1, <1>4, <1>5, <1>6, <1>7 DEF FindInv

LEMMA CrashFind == ASSUME FindInv, Crash PROVE FindInv'
<1>1. OutInv'
  BY CrashOut DEF FindInv
<1>2. /\ pc # "down" /\ pc' = "down" /\ vec_all' = {} /\ fp_vec_' = {} /\ working' = {}
      /\ saved' = saved /\ ~unflushed'
      /\ interrupted' = (interrupted \/ unflushed \/ pc \in {"saved", "comparing", "flushing"})
      /\ UNCHANGED <<enable_knn_, fp_only_, trash_min_, storage, removed>>
  BY DEF Crash, mode, Group!Crash
<1>3. Stored' \subseteq storage
  BY <1>2, DocsOfNone DEF Stored
<1>4. ShapeOK'
  BY <1>2, UniqueNone DEF ShapeOK
<1>5. DiskOK'
  <2> SUFFICES ASSUME ~fp_only_, ~interrupted', saved # {Group!NotSaved}
               PROVE  AllIn(storage \ removed, saved)
    BY <1>2, <1>3, SameNeeds DEF DiskOK, AllIn
  <2>1. pc \in {"idle", "marked", "merged"}
    BY <1>2 DEF FindInv, OutInv, TypeOK
  <2> QED BY <1>2, <2>1 DEF FindInv, DiskOK, AllIn
<1>6. MemoryOK' /\ ComparingOK'
  BY <1>2 DEF MemoryOK, ComparingOK
<1> QED BY <1>1, <1>4, <1>5, <1>6 DEF FindInv

LEMMA OperatorFind == ASSUME FindInv, AskRedo \/ DiscardGroups PROVE FindInv'
<1>1. OutInv'
  BY OperatorOut DEF FindInv
<1>2. /\ pc = "down" /\ (saved' = saved \/ interrupted') /\ (interrupted => interrupted')
      /\ UNCHANGED <<enable_knn_, fp_only_, trash_min_, fp_vec_, working, storage, vec_all, pc,
                     unflushed, removed>>
  BY DEF AskRedo, DiscardGroups, mode, analysis, groups, history, removals
<1>3. ShapeOK'
  BY <1>2 DEF FindInv, ShapeOK, Stored
<1>4. DiskOK'
  BY <1>2, SameNeeds DEF FindInv, DiskOK, AllIn, Stored
<1>5. MemoryOK' /\ ComparingOK'
  BY <1>2 DEF MemoryOK, ComparingOK
<1> QED BY <1>1, <1>3, <1>4, <1>5 DEF FindInv

LEMMA StutterFind == ASSUME FindInv, UNCHANGED vars PROVE FindInv'
<1>1. UNCHANGED <<enable_knn_, fp_only_, trash_min_, fp_vec_, working, removed_docs_, storage, vec_all,
                  tid, todo, same, saved, pc, unsaved, unflushed, interrupted, removed, leaving, gone, settled>>
  BY DEF vars, mode, analysis, groups, history, removals
<1>2. OutInv'
  <2>1. TypeOK'
    BY StutterType DEF FindInv, OutInv
  <2>2. RelationsOK' /\ CurrentOK' /\ RemovalsOK'
    BY <1>1 DEF FindInv, OutInv, RelationsOK, CurrentOK, RemovalsOK, Removed, Dropped, Stored
  <2>3. PlacesOK' /\ GoneOK' /\ SettledOK'
    BY <1>1 DEF FindInv, OutInv, PlacesOK, GoneOK, SettledOK, Stored
  <2> QED BY <2>1, <2>2, <2>3 DEF OutInv
<1>3. ShapeOK'
  BY <1>1 DEF FindInv, ShapeOK, Stored
<1>4. DiskOK' /\ MemoryOK'
  BY <1>1, SameNeeds DEF FindInv, DiskOK, MemoryOK, AllIn, Stored
<1>5. ComparingOK'
  BY <1>1, SameNeeds DEF FindInv, ComparingOK, Covered
<1> QED BY <1>2, <1>3, <1>4, <1>5 DEF FindInv

(* Between analyses every two duplicates that are stored and were not      *)
(* removed are in one group, unless an analysis was cut off or every table *)
(* on which they agree is too crowded: for any documents, fingerprints and *)
(* masks (RunDdAnalysis, PairWiseCompare_, FindDD_).                       *)
THEOREM PairsAreFound ==
  ASSUME DetectorAssumption
  PROVE  Spec => []EveryPairIsFound
<1>1. Init => FindInv
  <2> SUFFICES ASSUME Init PROVE FindInv
    OBVIOUS
  <2>1. OutInv
    BY InitOut
  <2>2. ShapeOK
    BY UniqueNone DEF Init, ShapeOK
  <2>3. DiskOK /\ MemoryOK /\ ComparingOK
    BY DocsOfNone DEF Init, DiskOK, MemoryOK, ComparingOK, AllIn, Stored
  <2> QED BY <2>1, <2>2, <2>3 DEF FindInv
<1>2. FindInv /\ [Next]_vars => FindInv'
  <2> SUFFICES ASSUME FindInv, [Next]_vars PROVE FindInv'
    OBVIOUS
  <2>1. Open \/ Crash \/ AskRedo \/ DiscardGroups => FindInv'
    BY OpenFind, CrashFind, OperatorFind
  <2>2. ASSUME NEW d \in DocId, InsertDoc(d) \/ RemoveDoc(d) PROVE FindInv'
    BY <2>2, InsertFind, RemoveFind
  <2>3. ASSUME NEW force \in BOOLEAN, Mark(force) PROVE FindInv'
    BY <2>3, MarkFind
  <2>4. FinishRemoveDocs \/ Merge \/ SaveFps => FindInv'
    BY FinishRemoveFind, MergeFind, SaveFind
  <2>5. StartTable \/ AddPair \/ BeginFlush \/ EndFlush => FindInv'
    BY StartTableFind, AddPairFind, BeginFlushFind, EndFlushFind
  <2> QED BY <2>1, <2>2, <2>3, <2>4, <2>5, StutterFind DEF Next
<1>3. FindInv => EveryPairIsFound
  <2> SUFFICES ASSUME FindInv, pc = "idle", ~fp_only_, ~interrupted,
                      NEW d \in Standing, NEW e \in Standing, d < e, <<d, e>> \in Near,
                      ~MayBeMissed(d, e)
               PROVE  <<d, e>> \in same
    BY DEF EveryPairIsFound
  <2> QED BY DEF FindInv, MemoryOK, AllIn, Needed, Standing
<1> QED BY <1>1, <1>2, <1>3, PTL DEF Spec
=============================================================================
