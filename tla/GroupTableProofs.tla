-------------------------- MODULE GroupTableProofs --------------------------
(***************************************************************************)
(* Proofs about the table of duplicate groups: for any set of documents,   *)
(* any groups given to Set and any bound on the number of groups, the map  *)
(* and the vector of groups agree and a number that waits to be used again *)
(* is one of an empty group, provided Set is called only while no number   *)
(* waits.                                                                  *)
(***************************************************************************)
EXTENDS GroupTable, SequenceTheorems, TLAPS

(* A bag stays a bag when one document's count, or every count, changes.   *)
LEMMA PairIsBag == \A d1, d2 \in DocId : Pair(d1, d2) \in Bag
BY DEF Pair, Bag

LEMMA EmptyBagIsBag == EmptyBag \in Bag
BY DEF EmptyBag, Bag

(* Writing one slot of the vector leaves the others and its size alone.    *)
Written(info, g, bag) == [info EXCEPT ![g + 1] = bag]

LEMMA WriteSlot ==
  ASSUME NEW info \in Seq(Bag), NEW g \in GroupIds(info), NEW bag \in Bag
  PROVE  /\ Written(info, g, bag) \in Seq(Bag)
         /\ GroupIds(Written(info, g, bag)) = GroupIds(info)
         /\ \A h \in GroupIds(info) :
              Group(Written(info, g, bag), h) = IF h = g THEN bag ELSE Group(info, h)
<1> DEFINE new == Written(info, g, bag)
<1>1. g + 1 \in 1 .. Len(info)
  BY DEF GroupIds
<1>2. /\ new \in Seq(Bag) /\ Len(new) = Len(info)
      /\ \A j \in 1 .. Len(info) : new[j] = IF j = g + 1 THEN bag ELSE info[j]
  BY <1>1, ExceptSeq DEF Written
<1>3. \A h \in GroupIds(info) : h \in Int /\ h + 1 \in 1 .. Len(info)
  BY DEF GroupIds
<1>4. g \in Int
  BY <1>3
<1>5. \A h \in GroupIds(info) : h + 1 = g + 1 <=> h = g
  BY <1>3, <1>4
<1> HIDE DEF new
<1>6. \A h \in GroupIds(info) : Group(new, h) = IF h = g THEN bag ELSE Group(info, h)
  BY <1>2, <1>3, <1>5 DEF Group
<1> QED BY <1>2, <1>6 DEF GroupIds, new

(* A group the vector holds is a bag of documents with counts.             *)
LEMMA GroupType ==
  ASSUME NEW info \in Seq(Bag), NEW g \in GroupIds(info)
  PROVE  g \in Nat /\ Group(info, g) \in Bag /\ \A d \in DocId : Group(info, g)[d] \in Nat
<1>1. g \in Nat /\ g + 1 \in 1 .. Len(info)
  BY DEF GroupIds
<1> QED BY <1>1, ElementOfSeq DEF Group, Bag

(* A grouped document's number is that of a group that holds it, and so of *)
(* a group that is not empty.                                              *)
LEMMA GroupedHeld ==
  ASSUME TypeOK, GroupsAgree, NEW d \in DocId, Grouped(d)
  PROVE  /\ docid_group_[d] \in GroupIds(group_info_)
         /\ Holds(group_info_, docid_group_[d], d)
         /\ Group(group_info_, docid_group_[d]) # EmptyBag
<1>1. docid_group_[d] \in GroupIds(group_info_) /\ Holds(group_info_, docid_group_[d], d)
  BY DEF GroupsAgree
<1>2. ~(EmptyBag[d] > 0)
  BY DEF EmptyBag
<1> QED BY <1>1, <1>2 DEF Holds

-----------------------------------------------------------------------------
(* [c1] A new group is appended: its number is the old size of the vector. *)
LEMMA NewGroupKeepsInv ==
  ASSUME NEW d1 \in DocId, NEW d2 \in DocId, GroupInv, AddToNewGroup(d1, d2),
         UNCHANGED <<file_, pc>>
  PROVE  GroupInv'
<1> USE DEF NoGroup
<1>1. TypeOK'
  BY PairIsBag DEF GroupInv, TypeOK, AddToNewGroup
<1>2. GroupsAgree'
  BY DEF GroupInv, TypeOK, GroupsAgree, AddToNewGroup, Grouped, GroupIds, Holds, Group, Pair, Bag
<1>3. FreeIdsAreUnused'
  BY DEF AddToNewGroup, FreeIdsAreUnused, FreeIdsOf
<1>4. SavedIsSound'
  BY DEF GroupInv, SavedIsSound
<1> QED BY <1>1, <1>2, <1>3, <1>4 DEF GroupInv

(* [c1-1] The slot written is an empty one, so no document loses its group. *)
LEMMA FreedGroupKeepsInv ==
  ASSUME NEW d1 \in DocId, NEW d2 \in DocId, GroupInv, AddToFreedGroup(d1, d2),
         UNCHANGED <<file_, pc>>
  PROVE  GroupInv'
<1> USE DEF NoGroup
<1> DEFINE g == Head(valid_groupid_)
<1>a. /\ valid_groupid_ \in Seq(Nat) /\ valid_groupid_ # <<>>
      /\ docid_group_' = [docid_group_ EXCEPT ![d1] = g, ![d2] = g]
      /\ group_info_' = Written(group_info_, g, Pair(d1, d2))
      /\ valid_groupid_' = Tail(valid_groupid_)
      /\ result' = TRUE
      /\ g \in GroupIds(group_info_)
  BY DEF GroupInv, TypeOK, AddToFreedGroup, Written
<1>b. Len(valid_groupid_) \in Nat \ {0} /\ g = valid_groupid_[1]
  BY <1>a
<1>c. Group(group_info_, g) = EmptyBag
  BY <1>b DEF GroupInv, FreeIdsAreUnused, FreeIdsOf
<1>d. /\ group_info_' \in Seq(Bag) /\ GroupIds(group_info_') = GroupIds(group_info_)
      /\ \A h \in GroupIds(group_info_) :
           Group(group_info_', h) = IF h = g THEN Pair(d1, d2) ELSE Group(group_info_, h)
  <2>1. Pair(d1, d2) \in Bag /\ group_info_ \in Seq(Bag)
    BY PairIsBag DEF GroupInv, TypeOK
  <2> QED BY <1>a, <2>1, WriteSlot
<1>e. g \in Nat
  BY <1>a, GroupType DEF GroupInv, TypeOK
<1> HIDE DEF g
<1>1. TypeOK'
  <2>1. valid_groupid_' \in Seq(Nat)
    BY <1>a, HeadTailProperties
  <2>2. docid_group_' \in [DocId -> Nat \cup {NoGroup}]
    BY <1>a, <1>e DEF GroupInv, TypeOK
  <2> QED BY <1>a, <1>d, <2>1, <2>2 DEF GroupInv, TypeOK
<1>2. GroupsAgree'
  <2> SUFFICES ASSUME NEW d \in DocId
               PROVE  /\ Grouped(d)' => docid_group_'[d] \in GroupIds(group_info_')
                      /\ \A h \in GroupIds(group_info_') :
                           docid_group_'[d] = h <=> Holds(group_info_', h, d)
    BY DEF GroupsAgree
  <2>1. docid_group_'[d] = IF d = d1 \/ d = d2 THEN g ELSE docid_group_[d]
    BY <1>a DEF GroupInv, TypeOK
  <2>2. docid_group_[d] # g
    <3>1. EmptyBag[d] = 0
      BY DEF EmptyBag
    <3> QED BY <1>a, <1>c, <3>1 DEF GroupInv, GroupsAgree, Holds
  <2>3. ~Grouped(d1) /\ ~Grouped(d2)
    BY DEF AddToFreedGroup
  <2>4. Pair(d1, d2)[d] > 0 <=> d = d1 \/ d = d2
    BY DEF Pair
  <2>5. Grouped(d)' => docid_group_'[d] \in GroupIds(group_info_')
    BY <1>a, <1>d, <2>1 DEF GroupInv, GroupsAgree, Grouped
  <2>6. ASSUME NEW h \in GroupIds(group_info_')
        PROVE  docid_group_'[d] = h <=> Holds(group_info_', h, d)
    <3>1. CASE h = g
      BY <3>1, <1>a, <1>d, <2>1, <2>2, <2>4 DEF Holds
    <3>2. CASE h # g
      <4>1. Holds(group_info_', h, d) <=> docid_group_[d] = h
        BY <3>2, <1>d DEF Holds, GroupInv, GroupsAgree
      <4>2. h # NoGroup
        BY <1>d DEF GroupIds
      <4> QED BY <3>2, <4>1, <4>2, <2>1, <2>3 DEF Grouped
    <3> QED BY <3>1, <3>2
  <2> QED BY <2>5, <2>6
<1>3. FreeIdsAreUnused'
  <2>1. /\ Len(valid_groupid_') = Len(valid_groupid_) - 1
        /\ \A i \in 1 .. Len(valid_groupid_') :
             i + 1 \in 1 .. Len(valid_groupid_) /\ valid_groupid_'[i] = valid_groupid_[i + 1]
    BY <1>a, <1>b, HeadTailProperties
  <2>2. ASSUME NEW i \in 1 .. Len(valid_groupid_')
        PROVE  /\ valid_groupid_'[i] \in GroupIds(group_info_)
               /\ valid_groupid_'[i] # g
               /\ Group(group_info_, valid_groupid_'[i]) = EmptyBag
    <3>1. /\ i + 1 \in 1 .. Len(valid_groupid_) /\ 1 \in 1 .. Len(valid_groupid_)
          /\ i + 1 # 1 /\ valid_groupid_'[i] = valid_groupid_[i + 1]
      BY <1>b, <2>1
    <3> QED BY <1>b, <3>1 DEF GroupInv, FreeIdsAreUnused, FreeIdsOf
  <2>3. \A i, j \in 1 .. Len(valid_groupid_') :
          valid_groupid_'[i] = valid_groupid_'[j] => i = j
    BY <2>1 DEF GroupInv, FreeIdsAreUnused, FreeIdsOf
  <2> QED BY <2>2, <2>3, <1>d DEF FreeIdsAreUnused, FreeIdsOf
<1>4. SavedIsSound'
  BY DEF GroupInv, SavedIsSound
<1> QED BY <1>1, <1>2, <1>3, <1>4 DEF GroupInv

(* [c2, c3] The group joined is not empty, so no number waits for it. *)
LEMMA JoinKeepsInv ==
  ASSUME NEW d1 \in DocId, NEW d2 \in DocId, GroupInv, Join(d1, d2), UNCHANGED <<file_, pc>>
  PROVE  GroupInv'
<1> USE DEF NoGroup
<1> DEFINE g == docid_group_[d2]
           old == Group(group_info_, g)
           bag == [old EXCEPT ![d1] = old[d1] + 1]
<1>a. /\ g \in GroupIds(group_info_) /\ g \in Nat /\ Group(group_info_, g) # EmptyBag
      /\ Group(group_info_, g) \in Bag
  BY GroupedHeld, GroupType DEF GroupInv, TypeOK, Join
<1>b. bag \in Bag /\ \A d \in DocId : bag[d] > 0 <=> d = d1 \/ Holds(group_info_, g, d)
  BY <1>a DEF Bag, Holds
<1>c. /\ docid_group_' = [docid_group_ EXCEPT ![d1] = g]
      /\ group_info_' = Written(group_info_, g, bag)
      /\ result' = TRUE /\ valid_groupid_' = valid_groupid_ /\ ~Grouped(d1)
  <2>1. docid_group_' = [docid_group_ EXCEPT ![d1] = g]
    BY DEF Join
  <2>2. group_info_' = Written(group_info_, g, bag)
    BY DEF Join, Written
  <2> QED BY <2>1, <2>2 DEF Join
<1> HIDE DEF bag
<1>d. /\ group_info_' \in Seq(Bag) /\ GroupIds(group_info_') = GroupIds(group_info_)
      /\ \A h \in GroupIds(group_info_) :
           Group(group_info_', h) = IF h = g THEN bag ELSE Group(group_info_, h)
  <2>1. group_info_ \in Seq(Bag)
    BY DEF GroupInv, TypeOK
  <2>2. g \in GroupIds(group_info_) /\ bag \in Bag
    BY <1>a, <1>b
  <2>3. /\ Written(group_info_, g, bag) \in Seq(Bag)
        /\ GroupIds(Written(group_info_, g, bag)) = GroupIds(group_info_)
        /\ \A h \in GroupIds(group_info_) :
             Group(Written(group_info_, g, bag), h) = IF h = g THEN bag ELSE Group(group_info_, h)
    BY <2>1, <2>2, WriteSlot
  <2> QED BY <1>c, <2>3
<1>1. TypeOK'
  BY <1>a, <1>c, <1>d DEF GroupInv, TypeOK
<1>2. GroupsAgree'
  <2> SUFFICES ASSUME NEW d \in DocId
               PROVE  /\ Grouped(d)' => docid_group_'[d] \in GroupIds(group_info_')
                      /\ \A h \in GroupIds(group_info_') :
                           docid_group_'[d] = h <=> Holds(group_info_', h, d)
    BY DEF GroupsAgree
  <2>1. docid_group_'[d] = IF d = d1 THEN g ELSE docid_group_[d]
    BY <1>c DEF GroupInv, TypeOK
  <2>2. Grouped(d)' => docid_group_'[d] \in GroupIds(group_info_')
    BY <1>a, <1>d, <2>1 DEF GroupInv, GroupsAgree, Grouped
  <2>3. ASSUME NEW h \in GroupIds(group_info_')
        PROVE  docid_group_'[d] = h <=> Holds(group_info_', h, d)
    <3>1. docid_group_[d] = h <=> Holds(group_info_, h, d)
      BY <1>d DEF GroupInv, GroupsAgree
    <3>2. h # NoGroup
      BY <1>d DEF GroupIds
    <3>3. Holds(group_info_', h, d) <=> (h = g /\ d = d1) \/ Holds(group_info_, h, d)
      BY <1>b, <1>d DEF Holds
    <3> QED BY <3>1, <3>2, <3>3, <2>1, <1>c DEF Grouped
  <2> QED BY <2>2, <2>3
<1>3. FreeIdsAreUnused'
  BY <1>a, <1>c, <1>d DEF GroupInv, FreeIdsAreUnused, FreeIdsOf
<1>4. SavedIsSound'
  BY DEF GroupInv, SavedIsSound
<1> QED BY <1>1, <1>2, <1>3, <1>4 DEF GroupInv

(* [c4] The documents of the group that is emptied are those that move.    *)
LEMMA MergeKeepsInv ==
  ASSUME NEW d1 \in DocId, NEW d2 \in DocId, GroupInv, MergeGroups(d1, d2),
         UNCHANGED <<file_, pc>>
  PROVE  GroupInv'
<1> USE DEF NoGroup
<1> DEFINE g1 == docid_group_[d1]
           g2 == docid_group_[d2]
           from == IF g1 > g2 THEN g1 ELSE g2
           to == IF g1 > g2 THEN g2 ELSE g1
           moved == Group(group_info_, from)
           joined == [d \in DocId |-> Group(group_info_, to)[d] + moved[d]]
           step == Written(group_info_, to, joined)
<1>a. \A g \in {g1, g2} :
        /\ g \in GroupIds(group_info_) /\ g \in Nat
        /\ Group(group_info_, g) \in Bag /\ Group(group_info_, g) # EmptyBag
  BY GroupedHeld, GroupType DEF GroupInv, TypeOK, MergeGroups
<1>b. from \in {g1, g2} /\ to \in {g1, g2} /\ from # to
  BY <1>a DEF MergeGroups
<1>c. /\ docid_group_' = [d \in DocId |-> IF moved[d] > 0 THEN to ELSE docid_group_[d]]
      /\ group_info_' = [group_info_ EXCEPT ![to + 1] = joined, ![from + 1] = EmptyBag]
      /\ valid_groupid_' = Append(valid_groupid_, from)
      /\ result' = TRUE
  BY DEF MergeGroups, Group
<1> HIDE DEF from, to
<1>d. /\ joined \in Bag
      /\ \A d \in DocId : joined[d] > 0 <=> Group(group_info_, to)[d] > 0 \/ moved[d] > 0
  BY <1>a, <1>b DEF Bag
<1> HIDE DEF joined
<1>e. /\ step \in Seq(Bag) /\ GroupIds(step) = GroupIds(group_info_)
      /\ \A h \in GroupIds(group_info_) :
           Group(step, h) = IF h = to THEN joined ELSE Group(group_info_, h)
  <2>1. group_info_ \in Seq(Bag)
    BY DEF GroupInv, TypeOK
  <2>2. to \in GroupIds(group_info_) /\ joined \in Bag
    BY <1>a, <1>b, <1>d
  <2> QED BY <2>1, <2>2, WriteSlot
<1>f. group_info_' = Written(step, from, EmptyBag)
  BY <1>c DEF Written
<1> HIDE DEF step
<1>g. /\ group_info_' \in Seq(Bag) /\ GroupIds(group_info_') = GroupIds(group_info_)
      /\ \A h \in GroupIds(group_info_) :
           Group(group_info_', h) = IF h = from THEN EmptyBag
                                    ELSE IF h = to THEN joined ELSE Group(group_info_, h)
  <2>1. step \in Seq(Bag) /\ from \in GroupIds(step) /\ EmptyBag \in Bag
    BY <1>a, <1>b, <1>e, EmptyBagIsBag
  <2>2. /\ Written(step, from, EmptyBag) \in Seq(Bag)
        /\ GroupIds(Written(step, from, EmptyBag)) = GroupIds(step)
        /\ \A h \in GroupIds(step) :
             Group(Written(step, from, EmptyBag), h) = IF h = from THEN EmptyBag ELSE Group(step, h)
    BY <2>1, WriteSlot
  <2> QED BY <1>e, <1>f, <2>2
<1>1. TypeOK'
  BY <1>a, <1>b, <1>c, <1>g DEF GroupInv, TypeOK
<1>2. GroupsAgree'
  <2> SUFFICES ASSUME NEW d \in DocId
               PROVE  /\ Grouped(d)' => docid_group_'[d] \in GroupIds(group_info_')
                      /\ \A h \in GroupIds(group_info_') :
                           docid_group_'[d] = h <=> Holds(group_info_', h, d)
    BY DEF GroupsAgree
  <2>1. moved[d] > 0 <=> docid_group_[d] = from
    BY <1>a, <1>b DEF GroupInv, GroupsAgree, Holds
  <2>2. Group(group_info_, to)[d] > 0 <=> docid_group_[d] = to
    BY <1>a, <1>b DEF GroupInv, GroupsAgree, Holds
  <2>3. docid_group_'[d] = IF docid_group_[d] = from THEN to ELSE docid_group_[d]
    BY <1>c, <2>1
  <2>4. EmptyBag[d] = 0
    BY DEF EmptyBag
  <2>5. Grouped(d)' => docid_group_'[d] \in GroupIds(group_info_')
    BY <1>a, <1>b, <1>g, <2>3 DEF GroupInv, GroupsAgree, Grouped
  <2>6. ASSUME NEW h \in GroupIds(group_info_')
        PROVE  docid_group_'[d] = h <=> Holds(group_info_', h, d)
    <3>1. h \in GroupIds(group_info_)
      BY <1>g
    <3>2. CASE h = from
      BY <3>1, <3>2, <1>b, <1>g, <2>3, <2>4 DEF Holds
    <3>3. CASE h = to
      BY <3>1, <3>3, <1>b, <1>d, <1>g, <2>1, <2>2, <2>3 DEF Holds
    <3>4. CASE h # to /\ h # from
      <4>1. docid_group_[d] = h <=> Holds(group_info_, h, d)
        BY <3>1 DEF GroupInv, GroupsAgree
      <4> QED BY <3>1, <3>4, <4>1, <1>g, <2>3 DEF Holds
    <3> QED BY <3>2, <3>3, <3>4
  <2> QED BY <2>5, <2>6
<1>3. FreeIdsAreUnused'
  <2>1. \A i \in 1 .. Len(valid_groupid_) :
          /\ valid_groupid_[i] \in GroupIds(group_info_)
          /\ Group(group_info_, valid_groupid_[i]) = EmptyBag
          /\ valid_groupid_[i] # from /\ valid_groupid_[i] # to
    BY <1>a, <1>b DEF GroupInv, FreeIdsAreUnused, FreeIdsOf
  <2>2. /\ Len(valid_groupid_) \in Nat
        /\ Len(valid_groupid_') = Len(valid_groupid_) + 1
        /\ valid_groupid_'[Len(valid_groupid_) + 1] = from
        /\ \A i \in 1 .. Len(valid_groupid_) : valid_groupid_'[i] = valid_groupid_[i]
    BY <1>a, <1>b, <1>c DEF GroupInv, TypeOK
  <2>3. \A i \in 1 .. Len(valid_groupid_') :
          i \in 1 .. Len(valid_groupid_) \/ i = Len(valid_groupid_) + 1
    BY <2>2
  <2>4. ASSUME NEW i \in 1 .. Len(valid_groupid_')
        PROVE  valid_groupid_'[i] \in GroupIds(group_info_')
               /\ Group(group_info_', valid_groupid_'[i]) = EmptyBag
    BY <2>1, <2>2, <2>3, <1>a, <1>b, <1>g
  <2>5. \A i, j \in 1 .. Len(valid_groupid_) : valid_groupid_[i] = valid_groupid_[j] => i = j
    BY DEF GroupInv, FreeIdsAreUnused, FreeIdsOf
  <2>6. ASSUME NEW i \in 1 .. Len(valid_groupid_'), NEW j \in 1 .. Len(valid_groupid_'),
               valid_groupid_'[i] = valid_groupid_'[j]
        PROVE  i = j
    BY <2>1, <2>2, <2>3, <2>5, <2>6
  <2> QED BY <2>4, <2>6 DEF FreeIdsAreUnused, FreeIdsOf
<1>4. SavedIsSound'
  BY DEF GroupInv, SavedIsSound
<1> QED BY <1>1, <1>2, <1>3, <1>4 DEF GroupInv

LEMMA AddDocKeepsInv ==
  ASSUME NEW d1 \in DocId, NEW d2 \in DocId, GroupInv, AddDoc(d1, d2)
  PROVE  GroupInv'
<1> USE DEF AddDoc
<1>1. CASE AddToNewGroup(d1, d2)
  BY <1>1, NewGroupKeepsInv
<1>2. CASE AddToFreedGroup(d1, d2)
  BY <1>2, FreedGroupKeepsInv
<1>3. CASE Join(d1, d2)
  BY <1>3, JoinKeepsInv
<1>4. CASE Join(d2, d1)
  BY <1>4, JoinKeepsInv
<1>5. CASE MergeGroups(d1, d2)
  BY <1>5, MergeKeepsInv
<1>6. CASE AlreadyTogether(d1, d2)
  BY <1>6 DEF AlreadyTogether, memory, GroupInv, TypeOK, GroupsAgree, FreeIdsAreUnused,
              SavedIsSound, Grouped
<1> QED BY <1>1, <1>2, <1>3, <1>4, <1>5, <1>6

(* A document leaves the group that holds it, and no other holds it. *)
LEMMA RemoveDocKeepsInv ==
  ASSUME NEW x \in DocId, GroupInv, RemoveDoc(x)
  PROVE  GroupInv'
<1> USE DEF NoGroup
<1> DEFINE g == docid_group_[x]
           old == Group(group_info_, g)
           bag == [old EXCEPT ![x] = 0]
<1>1. CASE ~Grouped(x)
  BY <1>1 DEF RemoveDoc, GroupInv, TypeOK, GroupsAgree, FreeIdsAreUnused, SavedIsSound, Grouped
<1>2. CASE Grouped(x)
  <2>a. /\ g \in GroupIds(group_info_) /\ g \in Nat /\ old # EmptyBag /\ old \in Bag
        /\ group_info_ \in Seq(Bag)
    BY <1>2, GroupedHeld, GroupType DEF GroupInv, TypeOK
  <2>b. bag \in Bag /\ \A d \in DocId : bag[d] > 0 <=> d # x /\ Holds(group_info_, g, d)
    BY <2>a DEF Bag, Holds
  <2>c. /\ docid_group_' = [docid_group_ EXCEPT ![x] = NoGroup]
        /\ group_info_' = Written(group_info_, g, bag)
        /\ result' \in BOOLEAN /\ valid_groupid_' = valid_groupid_
        /\ file_' = file_ /\ pc' = pc
    BY <1>2 DEF RemoveDoc, Written
  <2> HIDE DEF bag
  <2>d. /\ group_info_' \in Seq(Bag) /\ GroupIds(group_info_') = GroupIds(group_info_)
        /\ \A h \in GroupIds(group_info_) :
             Group(group_info_', h) = IF h = g THEN bag ELSE Group(group_info_, h)
    <3>1. /\ Written(group_info_, g, bag) \in Seq(Bag)
          /\ GroupIds(Written(group_info_, g, bag)) = GroupIds(group_info_)
          /\ \A h \in GroupIds(group_info_) :
               Group(Written(group_info_, g, bag), h) = IF h = g THEN bag ELSE Group(group_info_, h)
      BY <2>a, <2>b, WriteSlot
    <3> QED BY <2>c, <3>1
  <2>1. TypeOK'
    BY <2>c, <2>d DEF GroupInv, TypeOK
  <2>2. GroupsAgree'
    <3> SUFFICES ASSUME NEW d \in DocId
                 PROVE  /\ Grouped(d)' => docid_group_'[d] \in GroupIds(group_info_')
                        /\ \A h \in GroupIds(group_info_') :
                             docid_group_'[d] = h <=> Holds(group_info_', h, d)
      BY DEF GroupsAgree
    <3>1. docid_group_'[d] = IF d = x THEN NoGroup ELSE docid_group_[d]
      BY <2>c DEF GroupInv, TypeOK
    <3>2. Grouped(d)' => docid_group_'[d] \in GroupIds(group_info_')
      BY <2>d, <3>1 DEF GroupInv, GroupsAgree, Grouped
    <3>3. ASSUME NEW h \in GroupIds(group_info_')
          PROVE  docid_group_'[d] = h <=> Holds(group_info_', h, d)
      <4>1. docid_group_[d] = h <=> Holds(group_info_, h, d)
        BY <2>d DEF GroupInv, GroupsAgree
      <4>2. h # NoGroup
        BY <2>d DEF GroupIds
      <4>3. h = g => (Holds(group_info_', h, d) <=> d # x /\ Holds(group_info_, h, d))
        BY <2>a, <2>b, <2>d DEF Holds
      <4>4. h # g => (Holds(group_info_', h, d) <=> Holds(group_info_, h, d))
        BY <2>d DEF Holds
      <4> QED BY <3>1, <4>1, <4>2, <4>3, <4>4
    <3> QED BY <3>2, <3>3
  <2>3. FreeIdsAreUnused'
    BY <2>a, <2>c, <2>d DEF GroupInv, FreeIdsAreUnused, FreeIdsOf
  <2>4. SavedIsSound'
    BY <2>c DEF GroupInv, SavedIsSound
  <2> QED BY <2>1, <2>2, <2>3, <2>4 DEF GroupInv
<1> QED BY <1>1, <1>2

-----------------------------------------------------------------------------
(* The map InitMap_ builds from groups with no document in common agrees   *)
(* with them.                                                              *)
LEMMA InitMapAgrees ==
  ASSUME NEW info \in Seq(Bag), Disjoint(info)
  PROVE  /\ InitMap(info) \in [DocId -> Nat \cup {NoGroup}]
         /\ \A d \in DocId :
              /\ InitMap(info)[d] # NoGroup => InitMap(info)[d] \in GroupIds(info)
              /\ \A g \in GroupIds(info) : InitMap(info)[d] = g <=> Holds(info, g, d)
<1>1. GroupIds(info) \subseteq Nat /\ NoGroup \notin GroupIds(info)
  BY DEF GroupIds, NoGroup
<1>2. ASSUME NEW d \in DocId
      PROVE  /\ InitMap(info)[d] \in Nat \cup {NoGroup}
             /\ InitMap(info)[d] # NoGroup => InitMap(info)[d] \in GroupIds(info)
             /\ \A g \in GroupIds(info) : InitMap(info)[d] = g <=> Holds(info, g, d)
  <2>1. CASE \E g \in GroupIds(info) : Holds(info, g, d)
    <3>1. InitMap(info)[d] = CHOOSE g \in GroupIds(info) : Holds(info, g, d)
      BY <2>1 DEF InitMap
    <3>2. InitMap(info)[d] \in GroupIds(info) /\ Holds(info, InitMap(info)[d], d)
      BY <2>1, <3>1
    <3> QED BY <3>2, <1>1 DEF Disjoint
  <2>2. CASE ~\E g \in GroupIds(info) : Holds(info, g, d)
    <3>1. InitMap(info)[d] = NoGroup
      BY <2>2 DEF InitMap
    <3> QED BY <2>2, <3>1, <1>1
  <2> QED BY <2>1, <2>2
<1>3. InitMap(info) \in [DocId -> Nat \cup {NoGroup}]
  BY <1>2 DEF InitMap
<1> QED BY <1>2, <1>3

(* Set keeps the invariant because no number waits when it is called. *)
LEMMA SetKeepsInv ==
  ASSUME SetWithFreeIds = FALSE, NEW data \in SetData, GroupInv, Set(data)
  PROVE  GroupInv'
<1>1. /\ data \in Seq(Bag) /\ Disjoint(data)
      /\ group_info_' = data /\ docid_group_' = InitMap(data) /\ pc' = "set"
      /\ valid_groupid_ = <<>> /\ UNCHANGED <<valid_groupid_, file_, result>>
  BY SetDataAssumption DEF Set
<1>2. TypeOK'
  BY <1>1, InitMapAgrees DEF GroupInv, TypeOK
<1>3. GroupsAgree'
  BY <1>1, InitMapAgrees DEF GroupsAgree, Grouped
<1>4. FreeIdsAreUnused'
  BY <1>1 DEF FreeIdsAreUnused, FreeIdsOf
<1>5. SavedIsSound'
  BY <1>1 DEF GroupInv, SavedIsSound
<1> QED BY <1>2, <1>3, <1>4, <1>5 DEF GroupInv

LEMMA OpenForFlushKeepsInv == GroupInv /\ OpenForFlush => GroupInv'
<1> SUFFICES ASSUME GroupInv, OpenForFlush PROVE GroupInv'
  OBVIOUS
<1>1. UNCHANGED memory /\ (file_' = file_ \/ file_' = Truncated)
  BY DEF OpenForFlush
<1>2. TypeOK'
  BY <1>1 DEF OpenForFlush, memory, GroupInv, TypeOK
<1>3. GroupsAgree' /\ FreeIdsAreUnused'
  BY <1>1 DEF memory, GroupInv, GroupsAgree, FreeIdsAreUnused, Grouped
<1>4. SavedIsSound'
  BY <1>1 DEF GroupInv, SavedIsSound, Truncated
<1> QED BY <1>2, <1>3, <1>4 DEF GroupInv

(* What is written are the groups in memory: no two share a document,      *)
(* because the map can give a document one number only.                    *)
LEMMA WriteAndCloseKeepsInv == GroupInv /\ WriteAndClose => GroupInv'
<1> SUFFICES ASSUME GroupInv, WriteAndClose PROVE GroupInv'
  OBVIOUS
<1>1. /\ UNCHANGED memory
      /\ file_' = Saved(group_info_, valid_groupid_) \/ file_' = file_
  BY DEF WriteAndClose
<1>2. TypeOK'
  <2>1. pc' = "up" /\ result' \in BOOLEAN
    BY DEF WriteAndClose
  <2>2. CASE file_' = file_
    BY <1>1, <2>1, <2>2 DEF memory, GroupInv, TypeOK
  <2>3. CASE file_' = Saved(group_info_, valid_groupid_)
    BY <1>1, <2>1, <2>3 DEF memory, GroupInv, TypeOK, Saved
  <2> QED BY <1>1, <2>2, <2>3
<1>3. GroupsAgree' /\ FreeIdsAreUnused'
  BY <1>1 DEF memory, GroupInv, GroupsAgree, FreeIdsAreUnused, Grouped
<1>4. SavedIsSound'
  <2>1. Disjoint(group_info_)
    BY DEF GroupInv, GroupsAgree, Disjoint
  <2>2. FreeIdsOf(group_info_, valid_groupid_)
    BY DEF GroupInv, FreeIdsAreUnused
  <2> QED BY <1>1, <2>1, <2>2 DEF GroupInv, SavedIsSound, Saved
<1> QED BY <1>2, <1>3, <1>4 DEF GroupInv

(* With nothing in memory the map and the groups agree. *)
LEMMA EmptyTableIsSound ==
  ASSUME docid_group_ = [d \in DocId |-> NoGroup], group_info_ = <<>>, valid_groupid_ = <<>>
  PROVE  /\ GroupsAgree /\ FreeIdsAreUnused
         /\ docid_group_ \in [DocId -> Nat \cup {NoGroup}]
         /\ group_info_ \in Seq(Bag) /\ valid_groupid_ \in Seq(Nat)
BY DEF GroupsAgree, FreeIdsAreUnused, FreeIdsOf, Grouped, GroupIds

LEMMA StopKeepsInv == GroupInv /\ Stop => GroupInv'
<1> SUFFICES ASSUME GroupInv, Stop PROVE GroupInv'
  OBVIOUS
<1>1. /\ GroupsAgree' /\ FreeIdsAreUnused'
      /\ docid_group_' \in [DocId -> Nat \cup {NoGroup}]
      /\ group_info_' \in Seq(Bag) /\ valid_groupid_' \in Seq(Nat)
  BY DEF Stop, GroupsAgree, FreeIdsAreUnused, FreeIdsOf, Grouped, GroupIds
<1> QED BY <1>1 DEF Stop, GroupInv, TypeOK, SavedIsSound

LEMMA LoadKeepsInv == GroupInv /\ Load => GroupInv'
<1> SUFFICES ASSUME GroupInv, Load PROVE GroupInv'
  OBVIOUS
<1>1. CASE UNCHANGED memory
  BY <1>1 DEF Load, memory, GroupInv, TypeOK, GroupsAgree, FreeIdsAreUnused, SavedIsSound, Grouped
<1>2. CASE /\ file_.kind = "saved"
           /\ group_info_' = file_.info
           /\ valid_groupid_' = file_.free
           /\ docid_group_' = InitMap(file_.info)
  <2>1. file_.info \in Seq(Bag) /\ file_.free \in Seq(Nat)
    BY <1>2 DEF GroupInv, TypeOK, Absent, Truncated
  <2>2. Disjoint(file_.info) /\ FreeIdsOf(file_.info, file_.free)
    BY <1>2 DEF GroupInv, SavedIsSound
  <2>3. TypeOK'
    BY <1>2, <2>1, <2>2, InitMapAgrees DEF Load, GroupInv, TypeOK
  <2>4. GroupsAgree'
    BY <1>2, <2>1, <2>2, InitMapAgrees DEF GroupsAgree, Grouped
  <2>5. FreeIdsAreUnused' /\ SavedIsSound'
    BY <1>2, <2>2 DEF Load, FreeIdsAreUnused, SavedIsSound
  <2> QED BY <2>3, <2>4, <2>5 DEF GroupInv
<1> QED BY <1>1, <1>2 DEF Load

LEMMA RemoveFileKeepsInv == GroupInv /\ RemoveFile => GroupInv'
BY DEF RemoveFile, memory, GroupInv, TypeOK, GroupsAgree, FreeIdsAreUnused, SavedIsSound,
       Grouped, Absent

-----------------------------------------------------------------------------
LEMMA InitGroupInv == Init => GroupInv
<1> SUFFICES ASSUME Init PROVE GroupInv
  OBVIOUS
<1>1. /\ GroupsAgree /\ FreeIdsAreUnused
      /\ docid_group_ \in [DocId -> Nat \cup {NoGroup}]
      /\ group_info_ \in Seq(Bag) /\ valid_groupid_ \in Seq(Nat)
  BY EmptyTableIsSound DEF Init
<1> QED BY <1>1 DEF Init, GroupInv, TypeOK, SavedIsSound, Absent

LEMMA NextGroupInv == (SetWithFreeIds = FALSE) /\ GroupInv /\ [Next]_vars => GroupInv'
<1> SUFFICES ASSUME SetWithFreeIds = FALSE, GroupInv, [Next]_vars PROVE GroupInv'
  OBVIOUS
<1>1. ASSUME NEW d1 \in DocId, NEW d2 \in DocId, AddDoc(d1, d2) PROVE GroupInv'
  BY <1>1, AddDocKeepsInv
<1>2. ASSUME NEW d \in DocId, RemoveDoc(d) PROVE GroupInv'
  BY <1>2, RemoveDocKeepsInv
<1>3. ASSUME NEW data \in SetData, Set(data) PROVE GroupInv'
  BY <1>3, SetKeepsInv
<1>4. CASE OpenForFlush \/ WriteAndClose
  BY <1>4, OpenForFlushKeepsInv, WriteAndCloseKeepsInv
<1>5. CASE Stop \/ Load \/ RemoveFile
  BY <1>5, StopKeepsInv, LoadKeepsInv, RemoveFileKeepsInv
<1>6. CASE UNCHANGED vars
  BY <1>6 DEF vars, GroupInv, TypeOK, GroupsAgree, FreeIdsAreUnused, SavedIsSound, Grouped
<1> QED BY <1>1, <1>2, <1>3, <1>4, <1>5, <1>6 DEF Next

(* The table is sound for ever: the map and the groups agree and every     *)
(* number waiting to be used again is that of an empty group.              *)
THEOREM GroupTableIsSound ==
  ASSUME SetWithFreeIds = FALSE
  PROVE  Spec => []GroupInv
<1>1. SetWithFreeIds = FALSE
  OBVIOUS
<1>2. GroupInv /\ [Next]_vars => GroupInv'
  BY <1>1, NextGroupInv
<1> QED BY <1>2, InitGroupInv, PTL DEF Spec

THEOREM GroupTableType == ASSUME SetWithFreeIds = FALSE PROVE Spec => []TypeOK
<1>1. GroupInv => TypeOK
  BY DEF GroupInv
<1> QED BY <1>1, GroupTableIsSound, PTL

(* IsSameGroup and the lists of Find never disagree. *)
THEOREM MapAndGroupsAgree == ASSUME SetWithFreeIds = FALSE PROVE Spec => []GroupsAgree
<1>1. GroupInv => GroupsAgree
  BY DEF GroupInv
<1> QED BY <1>1, GroupTableIsSound, PTL

(* No number that waits to be used again is one of a group with documents. *)
THEOREM NoLiveGroupIsReused == ASSUME SetWithFreeIds = FALSE PROVE Spec => []FreeIdsAreUnused
<1>1. GroupInv => FreeIdsAreUnused
  BY DEF GroupInv
<1> QED BY <1>1, GroupTableIsSound, PTL

(* What Load would read, after any stop, is a table in which no document is *)
(* in two groups and no number waits that is in use.                        *)
THEOREM SavedTableIsSound == ASSUME SetWithFreeIds = FALSE PROVE Spec => []SavedIsSound
<1>1. GroupInv => SavedIsSound
  BY DEF GroupInv
<1> QED BY <1>1, GroupTableIsSound, PTL

-----------------------------------------------------------------------------
(* The refinement.  Its key is what an AddDoc does to the map alone: the   *)
(* documents of both classes, and only they, end up under one number that  *)
(* no other document has.                                                  *)
Joined(d1, d2) == Partition!ClassOf(d1) \cup Partition!ClassOf(d2)

LEMMA SameMembers ==
  ASSUME NEW x \in DocId, NEW y \in DocId
  PROVE  <<x, y>> \in Same <=> Grouped(x) /\ docid_group_[x] = docid_group_[y]
BY DEF Same, SameIn, Grouped

LEMMA SameMembersPrime ==
  ASSUME NEW x \in DocId, NEW y \in DocId
  PROVE  <<x, y>> \in Same' <=> docid_group_'[x] # NoGroup /\ docid_group_'[x] = docid_group_'[y]
BY DEF Same, SameIn

LEMMA JoinedMembers ==
  ASSUME NEW d1 \in DocId, NEW d2 \in DocId, NEW x \in DocId
  PROVE  x \in Joined(d1, d2)
           <=> \/ x = d1 \/ x = d2
               \/ Grouped(d1) /\ docid_group_[d1] = docid_group_[x]
               \/ Grouped(d2) /\ docid_group_[d2] = docid_group_[x]
BY SameMembers DEF Joined, Partition!ClassOf

LEMMA AddDocOnMap ==
  ASSUME NEW d1 \in DocId, NEW d2 \in DocId, GroupInv, AddDoc(d1, d2)
  PROVE  \E t \in Nat : \A x \in DocId :
           /\ docid_group_'[x] = IF x \in Joined(d1, d2) THEN t ELSE docid_group_[x]
           /\ x \notin Joined(d1, d2) => docid_group_[x] # t
<1> USE JoinedMembers DEF NoGroup
<1>0. docid_group_ \in [DocId -> Nat \cup {NoGroup}]
  BY DEF GroupInv, TypeOK
<1>1. CASE AddToNewGroup(d1, d2)
  <2>1. Len(group_info_) \in Nat
    BY DEF GroupInv, TypeOK
  <2>2. \A x \in DocId : docid_group_[x] # Len(group_info_)
    BY <1>0, <2>1 DEF GroupInv, GroupsAgree, Grouped, GroupIds
  <2>3. \A x \in DocId :
          docid_group_'[x] = IF x = d1 \/ x = d2 THEN Len(group_info_) ELSE docid_group_[x]
    BY <1>0, <1>1 DEF AddToNewGroup
  <2>4. \A x \in DocId : x \in Joined(d1, d2) <=> x = d1 \/ x = d2
    BY <1>1 DEF AddToNewGroup
  <2> QED BY <2>1, <2>2, <2>3, <2>4
<1>2. CASE AddToFreedGroup(d1, d2)
  <2> DEFINE g == Head(valid_groupid_)
  <2>1. valid_groupid_ \in Seq(Nat) /\ Len(valid_groupid_) > 0 /\ g = valid_groupid_[1]
    BY <1>2 DEF GroupInv, TypeOK, AddToFreedGroup
  <2>2. g \in Nat /\ g \in GroupIds(group_info_) /\ Group(group_info_, g) = EmptyBag
    BY <2>1 DEF GroupInv, FreeIdsAreUnused, FreeIdsOf
  <2>3. \A x \in DocId : docid_group_[x] # g
    BY <2>2 DEF GroupInv, GroupsAgree, Holds, EmptyBag
  <2>4. \A x \in DocId : docid_group_'[x] = IF x = d1 \/ x = d2 THEN g ELSE docid_group_[x]
    BY <1>0, <1>2 DEF AddToFreedGroup
  <2> HIDE DEF g
  <2>5. \A x \in DocId : x \in Joined(d1, d2) <=> x = d1 \/ x = d2
    BY <1>2 DEF AddToFreedGroup
  <2> QED BY <2>2, <2>3, <2>4, <2>5
<1>3. CASE Join(d1, d2)
  BY <1>0, <1>3 DEF Join, Grouped
<1>4. CASE Join(d2, d1)
  BY <1>0, <1>4 DEF Join, Grouped
<1>5. CASE MergeGroups(d1, d2)
  <2> DEFINE g1 == docid_group_[d1]
             g2 == docid_group_[d2]
             from == IF g1 > g2 THEN g1 ELSE g2
             to == IF g1 > g2 THEN g2 ELSE g1
  <2>1. g1 \in Nat /\ g2 \in Nat /\ g1 # g2 /\ Grouped(d1) /\ Grouped(d2)
    BY <1>0, <1>5 DEF MergeGroups, Grouped
  <2>2. from \in GroupIds(group_info_)
    BY <2>1, GroupedHeld DEF GroupInv
  <2>3. /\ (from = g1 /\ to = g2) \/ (from = g2 /\ to = g1)
        /\ to \in Nat
    BY <2>1
  <2>4. docid_group_' = [d \in DocId |-> IF Group(group_info_, from)[d] > 0 THEN to ELSE docid_group_[d]]
    BY <1>5 DEF MergeGroups
  <2> HIDE DEF from, to
  <2>5. \A x \in DocId : Group(group_info_, from)[x] > 0 <=> docid_group_[x] = from
    BY <2>2 DEF GroupInv, GroupsAgree, Holds
  <2>6. \A x \in DocId : docid_group_'[x] = IF docid_group_[x] = from THEN to ELSE docid_group_[x]
    BY <2>4, <2>5
  <2>7. \A x \in DocId : x \in Joined(d1, d2) <=> docid_group_[x] = from \/ docid_group_[x] = to
    BY <2>1, <2>3
  <2> QED BY <2>3, <2>6, <2>7
<1>6. CASE AlreadyTogether(d1, d2)
  BY <1>0, <1>6 DEF AlreadyTogether, memory, Grouped
<1> QED BY <1>1, <1>2, <1>3, <1>4, <1>5, <1>6 DEF AddDoc

(* An AddDoc changes the relation as the discovery of its pair does. *)
LEMMA AddDocDiscovers ==
  ASSUME NEW d1 \in DocId, NEW d2 \in DocId, GroupInv, AddDoc(d1, d2)
  PROVE  Same' = Same \cup (Joined(d1, d2) \X Joined(d1, d2))
<1>1. PICK t \in Nat : \A x \in DocId :
        /\ docid_group_'[x] = IF x \in Joined(d1, d2) THEN t ELSE docid_group_[x]
        /\ x \notin Joined(d1, d2) => docid_group_[x] # t
  BY AddDocOnMap
<1>2. Joined(d1, d2) \subseteq DocId
  BY DEF Joined, Partition!ClassOf
<1>3. Same \subseteq DocId \X DocId /\ Same' \subseteq DocId \X DocId
  BY DEF Same, SameIn
<1>4. ASSUME NEW x \in DocId, NEW y \in DocId
      PROVE  <<x, y>> \in Same' <=>
               <<x, y>> \in Same \/ (x \in Joined(d1, d2) /\ y \in Joined(d1, d2))
  <2>1. CASE x \in Joined(d1, d2) /\ y \in Joined(d1, d2)
    BY <2>1, <1>1, SameMembersPrime DEF NoGroup
  <2>2. CASE x \in Joined(d1, d2) /\ y \notin Joined(d1, d2)
    <3>1. docid_group_'[x] # docid_group_'[y]
      BY <2>2, <1>1
    <3>2. ~(Grouped(x) /\ docid_group_[x] = docid_group_[y])
      BY <2>2, JoinedMembers DEF Grouped
    <3> QED BY <2>2, <3>1, <3>2, SameMembers, SameMembersPrime
  <2>3. CASE x \notin Joined(d1, d2) /\ y \in Joined(d1, d2)
    <3>1. docid_group_'[x] # docid_group_'[y]
      BY <2>3, <1>1
    <3>2. ~(Grouped(x) /\ docid_group_[x] = docid_group_[y])
      BY <2>3, JoinedMembers DEF Grouped
    <3> QED BY <2>3, <3>1, <3>2, SameMembers, SameMembersPrime
  <2>4. CASE x \notin Joined(d1, d2) /\ y \notin Joined(d1, d2)
    BY <2>4, <1>1, SameMembers, SameMembersPrime DEF Grouped
  <2> QED BY <2>1, <2>2, <2>3, <2>4
<1> QED BY <1>2, <1>3, <1>4

(* The value AddDoc returns says whether it changed the relation. *)
LEMMA AddDocReports ==
  ASSUME NEW d1 \in DocId, NEW d2 \in DocId, GroupInv, AddDoc(d1, d2)
  PROVE  result' <=> Same' # Same
<1>0. <<d1, d2>> \in Same'
  <2>1. d1 \in Joined(d1, d2) /\ d2 \in Joined(d1, d2)
    BY DEF Joined, Partition!ClassOf
  <2> QED BY <2>1, AddDocDiscovers
<1>1. CASE AlreadyTogether(d1, d2)
  <2>1. docid_group_' = docid_group_ /\ result' = FALSE
    BY <1>1 DEF AlreadyTogether, memory
  <2>2. Same' = Same
    BY <2>1 DEF Same, SameIn
  <2> QED BY <2>1, <2>2
<1>2. CASE ~AlreadyTogether(d1, d2)
  <2>1. result' = TRUE /\ ~(Grouped(d1) /\ docid_group_[d1] = docid_group_[d2])
    BY <1>2 DEF AddDoc, AddToNewGroup, AddToFreedGroup, Join, MergeGroups, AlreadyTogether, Grouped
  <2>2. <<d1, d2>> \notin Same
    BY <2>1, SameMembers
  <2> QED BY <1>0, <2>1, <2>2
<1> QED BY <1>1, <1>2

(* AddDoc returns whether the pair is a discovery. *)
THEOREM DiscoveriesAreReported ==
  ASSUME SetWithFreeIds = FALSE
  PROVE  Spec => DiscoveryIsReported
<1>1. GroupInv /\ [Next]_vars
        => [\A d1, d2 \in DocId : AddDoc(d1, d2) => (result' <=> Same' # Same)]_vars
  BY AddDocReports
<1> QED BY <1>1, GroupTableIsSound, PTL DEF Spec, DiscoveryIsReported

-----------------------------------------------------------------------------
(* While the program is down there is nothing in memory. *)
DownIsEmpty == pc = "down" => docid_group_ = [d \in DocId |-> NoGroup]

LEMMA DownStaysEmpty == Spec => []DownIsEmpty
<1>1. Init => DownIsEmpty
  BY DEF Init, DownIsEmpty
<1>2. DownIsEmpty /\ [Next]_vars => DownIsEmpty'
  BY DEF DownIsEmpty, Next, vars, AddDoc, RemoveDoc, Set, OpenForFlush, WriteAndClose, Stop,
         Load, RemoveFile, memory
<1> QED BY <1>1, <1>2, PTL DEF Spec

LEMMA EmptySame == docid_group_ = [d \in DocId |-> NoGroup] => Same = {}
BY DEF Same, SameIn

(* The file gives back the relation of the groups it was written from. *)
LEMMA InitMapIsMap == GroupInv => InitMap(group_info_) = docid_group_
<1> SUFFICES ASSUME GroupInv PROVE InitMap(group_info_) = docid_group_
  OBVIOUS
<1>1. group_info_ \in Seq(Bag) /\ docid_group_ \in [DocId -> Nat \cup {NoGroup}]
  BY DEF GroupInv, TypeOK
<1>2. Disjoint(group_info_)
  BY DEF GroupInv, GroupsAgree, Disjoint
<1>3. InitMap(group_info_) \in [DocId -> Nat \cup {NoGroup}]
  BY <1>1, <1>2, InitMapAgrees
<1>4. ASSUME NEW d \in DocId PROVE InitMap(group_info_)[d] = docid_group_[d]
  <2>1. /\ InitMap(group_info_)[d] # NoGroup => InitMap(group_info_)[d] \in GroupIds(group_info_)
        /\ \A g \in GroupIds(group_info_) :
             InitMap(group_info_)[d] = g <=> Holds(group_info_, g, d)
    BY <1>1, <1>2, InitMapAgrees
  <2>2. /\ docid_group_[d] # NoGroup => docid_group_[d] \in GroupIds(group_info_)
        /\ \A g \in GroupIds(group_info_) : docid_group_[d] = g <=> Holds(group_info_, g, d)
    BY DEF GroupInv, GroupsAgree, Grouped
  <2> QED BY <2>1, <2>2
<1> QED BY <1>1, <1>3, <1>4

(* Every step of the table is a step of the partition or changes nothing. *)
LEMMA StepRefines ==
  ASSUME GroupInv, DownIsEmpty, [Next]_vars
  PROVE  [Partition!Next]_(Partition!vars)
<1> USE DEF Partition!vars, Partition!Next
<1>1. ASSUME NEW d1 \in DocId, NEW d2 \in DocId, AddDoc(d1, d2)
      PROVE  Partition!Discover(d1, d2)
  BY <1>1, AddDocDiscovers DEF Partition!Discover, Joined, AddDoc, SavedSame
<1>2. ASSUME NEW d \in DocId, RemoveDoc(d) PROVE Partition!Remove(d)
  <2>1. \A x \in DocId : docid_group_'[x] = IF x = d THEN NoGroup ELSE docid_group_[x]
    BY <1>2 DEF RemoveDoc, Grouped, GroupInv, TypeOK
  <2>2. \A x, y \in DocId : <<x, y>> \in Same' <=> <<x, y>> \in Same /\ x # d /\ y # d
    <3> SUFFICES ASSUME NEW x \in DocId, NEW y \in DocId
                 PROVE  <<x, y>> \in Same' <=> <<x, y>> \in Same /\ x # d /\ y # d
      OBVIOUS
    <3>1. <<x, y>> \in Same <=> docid_group_[x] # NoGroup /\ docid_group_[x] = docid_group_[y]
      BY SameMembers DEF Grouped
    <3>2. <<x, y>> \in Same' <=> docid_group_'[x] # NoGroup /\ docid_group_'[x] = docid_group_'[y]
      BY SameMembersPrime
    <3> QED BY <2>1, <3>1, <3>2
  <2>3. Same \subseteq DocId \X DocId /\ Same' \subseteq DocId \X DocId
    BY DEF Same, SameIn
  <2>4. Same' = {p \in Same : p[1] # d /\ p[2] # d}
    BY <2>2, <2>3
  <2>5. SavedSame' = SavedSame
    BY <1>2 DEF RemoveDoc, SavedSame
  <2> QED BY <2>4, <2>5 DEF Partition!Remove
<1>3. ASSUME NEW data \in SetData, Set(data) PROVE Partition!Replace
  <2>1. SavedSame' = SavedSame
    BY <1>3 DEF Set, SavedSame
  <2>2. Same' = SameIn(InitMap(data))
    BY <1>3 DEF Set, Same
  <2> QED BY <2>1, <2>2 DEF Partition!Replace, SetRelations
<1>4. CASE OpenForFlush
  <2>1. Same' = Same
    BY <1>4 DEF OpenForFlush, memory, Same
  <2>2. CASE file_' = Truncated
    BY <2>1, <2>2 DEF Partition!BeginSave, Partition!NotSaved, SavedSame, Truncated
  <2>3. CASE UNCHANGED file_
    BY <2>1, <2>3 DEF SavedSame
  <2> QED BY <1>4, <2>2, <2>3 DEF OpenForFlush
<1>5. CASE WriteAndClose
  <2>1. Same' = Same
    BY <1>5 DEF WriteAndClose, memory, Same
  <2>2. CASE file_' = Saved(group_info_, valid_groupid_)
    <3>1. SavedSame' = SameIn(InitMap(group_info_))
      BY <2>2 DEF Saved, SavedSame
    <3>2. SavedSame' = Same
      BY <3>1, InitMapIsMap DEF Same
    <3> QED BY <2>1, <3>2 DEF Partition!EndSave
  <2>3. CASE UNCHANGED file_
    BY <2>1, <2>3 DEF SavedSame
  <2> QED BY <1>5, <2>2, <2>3 DEF WriteAndClose
<1>6. CASE Stop
  <2>1. Same' = {}
    BY <1>6 DEF Stop, Same, SameIn
  <2>2. SavedSame' = SavedSame
    BY <1>6 DEF Stop, SavedSame
  <2> QED BY <2>1, <2>2 DEF Partition!Crash
<1>7. CASE Load
  <2>1. Same = {} /\ SavedSame' = SavedSame
    BY <1>7, EmptySame DEF Load, DownIsEmpty, SavedSame
  <2>2. CASE UNCHANGED memory
    BY <2>1, <2>2 DEF memory, Same
  <2>3. CASE file_.kind = "saved" /\ docid_group_' = InitMap(file_.info)
    <3>1. SavedSame = SameIn(InitMap(file_.info)) /\ Same' = SavedSame
      BY <2>3 DEF SavedSame, Same
    <3>2. SavedSame \subseteq DocId \X DocId /\ \A p \in DocId \X DocId : p # <<>>
      BY <3>1 DEF SameIn
    <3>3. SavedSame # {<<>>}
      BY <3>2
    <3> QED BY <2>1, <3>1, <3>3 DEF Partition!Restore, Partition!NotSaved
  <2> QED BY <1>7, <2>2, <2>3 DEF Load
<1>8. CASE RemoveFile
  <2>1. Same = {} /\ Same' = Same
    BY <1>8, EmptySame DEF RemoveFile, DownIsEmpty, memory, Same
  <2>2. SavedSame' = {}
    BY <1>8 DEF RemoveFile, SavedSame, Absent
  <2> QED BY <2>1, <2>2 DEF Partition!Discard
<1>9. CASE UNCHANGED vars
  BY <1>9 DEF vars, Same, SavedSame
<1> QED BY <1>1, <1>2, <1>3, <1>4, <1>5, <1>6, <1>7, <1>8, <1>9 DEF Next

(* The table of groups implements the partition of the documents. *)
THEOREM TableImplementsPartition ==
  ASSUME SetWithFreeIds = FALSE
  PROVE  Spec => ImplementsPartition
<1>1. Init => Partition!Init
  BY EmptySame DEF Init, Partition!Init, SavedSame, Absent
<1>2. GroupInv /\ DownIsEmpty /\ [Next]_vars => [Partition!Next]_(Partition!vars)
  BY StepRefines
<1> QED BY <1>1, <1>2, GroupTableIsSound, DownStaysEmpty, PTL
        DEF Spec, ImplementsPartition, Partition!Spec
=============================================================================
