----------------------------- MODULE GroupTable -----------------------------
(***************************************************************************)
(* The table of duplicate groups (duplicate-detection/group_table.h).      *)
(*                                                                         *)
(* A document's group is kept twice: docid_group_ maps the document to the *)
(* number of its group, and group_info_, a vector indexed by that number,  *)
(* lists the documents of each group.  Numbers given up by a merge wait in *)
(* the queue valid_groupid_ and are handed out again.  Flush writes        *)
(* group_info_ and valid_groupid_ over the file; Load rebuilds the map.    *)
(*                                                                         *)
(* A group is a bag of documents: nothing in the program tells apart the   *)
(* order of a group's vector, but a document may be in it twice.           *)
(***************************************************************************)
EXTENDS Integers, Sequences

CONSTANTS
  DocId,          (* the documents                                         *)
  SetData,        (* the arguments Set is called with                      *)
  MaxGroups,      (* bound: group_info_ does not grow beyond this          *)
  SetWithFreeIds  (* may Set be called while valid_groupid_ is not empty?  *)

VARIABLES
  docid_group_,   (* DocId -> group number, NoGroup where find() is NULL   *)
  group_info_,    (* sequence of bags; group number g is element g + 1     *)
  valid_groupid_, (* queue of the group numbers to use again               *)
  file_,          (* what is on disk                                       *)
  result,         (* what the last AddDoc, RemoveDoc, Flush, Load returned *)
  pc              (* where the owner of the table is                       *)

memory == <<docid_group_, group_info_, valid_groupid_>>
vars == <<docid_group_, group_info_, valid_groupid_, file_, result, pc>>

NoGroup == -1
Bag == [DocId -> Nat]
EmptyBag == [d \in DocId |-> 0]

Absent == [kind |-> "absent"]
Truncated == [kind |-> "truncated"]
Saved(info, free) == [kind |-> "saved", info |-> info, free |-> free]

(* The group of number g in a vector of groups, and the numbers in use. *)
Group(info, g) == info[g + 1]
GroupIds(info) == 0 .. (Len(info) - 1)
Holds(info, g, d) == Group(info, g)[d] > 0

(* No document is in two groups: what Set's argument must satisfy. *)
Disjoint(info) ==
  \A g, h \in GroupIds(info) : \A d \in DocId :
    Holds(info, g, d) /\ Holds(info, h, d) => g = h

ASSUME MaxGroupsAssumption == MaxGroups \in Nat
ASSUME SetDataAssumption == \A info \in SetData : info \in Seq(Bag) /\ Disjoint(info)
ASSUME SetWithFreeIdsAssumption == SetWithFreeIds \in BOOLEAN

(* InitMap_: the map a vector of groups gives. *)
InitMap(info) ==
  [d \in DocId |->
     IF \E g \in GroupIds(info) : Holds(info, g, d)
     THEN CHOOSE g \in GroupIds(info) : Holds(info, g, d)
     ELSE NoGroup]

(* The bag of the vector [docid1, docid2]. *)
Pair(d1, d2) ==
  [d \in DocId |-> IF d = d1 /\ d = d2 THEN 2 ELSE IF d = d1 \/ d = d2 THEN 1 ELSE 0]

Grouped(d) == docid_group_[d] # NoGroup

-----------------------------------------------------------------------------
(* Plausible bugs, which the runs are shown to catch.                      *)

(* Mutant: A merge frees the number of the group that stays. *)
MergeGroups_WrongIdFreed(d1, d2) ==
  LET g1 == docid_group_[d1]
      g2 == docid_group_[d2]
      from == IF g1 > g2 THEN g1 ELSE g2
      to == IF g1 > g2 THEN g2 ELSE g1
      moved == Group(group_info_, from)
  IN  /\ Grouped(d1) /\ Grouped(d2) /\ g1 # g2
      /\ docid_group_' = [d \in DocId |-> IF moved[d] > 0 THEN to ELSE docid_group_[d]]
      /\ group_info_' = [group_info_ EXCEPT
                           ![to + 1] = [d \in DocId |-> @[d] + moved[d]],
                           ![from + 1] = EmptyBag]
      /\ valid_groupid_' = Append(valid_groupid_, to)
      /\ result' = TRUE

(* Mutant: A merge re-maps the two documents of the pair only. *)
MergeGroups_MapNotUpdated(d1, d2) ==
  LET g1 == docid_group_[d1]
      g2 == docid_group_[d2]
      from == IF g1 > g2 THEN g1 ELSE g2
      to == IF g1 > g2 THEN g2 ELSE g1
      moved == Group(group_info_, from)
  IN  /\ Grouped(d1) /\ Grouped(d2) /\ g1 # g2
      /\ docid_group_' = [docid_group_ EXCEPT ![d1] = to, ![d2] = to]
      /\ group_info_' = [group_info_ EXCEPT
                           ![to + 1] = [d \in DocId |-> @[d] + moved[d]],
                           ![from + 1] = EmptyBag]
      /\ valid_groupid_' = Append(valid_groupid_, from)
      /\ result' = TRUE

(* Mutant: A pair known already is reported as a discovery. *)
AlreadyTogether_Discovery(d1, d2) ==
  /\ Grouped(d1) /\ docid_group_[d1] = docid_group_[d2]
  /\ result' = TRUE
  /\ UNCHANGED memory

(* Mutant: Removing a document drops its whole group. *)
RemoveDoc_DropsGroup(d) ==
  /\ pc = "up"
  /\ result' = Grouped(d)
  /\ LET gone == {x \in DocId : Grouped(d) /\ docid_group_[x] = docid_group_[d]}
     IN  /\ docid_group_' = [x \in DocId |-> IF x \in gone THEN NoGroup ELSE docid_group_[x]]
         /\ group_info_' = [i \in 1 .. Len(group_info_) |->
                              [x \in DocId |-> IF x \in gone THEN 0 ELSE group_info_[i][x]]]
  /\ UNCHANGED <<valid_groupid_, file_, pc>>

(* Mutant: A merge erases the wrong group's documents from the one it empties. *)
MergeGroups_ErasesTheOther(d1, d2) ==
  LET g1 == docid_group_[d1]
      g2 == docid_group_[d2]
      from == IF g1 > g2 THEN g1 ELSE g2
      to == IF g1 > g2 THEN g2 ELSE g1
      moved == Group(group_info_, from)
      kept == Group(group_info_, to)
  IN  /\ Grouped(d1) /\ Grouped(d2) /\ g1 # g2
      /\ docid_group_' = [d \in DocId |-> IF moved[d] > 0 THEN to ELSE docid_group_[d]]
      /\ group_info_' = [group_info_ EXCEPT
                           ![to + 1] = [d \in DocId |-> kept[d] + moved[d]],
                           ![from + 1] = [d \in DocId |-> moved[d] - kept[d]]]
      /\ valid_groupid_' = Append(valid_groupid_, from)
      /\ result' = TRUE

(* Mutant: Flush leaves the empty groups out without renumbering. *)
WriteAndClose_DropsEmptyGroups ==
  /\ pc = "flushing"
  /\ \/ /\ file_' = Saved(SelectSeq(group_info_, LAMBDA g : g # EmptyBag), valid_groupid_)
        /\ result' = TRUE
     \/ /\ result' = FALSE
        /\ UNCHANGED file_
  /\ pc' = "up"
  /\ UNCHANGED memory

-----------------------------------------------------------------------------
(* AddDoc, one action per case of the code.                                *)

(* [c1] Neither document is grouped and no number waits to be used again. *)
AddToNewGroup(d1, d2) ==
  /\ ~Grouped(d1) /\ ~Grouped(d2)
  /\ valid_groupid_ = <<>>
  /\ Len(group_info_) < MaxGroups
  /\ docid_group_' = [docid_group_ EXCEPT ![d1] = Len(group_info_), ![d2] = Len(group_info_)]
  /\ group_info_' = Append(group_info_, Pair(d1, d2))
  /\ result' = TRUE
  /\ UNCHANGED valid_groupid_

(* [c1-1] Neither is grouped: the slot of a merged group is used again,    *)
(* whatever it holds.  A number outside the vector would be a write out of *)
(* bounds: nothing is modelled after it.                                   *)
AddToFreedGroup(d1, d2) ==
  /\ ~Grouped(d1) /\ ~Grouped(d2)
  /\ valid_groupid_ # <<>>
  /\ LET g == Head(valid_groupid_)
     IN  /\ g \in GroupIds(group_info_)
         /\ docid_group_' = [docid_group_ EXCEPT ![d1] = g, ![d2] = g]
         /\ group_info_' = [group_info_ EXCEPT ![g + 1] = Pair(d1, d2)]
  /\ valid_groupid_' = Tail(valid_groupid_)
  /\ result' = TRUE

(* A document that is not grouped joins the group of one that is. *)
Join(new, old) ==
  LET g == docid_group_[old]
      joined == Group(group_info_, g)
  IN  /\ ~Grouped(new) /\ Grouped(old)
      /\ docid_group_' = [docid_group_ EXCEPT ![new] = g]
      /\ group_info_' = [group_info_ EXCEPT ![g + 1] = [joined EXCEPT ![new] = joined[new] + 1]]
      /\ result' = TRUE
      /\ UNCHANGED valid_groupid_

(* [c4] Both are grouped, apart: the group of the larger number moves into *)
(* the other one and its number is free.                                   *)
MergeGroups(d1, d2) ==
  LET g1 == docid_group_[d1]
      g2 == docid_group_[d2]
      from == IF g1 > g2 THEN g1 ELSE g2
      to == IF g1 > g2 THEN g2 ELSE g1
      moved == Group(group_info_, from)
  IN  /\ Grouped(d1) /\ Grouped(d2) /\ g1 # g2
      /\ docid_group_' = [d \in DocId |-> IF moved[d] > 0 THEN to ELSE docid_group_[d]]
      /\ group_info_' = [group_info_ EXCEPT
                           ![to + 1] = [d \in DocId |-> @[d] + moved[d]],
                           ![from + 1] = EmptyBag]
      /\ valid_groupid_' = Append(valid_groupid_, from)
      /\ result' = TRUE

(* Both are in one group already: not a discovery. *)
AlreadyTogether(d1, d2) ==
  /\ Grouped(d1) /\ docid_group_[d1] = docid_group_[d2]
  /\ result' = FALSE
  /\ UNCHANGED memory

AddDoc(d1, d2) ==
  /\ pc = "up"
  /\ \/ AddToNewGroup(d1, d2)
     \/ AddToFreedGroup(d1, d2)
     \/ Join(d1, d2)
     \/ Join(d2, d1)
     \/ MergeGroups(d1, d2)
     \/ AlreadyTogether(d1, d2)
  /\ UNCHANGED <<file_, pc>>
-----------------------------------------------------------------------------
(* RemoveDoc: the group may be left empty; its number is not freed. *)
RemoveDoc(d) ==
  /\ pc = "up"
  /\ result' = Grouped(d)
  /\ \/ LET g == docid_group_[d]
        IN  /\ Grouped(d)
            /\ docid_group_' = [docid_group_ EXCEPT ![d] = NoGroup]
            /\ group_info_' = [group_info_ EXCEPT
                                 ![g + 1] = [Group(group_info_, g) EXCEPT ![d] = 0]]
     \/ ~Grouped(d) /\ UNCHANGED <<docid_group_, group_info_>>
  /\ UNCHANGED <<valid_groupid_, file_, pc>>

(* Set: other groups are put in place, the free numbers stay as they are.  *)
(* It ends with a Flush.                                                   *)
Set(data) ==
  /\ pc = "up"
  /\ SetWithFreeIds \/ valid_groupid_ = <<>>
  /\ group_info_' = data
  /\ docid_group_' = InitMap(data)
  /\ pc' = "set"
  /\ UNCHANGED <<valid_groupid_, file_, result>>

(* Flush: opening the stream empties the file (or fails), and only then is *)
(* the table written; where the stream has failed by the time it is        *)
(* closed, the file stays one that cannot be read.                         *)
OpenForFlush ==
  /\ pc \in {"up", "set"}
  /\ \/ /\ file_' = Truncated
        /\ pc' = "flushing"
        /\ UNCHANGED result
     \/ /\ pc' = "up"
        /\ result' = FALSE
        /\ UNCHANGED file_
  /\ UNCHANGED memory

WriteAndClose ==
  /\ pc = "flushing"
  /\ \/ /\ file_' = Saved(group_info_, valid_groupid_)
        /\ result' = TRUE
     \/ /\ result' = FALSE
        /\ UNCHANGED file_
  /\ pc' = "up"
  /\ UNCHANGED memory

(* The program ends, at any point: a table is only what is in memory. *)
Stop ==
  /\ pc # "down"
  /\ docid_group_' = [d \in DocId |-> NoGroup]
  /\ group_info_' = <<>>
  /\ valid_groupid_' = <<>>
  /\ result' = FALSE
  /\ pc' = "down"
  /\ UNCHANGED file_

(* Construction and Load.  Reading a file that was not written to the end  *)
(* throws out of Load, so there is no such step.  A file that cannot be    *)
(* opened leaves the table empty, and the program may go on with it.  That *)
(* the close fails after all was read is left out.                         *)
Load ==
  /\ pc = "down"
  /\ \/ /\ file_ = Absent
        /\ result' = TRUE
        /\ UNCHANGED memory
     \/ /\ file_ # Absent
        /\ result' = FALSE
        /\ UNCHANGED memory
     \/ /\ file_.kind = "saved"
        /\ group_info_' = file_.info
        /\ valid_groupid_' = file_.free
        /\ docid_group_' = InitMap(file_.info)
        /\ result' = TRUE
  /\ pc' = "up"
  /\ UNCHANGED file_

(* Whoever runs the program deletes the file, as the tests do. *)
RemoveFile ==
  /\ pc = "down" /\ file_ # Absent
  /\ file_' = Absent
  /\ UNCHANGED <<memory, result, pc>>

Init ==
  /\ docid_group_ = [d \in DocId |-> NoGroup]
  /\ group_info_ = <<>>
  /\ valid_groupid_ = <<>>
  /\ file_ = Absent
  /\ result = FALSE
  /\ pc = "down"

Next ==
  \/ \E d1, d2 \in DocId : AddDoc(d1, d2)
  \/ \E d \in DocId : RemoveDoc(d)
  \/ \E data \in SetData : Set(data)
  \/ OpenForFlush \/ WriteAndClose
  \/ Stop \/ Load \/ RemoveFile

Spec == Init /\ [][Next]_vars
-----------------------------------------------------------------------------
(* Every variable has its type. *)
TypeOK ==
  /\ docid_group_ \in [DocId -> Nat \cup {NoGroup}]
  /\ group_info_ \in Seq(Bag)
  /\ valid_groupid_ \in Seq(Nat)
  /\ \/ file_ \in {Absent, Truncated}
     \/ file_ \in [kind : {"saved"}, info : Seq(Bag), free : Seq(Nat)]
  /\ result \in BOOLEAN
  /\ pc \in {"down", "up", "set", "flushing"}

(* The map and the vector of groups say the same: the list Find returns    *)
(* for a document is the documents IsSameGroup says are with it, itself    *)
(* included, and a document the map does not know is in no list.           *)
GroupsAgree ==
  \A d \in DocId :
    /\ Grouped(d) => docid_group_[d] \in GroupIds(group_info_)
    /\ \A g \in GroupIds(group_info_) : docid_group_[d] = g <=> Holds(group_info_, g, d)

(* Find(d): "docids that are in the same group" (group_table.h:216-218).    *)
FindReturnsTheSameGroup ==
  \A d \in DocId : Grouped(d) =>
    /\ docid_group_[d] \in GroupIds(group_info_)
    /\ {x \in DocId : Holds(group_info_, docid_group_[d], x)}
         = {x \in DocId : docid_group_[x] = docid_group_[d]}

(* A number waiting to be used again is one of an empty group and waits    *)
(* once: AddDoc never overwrites a group that has documents ([c1-1]).      *)
FreeIdsOf(info, free) ==
  /\ \A i \in 1 .. Len(free) :
       free[i] \in GroupIds(info) /\ Group(info, free[i]) = EmptyBag
  /\ \A i, j \in 1 .. Len(free) : free[i] = free[j] => i = j

FreeIdsAreUnused == FreeIdsOf(group_info_, valid_groupid_)

(* The inductive invariant: the same holds of what Load would read. *)
SavedIsSound ==
  file_.kind = "saved" => Disjoint(file_.info) /\ FreeIdsOf(file_.info, file_.free)

GroupInv == TypeOK /\ GroupsAgree /\ FreeIdsAreUnused /\ SavedIsSound

(* The relation the table stands for, in memory and on disk. *)
SameIn(map) == {p \in DocId \X DocId : map[p[1]] # NoGroup /\ map[p[1]] = map[p[2]]}

Same == SameIn(docid_group_)

SavedSame ==
  CASE file_.kind = "absent" -> {}
    [] file_.kind = "truncated" -> {<<>>}
    [] file_.kind = "saved" -> SameIn(InitMap(file_.info))

(* AddDoc returns whether the pair is a discovery: whether it changed which *)
(* documents are duplicates of each other ("Return whether this is a        *)
(* discovery", group_table.h:80).                                           *)
DiscoveryIsReported ==
  [][\A d1, d2 \in DocId : AddDoc(d1, d2) => (result' <=> Same' # Same)]_vars

(* The table implements the partition of the documents: every operation,   *)
(* the merges and the reuse of numbers included, changes the relation as   *)
(* DupPartition says, and a restart brings back what was saved.            *)
SetRelations == {SameIn(InitMap(data)) : data \in SetData}

Partition ==
  INSTANCE DupPartition
    WITH same <- Same, saved <- SavedSame, Relations <- SetRelations
ImplementsPartition == Partition!Spec
=============================================================================
