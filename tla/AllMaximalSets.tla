--------------------------- MODULE AllMaximalSets ---------------------------
(***************************************************************************)
(* AllMaximalSetsSateLite (source/itemset/): the sets of a data source are *)
(* read and listed under each of their items; a set that is properly       *)
(* contained in none of those listed under its first item is written.      *)
(*                                                                         *)
(* A set is a sequence of distinct items, in any order: what is read is    *)
(* neither sorted nor looked at (data-source-iterator.cpp:76).  Sets that  *)
(* are empty are left out, although they are read as any other: the first  *)
(* item of one, which the search looks at, does not exist.                 *)
(*                                                                         *)
(* The object may be used again, for another source, after a search that   *)
(* failed as well.  The data set is read one set at a time, and checked    *)
(* one set at a time.                                                      *)
(***************************************************************************)
EXTENDS Integers, Sequences, FiniteSets, SequencesExt

CONSTANTS
  MaxItem,             (* the items are 1 .. MaxItem, and max_item_id is   *)
                       (* larger                                           *)
  Sources,             (* the data there may be, sequences of sets         *)
  RamLimits            (* what max_items_in_ram may be                     *)

VARIABLES
  data,                (* the sets of the source                           *)
  max_items_in_ram,
  next,                (* how many were read, or how many were checked     *)
  all_sets_,           (* the sets that were read                          *)
  occurs_,             (* per item the indices in all_sets_ of those that  *)
                       (* have it                                          *)
  items_in_ram,
  os,                  (* the sets written by this search                  *)
  search               (* "none", "reading", "checking", "found", "failed" *)

vars == <<data, max_items_in_ram, next, all_sets_, occurs_, items_in_ram, os, search>>

Items == 1 .. MaxItem
AsSet(s) == ToSet(s)

-----------------------------------------------------------------------------
(* Where the binary search for v in s, from first on, ends: at an item     *)
(* that is not less than v, which is the first such item if they are in    *)
(* ascending order, or at the end.  count is how many items are left, the  *)
(* first of them at from.                                                  *)
LowerBound(s, first, v) ==
  LET search_[count \in 0 .. Len(s)] ==
        LET half == count \div 2
        IN  [from \in 1 .. Len(s) + 1 - count |->
               IF count = 0 THEN from
               ELSE IF s[from + half] < v THEN search_[count - half - 1][from + half + 1]
               ELSE search_[half][from]]
  IN  search_[Len(s) - first + 1][first]

(* Each item of set1 is looked for in set2 behind the one found before;    *)
(* 0 stands for not found.                                                 *)
IsSubsumedBy(set1, set2) ==
  /\ Len(set1) < Len(set2)
  /\ FoldLeft(LAMBDA it2, v :
       IF it2 = 0 THEN 0
       ELSE LET found == LowerBound(set2, it2, v)
            IN  IF found > Len(set2) THEN 0
                ELSE IF set2[found] > v THEN 0 ELSE found + 1, 1, set1) # 0

IsSubsumed(candidate) ==
  \E n \in occurs_[Head(candidate)] : IsSubsumedBy(candidate, all_sets_[n])

-----------------------------------------------------------------------------
NoOccurs == [x \in Items |-> {}]

Init ==
  /\ data = <<>> /\ max_items_in_ram = 0 /\ next = 0 /\ all_sets_ = <<>>
  /\ occurs_ = NoOccurs /\ items_in_ram = 0 /\ os = <<>>
  /\ search = "none"

(* PrepareForDataScan; if the source cannot be set to its beginning        *)
(* nothing else is done.                                                   *)
Begin ==
  /\ search \notin {"reading", "checking"}
  /\ data' \in Sources /\ max_items_in_ram' \in RamLimits
  /\ occurs_' = NoOccurs /\ items_in_ram' = 0 /\ next' = 0 /\ os' = <<>>
  /\ search' \in {"reading", "failed"}
  /\ UNCHANGED all_sets_

(* A set is read and indexed ... *)
ReadSet ==
  /\ search = "reading" /\ next < Len(data)
  /\ LET current_set == data[next + 1]
     IN  /\ items_in_ram + Len(current_set) < max_items_in_ram
         /\ items_in_ram' = items_in_ram + Len(current_set)
         /\ all_sets_' = Append(all_sets_, current_set)
         /\ occurs_' = [x \in Items |-> occurs_[x] \cup
                          (IF x \in AsSet(current_set) THEN {Len(all_sets_) + 1} ELSE {})]
  /\ next' = next + 1
  /\ UNCHANGED <<data, max_items_in_ram, os, search>>

(* Mutant: A search that fails leaves the sets it has read. *)
Fail_Leave ==
  /\ search = "reading"
  /\ search' = "failed"
  /\ UNCHANGED <<data, max_items_in_ram, next, all_sets_, occurs_, items_in_ram, os>>

(* ... or is too much, or cannot be read; then all sets are deleted.       *)
Fail ==
  /\ search = "reading"
  /\ search' = "failed" /\ all_sets_' = <<>>
  /\ UNCHANGED <<data, max_items_in_ram, next, occurs_, items_in_ram, os>>

EndReading ==
  /\ search = "reading" /\ next = Len(data)
  /\ search' = "checking" /\ next' = 0
  /\ UNCHANGED <<data, max_items_in_ram, all_sets_, occurs_, items_in_ram, os>>

CheckSet ==
  /\ search = "checking" /\ next < Len(all_sets_)
  /\ next' = next + 1
  /\ os' = IF IsSubsumed(all_sets_[next + 1]) THEN os ELSE Append(os, all_sets_[next + 1])
  /\ UNCHANGED <<data, max_items_in_ram, all_sets_, occurs_, items_in_ram, search>>

(* All sets were checked; they are deleted.                                *)
Finish ==
  /\ search = "checking" /\ next = Len(all_sets_)
  /\ search' = "found" /\ all_sets_' = <<>>
  /\ UNCHANGED <<data, max_items_in_ram, next, occurs_, items_in_ram, os>>

Next == Begin \/ ReadSet \/ Fail \/ EndReading \/ CheckSet \/ Finish

Spec == Init /\ [][Next]_vars

-----------------------------------------------------------------------------
IsMaximal(s) ==
  \A n \in DOMAIN data : AsSet(s) = AsSet(data[n]) \/ ~(AsSet(s) \subseteq AsSet(data[n]))

MaximalSets ==
  FoldLeft(LAMBDA found, s : IF IsMaximal(s) THEN Append(found, s) ELSE found, <<>>, data)

IsAscending(s) == \A m, n \in DOMAIN s : m < n => s[m] < s[n]

(* "Finds all maximal sets" (all-maximal-sets-satelite.h:54): a search     *)
(* that succeeds has written the sets of its source that are properly      *)
(* contained in no other, whatever order their items are in and whatever   *)
(* search the object was used for before (FindAllMaximalSets).  If the     *)
(* items of all sets are in ascending order it has written them in the     *)
(* order of the source, and nothing else; in another order, that of the    *)
(* frequencies for one, sets that are not maximal may be written as well.  *)
MaximalSetsAreFound ==
  search = "found" =>
    /\ \A n \in DOMAIN data : IsMaximal(data[n]) => data[n] \in ToSet(os)
    /\ (\A n \in DOMAIN data : IsAscending(data[n])) => os = MaximalSets
=============================================================================
