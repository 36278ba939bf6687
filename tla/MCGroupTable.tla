---------------------------- MODULE MCGroupTable ----------------------------
(* Small instances of GroupTable for TLC. *)
EXTENDS GroupTable, TLC

Unit(S) == [x \in DocId |-> IF x \in S THEN 1 ELSE 0]

(* Two groups, and one group beside a slot that a merge emptied. *)
MCSetData ==
  {<<Unit(DocId), EmptyBag>>} \cup {<<Unit(DocId \ {x}), Unit({x})>> : x \in DocId}

Symmetry == Permutations(DocId)
=============================================================================
