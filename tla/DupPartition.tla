---------------------------- MODULE DupPartition ----------------------------
(***************************************************************************)
(* What a table of groups of duplicated documents promises, whatever its   *)
(* representation: a relation "these two documents are duplicates" that is *)
(* an equivalence on the grouped documents, to which a discovered pair is  *)
(* added together with everything it implies, from which a document can be *)
(* taken out, and which a restart brings back as it was last saved.        *)
(***************************************************************************)
CONSTANTS
  DocId,       (* the documents                                            *)
  Relations    (* the relations that may be put in place of the one kept   *)

VARIABLES
  same,     (* the pairs of documents in one group, a grouped document     *)
            (* with itself included                                        *)
  saved     (* the relation on disk; {NotSaved} when there is none that    *)
            (* can be read back                                            *)

vars == <<same, saved>>

NotSaved == <<>>

ClassOf(d) == {d} \cup {x \in DocId : <<d, x>> \in same}

Init == same = {} /\ saved = {}

(* A discovered pair joins the classes of its two documents. *)
Discover(d1, d2) ==
  LET joined == ClassOf(d1) \cup ClassOf(d2)
  IN  /\ same' = same \cup (joined \X joined)
      /\ UNCHANGED saved

(* A document leaves; the others of its class stay together. *)
Remove(d) ==
  /\ same' = {p \in same : p[1] # d /\ p[2] # d}
  /\ UNCHANGED saved

(* Another relation is put in place of this one. *)
Replace == same' \in Relations /\ UNCHANGED saved

(* Saving is not atomic: the old copy is gone before the new one is there. *)
BeginSave == saved' = {NotSaved} /\ UNCHANGED same
EndSave   == saved' = same /\ UNCHANGED same

(* The saved copy is thrown away while nothing is loaded. *)
Discard == same = {} /\ saved' = {} /\ UNCHANGED same

Crash   == same' = {} /\ UNCHANGED saved
Restore == same = {} /\ saved # {NotSaved} /\ same' = saved /\ UNCHANGED saved

Next ==
  \/ \E d1, d2 \in DocId : Discover(d1, d2)
  \/ \E d \in DocId : Remove(d)
  \/ Replace \/ BeginSave \/ EndSave \/ Discard \/ Crash \/ Restore

Spec == Init /\ [][Next]_vars
=============================================================================
