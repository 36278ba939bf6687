--------------------------- MODULE MCDupDetector ---------------------------
(* Small instances of DupDetector: fingerprints of three bits, the three   *)
(* tables FpTables makes of them for k = 1.                                *)
EXTENDS DupDetector

MCMasks == <<{0, 1}, {0, 2}, {1, 2}>>

(* Neighbouring documents are duplicates. *)
MCFp == [d \in DocId |-> CASE d = 1 -> {} [] d = 2 -> {0} [] d = 3 -> {0, 1} [] OTHER -> {2}]
MCLength == [d \in DocId |-> 1]
MCGetK(length) == IF length > 1 THEN 0 ELSE 1
MCAttachDd == DocId \X DocId

(* Document 3 is the longest and allows no difference, and its attachment  *)
(* is another one than that of document 2: only 1 and 2 are duplicates.    *)
FarFp == [d \in DocId |-> IF d = 1 THEN {} ELSE {0}]
FarLength == [d \in DocId |-> IF d = 3 THEN 2 ELSE 1]
FarAttachDd == (DocId \X DocId) \ {<<2, 3>>, <<3, 2>>}
=============================================================================
