----------------------------- MODULE MCSimilarity -----------------------------
(***************************************************************************)
(* Small instances of the search for similar documents and of terms.       *)
(***************************************************************************)
EXTENDS Similarity

(* Equal weights, and a document with more similar ones than are kept.     *)
Rank(d) == d[1] + 2 * d[2]
MCWeights == {[p \in Pairs |-> IF p[1][2] = p[2][2] THEN 2 ELSE 1],
              [p \in Pairs |-> (Rank(p[1]) * Rank(p[2])) % 7]}
MCInputs == {<<1, 2, 1>>, <<2>>}

MCDrawn == <<[x \in Dimension |-> IF x = 1 THEN 1 ELSE 0],
             [x \in Dimension |-> IF x = 1 THEN -1 ELSE 1]>>
MCItems == {<<1>>, <<1, 2>>}
MCScore == <<2, 5>>
=============================================================================
