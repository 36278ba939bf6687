--------------------------- MODULE TermSimilarity ---------------------------
(***************************************************************************)
(* TermSimilarity (similarity/term_similarity.h) over random indexing:     *)
(* Compute flushes the vectors, normalises them, lets Apss (semantic_      *)
(* space/apss.h) compare each with those before it in an inverted index,   *)
(* and has the pairs collected (sim_output_collector.h), sorted and the    *)
(* best of each term put in a table (term_similarity_table.h), in memory   *)
(* and in a file.                                                          *)
(*                                                                         *)
(* A cosine is not computed: the squares of two are compared by            *)
(* multiplying out.  Which of two equal ones is larger after rounding is   *)
(* left open.  The similarity of documents, which Compute prints, is left  *)
(* out.                                                                    *)
(***************************************************************************)
EXTENDS RandomIndexing

CONSTANTS
  MinScore,        (* t_ as a fraction: <<numerator, denominator>>         *)
  max_count_       (* how many similar terms are kept                      *)

VARIABLES
  compared,        (* the terms whose vectors are in the inverted index    *)
  writer_,         (* how often each pair of terms was added               *)
  table,           (* the similar terms of each term, best first           *)
  table_file,      (* the same on disk                                     *)
  before           (* history: the table before the last Flush             *)

simVars == <<compared, writer_, table, table_file, before>>
vars == <<riVars, simVars>>

TermPairs == Term \X Term
NoPairs == [p \in TermPairs |-> 0]
NoLists == [t \in Term |-> <<>>]

Dot(t, u) == MapThenSumSet(LAMBDA x : storage_file[t][x] * storage_file[u][x], Dimension)

(* score >= t_ *)
IsSimilar(t, u) ==
  /\ Dot(t, u) > 0
  /\ Dot(t, u) * Dot(t, u) * MinScore[2] * MinScore[2]
       >= MinScore[1] * MinScore[1] * Dot(t, t) * Dot(u, u)

(* The score of t and u is at least that of t and w. *)
AtLeast(t, u, w) == Dot(t, u) * Dot(t, u) * Dot(w, w) >= Dot(t, w) * Dot(t, w) * Dot(u, u)

(* The vectors are normalised, and the search begins. *)
BeginSearch ==
  /\ pc = "flushed"
  /\ compared' = {}
  /\ pc' = "searching"
  /\ UNCHANGED <<rig, indexing, torn, writer_, table, table_file, before>>

(* Mutant: Pairs are added in one direction. *)
CompareNext_OneWay ==
  /\ pc = "searching" /\ compared # Stored
  /\ LET t == Min(Stored \ compared)
     IN  /\ writer_' = [p \in TermPairs |->
               IF p[2] = t /\ p[1] \in compared /\ IsSimilar(p[1], t)
               THEN writer_[p] + 1 ELSE writer_[p]]
         /\ compared' = compared \cup {t}
  /\ UNCHANGED <<riVars, table, table_file, before>>

(* Compute of Apss, one vector: AddSimPair for each in the index that is   *)
(* similar; then the vector is in the index.                               *)
CompareNext ==
  /\ pc = "searching" /\ compared # Stored
  /\ LET t == Min(Stored \ compared)
     IN  /\ writer_' = [p \in TermPairs |->
               IF \/ p[2] = t /\ p[1] \in compared /\ IsSimilar(p[1], t)
                  \/ p[1] = t /\ p[2] \in compared /\ IsSimilar(p[2], t)
               THEN writer_[p] + 1 ELSE writer_[p]]
         /\ compared' = compared \cup {t}
  /\ UNCHANGED <<riVars, table, table_file, before>>

(* The best of S for t, at most max_count_. *)
Injective(s) == \A m, n \in DOMAIN s : m # n => s[m] # s[n]

BestLists(t, S) ==
  {s \in [1 .. Min({max_count_, Cardinality(S)}) -> S] :
     /\ Injective(s)
     /\ \A m, n \in DOMAIN s : m < n => AtLeast(t, s[m], s[n])
     /\ \A u \in S : (\A m \in DOMAIN s : s[m] # u) => \A m \in DOMAIN s : AtLeast(t, s[m], u)}

Collected(t) == {u \in Term : writer_[<<t, u>>] > 0}

NewLists(t) == IF Collected(t) = {} THEN {table[t]} ELSE BestLists(t, Collected(t))

(* Flush of the collector: terms without a pair keep their list.           *)
FlushCollector ==
  /\ pc = "searching" /\ compared = Stored
  /\ table' \in {f \in [Term -> UNION {NewLists(t) : t \in Term}] : \A t \in Term : f[t] \in NewLists(t)}
  /\ before' = table
  /\ table_file' = table'
  /\ writer_' = NoPairs /\ compared' = {}
  /\ pc' = "ready"
  /\ UNCHANGED <<rig, indexing, torn>>

-----------------------------------------------------------------------------
Init ==
  /\ RIInit
  /\ compared = {} /\ writer_ = NoPairs
  /\ table = NoLists /\ table_file = NoLists /\ before = NoLists

(* The collector is opened with the rest: its pairs are thrown away, its   *)
(* table read.                                                             *)
StopAll ==
  /\ Stop
  /\ compared' = {} /\ writer_' = NoPairs
  /\ table' = table_file /\ before' = table_file
  /\ UNCHANGED table_file

Index ==
  \/ Open
  \/ \E end \in Context : SetContextMax(end)
  \/ FlushRig
  \/ \E id \in Term, item_list \in Items : AppendItems(id, item_list)
  \/ BeginFlush \/ EndFlush \/ FailFlush

Compute == BeginSearch \/ CompareNext \/ FlushCollector

Next ==
  \/ (Index /\ UNCHANGED simVars)
  \/ Compute
  \/ StopAll

Spec == Init /\ [][Next]_vars
-----------------------------------------------------------------------------
SimilarTerms(t) == {u \in Stored \ {t} : IsSimilar(t, u)}

(* After Compute the table, in memory and on disk, has for each term that  *)
(* is similar to another the best of those, by the vectors that are        *)
(* stored, each once; the others have what they had.                       *)
TableIsBest ==
  pc = "ready" =>
    /\ table_file = table
    /\ \A t \in Stored :
         IF SimilarTerms(t) = {} THEN table[t] = before[t]
         ELSE table[t] \in BestLists(t, SimilarTerms(t))
=============================================================================
