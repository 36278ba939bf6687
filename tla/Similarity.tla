------------------------------ MODULE Similarity ------------------------------
(***************************************************************************)
(* The search for similar documents, or terms and their similarity table:  *)
(* which of them a behaviour has is chosen in the initial state.           *)
(***************************************************************************)
EXTENDS AllPairsSearch

CONSTANTS
  Term, Context, Dimension, DrawnVectors, Items, MinScore, max_count_,
  MaxAppends, MaxOpens

ASSUME TermsAssumption == IsFiniteSet(Term) /\ Term \subseteq Nat
ASSUME ContextsAssumption == IsFiniteSet(Context) /\ Context = 1 .. Cardinality(Context)
ASSUME VectorsAssumption ==
  /\ IsFiniteSet(Dimension) /\ Dimension # {}
  /\ DrawnVectors \in Seq([Dimension -> Int])
ASSUME ItemsAssumption ==
  \A item_list \in Items :
    DOMAIN item_list \subseteq Nat /\ \A c \in DOMAIN item_list : item_list[c] \in Nat
ASSUME MinScoreAssumption == MinScore \in Nat \X Nat

VARIABLES
  which, stage, engine_, value_, ser_file, run_file, storage_file, appends,
  opens, draw_of, total, kept, torn, compared, writer_, table, table_file, earlier

Terms == INSTANCE TermSimilarity WITH pc <- stage, before <- earlier

termVars == <<stage, engine_, value_, ser_file, run_file, storage_file,
  appends, opens, draw_of, total, kept, torn, compared, writer_, table,
  table_file, earlier>>

similarityVars == <<which, vars, termVars>>

SimilarityInit == which \in {"documents", "terms"} /\ Init /\ Terms!Init

SimilarityNext ==
  /\ UNCHANGED which
  /\ \/ which = "documents" /\ Next /\ UNCHANGED termVars
     \/ which = "terms" /\ Terms!Next /\ UNCHANGED vars

(* The search goes on by itself once it has begun. *)
SimilaritySpec ==
  /\ SimilarityInit /\ [][SimilarityNext]_similarityVars
  /\ WF_vars(which = "documents" /\ Run)

(* The vectors of contexts stay what they are; see RandomIndexing.         *)
VectorsAreKept == Terms!VectorsAreKept

(* The vectors of terms are sums over restarts; see RandomIndexing.        *)
StorageIsSum == Terms!StorageIsSum

(* The table has the most similar terms; see TermSimilarity.               *)
TableIsBest == Terms!TableIsBest
=============================================================================
