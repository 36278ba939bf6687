--------------------------- MODULE RandomIndexing ---------------------------
(***************************************************************************)
(* RandomIndexing and RandomIndexingGenerator (semantic_space/): each      *)
(* context has a random index vector, drawn once and kept in a file; the   *)
(* vector of a term is the sum of those of its contexts.  What is appended *)
(* goes to the run file, which Open begins with the vectors stored so far; *)
(* Flush sorts it, adds up what belongs to one term and stores that.       *)
(*                                                                         *)
(* Draws are numbered: every program draws the same vectors in the same    *)
(* order, since the generator is not seeded.  Calls are cut where a file   *)
(* is removed and where it is written.  That a file the program has just   *)
(* written can be read is assumed, and that Open succeeds.                 *)
(***************************************************************************)
EXTENDS Integers, Sequences, FiniteSets, FiniteSetsExt, SequencesExt

CONSTANTS
  Term,            (* a finite set of positive numbers                     *)
  Context,         (* contexts are numbered from 1                         *)
  Dimension,
  DrawnVectors,    (* the vectors drawn by a program, in order, of -1, 0, 1 *)
  Items,           (* what may be appended: the weights of some contexts  *)
  MaxAppends,      (* bound: how often Append is called                    *)
  MaxOpens         (* bound: how often Open is                             *)

VARIABLES
  pc,             (* where the program is                                  *)
  engine_,        (* how many vectors this program has drawn               *)
  value_,         (* the draws that are the vectors of contexts 1, 2, ...  *)
  ser_file,       (* the same on disk                                      *)
  run_file,       (* what was appended: a sequence of [key, value]         *)
  storage_file,   (* the vector of each term, or Absent                    *)
  appends, opens, (* how often Append and Open were called                 *)
  draw_of,        (* history: the draw each context was given first, or 0  *)
  total,          (* history: the sum of what each term was given          *)
  kept,           (* history: the same at the last Flush                   *)
  torn            (* history: the files, "rig" and "storage", that a stop  *)
                  (* or a failure hit between their removal and their end  *)

rig == <<engine_, value_, ser_file, draw_of>>
indexing == <<run_file, storage_file, appends, opens, total, kept>>
riVars == <<pc, rig, indexing, torn>>

Zero == [x \in Dimension |-> 0]
Absent == [x \in Dimension |-> -1]
Plus(v, w) == [x \in Dimension |-> v[x] + w[x]]

NoVectors == [t \in Term |-> Absent]
Stored == {t \in Term : storage_file[t] # Absent}

(* The file that is being written, or of which a part was.                 *)
InPieces ==
  IF pc = "drawing" THEN {"rig"} ELSE IF pc \in {"flushing", "failed"} THEN {"storage"} ELSE {}

-----------------------------------------------------------------------------
(* Open, which begins the run file with what is stored; what was appended  *)
(* and not flushed is lost, and so is what a failed Flush did not store.   *)
Open ==
  /\ pc \in {"down", "ready", "failed"} /\ opens < MaxOpens
  /\ run_file' = SetToSeq({[key |-> t, value |-> storage_file[t]] : t \in Stored})
  /\ total' = kept
  /\ opens' = opens + 1
  /\ torn' = torn \cup InPieces
  /\ pc' = "open"
  /\ UNCHANGED <<rig, storage_file, appends, kept>>

(* Mutant: The file is not read. *)
Loaded_Nothing(max_id) == <<>>

(* ResetMax: the vectors in the file, as many as are needed, ... *)
Loaded(max_id) == SubSeq(ser_file, 1, Min({max_id, Len(ser_file)}))

(* ... and new ones for the other contexts. *)
Drawn(max_id) == [n \in 1 .. (max_id - Len(Loaded(max_id))) |-> engine_ + n]

NoteDraws == draw_of' = [c \in Context |-> IF draw_of[c] = 0 /\ c \in DOMAIN value_' THEN value_'[c] ELSE draw_of[c]]

(* SetContextMax; the file is removed if there is anything new. *)
SetContextMax(end) ==
  /\ pc = "open"
  /\ engine_ + end - Len(Loaded(end)) <= Len(DrawnVectors)
  /\ value_' = Loaded(end) \o Drawn(end)
  /\ engine_' = engine_ + Len(Drawn(end))
  /\ IF Drawn(end) = <<>>
     THEN UNCHANGED <<ser_file, pc>>
     ELSE ser_file' = <<>> /\ pc' = "drawing"
  /\ NoteDraws
  /\ UNCHANGED <<indexing, torn>>

FlushRig ==
  /\ pc = "drawing"
  /\ ser_file' = value_
  /\ pc' = "open"
  /\ UNCHANGED <<engine_, value_, draw_of, indexing, torn>>

(* The sum of index vectors, of which ConvertToSparse keeps what is        *)
(* positive.                                                               *)
Sparse(item_list) ==
  [x \in Dimension |->
     LET n == MapThenSumSet(LAMBDA c : item_list[c] * DrawnVectors[value_[c]][x], DOMAIN item_list)
     IN  IF n > 0 THEN n ELSE 0]

(* Append: callers give contexts that SetContextMax covers. *)
AppendItems(id, item_list) ==
  /\ pc = "open" /\ appends < MaxAppends
  /\ DOMAIN item_list \subseteq DOMAIN value_
  /\ run_file' = Append(run_file, [key |-> id, value |-> Sparse(item_list)])
  /\ appends' = appends + 1
  /\ total' = [total EXCEPT ![id] = Plus(IF @ = Absent THEN Zero ELSE @, Sparse(item_list))]
  /\ UNCHANGED <<pc, rig, storage_file, opens, kept, torn>>

-----------------------------------------------------------------------------
(* Mutant: The last entry of a term replaces the others. *)
Merged_Last(t) ==
  FoldSeq(LAMBDA entry, sum : IF entry.key = t THEN entry.value ELSE sum, Zero, run_file)

(* The loop of Flush: the entries of a term are added up. *)
Merged(t) ==
  FoldSeq(LAMBDA entry, sum : IF entry.key = t THEN Plus(sum, entry.value) ELSE sum, Zero, run_file)

Keys == {run_file[n].key : n \in DOMAIN run_file}

(* The vectors that are written one after the other, some of them.         *)
PartlyWritten ==
  {NoVectors} \cup {[u \in Term |-> IF u \in Keys /\ u <= t THEN Merged(u) ELSE Absent] : t \in Keys}

(* Compute calls Clear and Flush, which closes the run file; without one   *)
(* it keeps what is stored.  After a failure the run file is still there.  *)
BeginFlush ==
  /\ pc \in {"open", "ready", "failed"}
  /\ value_' = <<>>
  /\ IF pc # "ready"
     THEN /\ storage_file' = NoVectors
          /\ pc' = "flushing"
     ELSE /\ UNCHANGED storage_file
          /\ pc' = "flushed"
  /\ UNCHANGED <<engine_, ser_file, draw_of, run_file, appends, opens, total, kept, torn>>

(* The storage, removed, is written anew, and the run file removed. *)
EndFlush ==
  /\ pc = "flushing"
  /\ storage_file' = [t \in Term |-> IF t \in Keys THEN Merged(t) ELSE Absent]
  /\ kept' = total
  /\ run_file' = <<>>
  /\ pc' = "flushed"
  /\ UNCHANGED <<rig, appends, opens, total, torn>>

(* The writer cannot be opened, or refuses a vector: Flush and Compute     *)
(* return false, with the storage as far as it was written and the run     *)
(* file where it was.                                                      *)
FailFlush ==
  /\ pc = "flushing"
  /\ storage_file' \in PartlyWritten
  /\ pc' = "failed"
  /\ UNCHANGED <<rig, run_file, appends, opens, total, kept, torn>>

(* The program is stopped; a storage that was being written may have some  *)
(* of its vectors.                                                         *)
Stop ==
  /\ pc # "down"
  /\ engine_' = 0 /\ value_' = <<>> /\ run_file' = <<>>
  /\ total' = kept
  /\ torn' = torn \cup InPieces
  /\ \/ UNCHANGED storage_file
     \/ pc = "flushing" /\ storage_file' \in PartlyWritten
  /\ pc' = "down"
  /\ UNCHANGED <<ser_file, draw_of, appends, opens, kept>>

RIInit ==
  /\ pc = "down" /\ engine_ = 0 /\ value_ = <<>> /\ ser_file = <<>>
  /\ run_file = <<>> /\ storage_file = NoVectors /\ appends = 0 /\ opens = 0
  /\ draw_of = [c \in Context |-> 0]
  /\ total = NoVectors /\ kept = NoVectors /\ torn = {}
-----------------------------------------------------------------------------
(* A context keeps the vector it was given first, over restarts and when   *)
(* there come to be more contexts: sums over one vector could not be       *)
(* compared with sums over another.  A stop between the removal of the     *)
(* file and its writing loses the vectors.                                 *)
VectorsAreKept ==
  "rig" \notin torn => \A c \in DOMAIN value_ : value_[c] = draw_of[c]

(* A stored vector is the sum of all that was appended for its term, over  *)
(* restarts and however appends and flushes are spread over programs, and  *)
(* when Flush failed and is called again; what was not flushed before a    *)
(* stop is lost.  A stop, or another Open, before a storage that was       *)
(* removed is complete loses the rest of it.                               *)
StorageIsSum ==
  "storage" \notin torn =>
    /\ pc \notin {"flushing", "failed"} => storage_file = kept
    /\ pc \in {"open", "drawing", "failed"} => \A t \in Term : t \in Keys => Merged(t) = total[t]
=============================================================================
