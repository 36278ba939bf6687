---------------------------- MODULE FactorStore ----------------------------
(***************************************************************************)
(* The store of factors of the factorization machine (FactorContainerDB,   *)
(* resys/context/FactorContainer.h): vertices, numbered from 0, in a       *)
(* database, those in use in a cache from which an eviction policy picks   *)
(* what must go.  operator[] hands out references into the cache, through  *)
(* which the caller trains the vertices; a vertex reaches the database     *)
(* when it is evicted or saved.  The number of vertices has a file of its  *)
(* own, written after the vertices.                                        *)
(*                                                                         *)
(* A vertex is the number of times it was trained, 0 when it is as Init    *)
(* made it.  What is put in the database stays there when the program is   *)
(* stopped.                                                                *)
(***************************************************************************)
EXTENDS Integers, FiniteSets

CONSTANTS
  MaxSize,          (* bound: the largest argument of Init                 *)
  MaxTrained,       (* bound: how often a vertex is trained                *)
  max_cache_count_

VARIABLES
  db_,                (* the database                                      *)
  size_store_,        (* the file with the number of vertices              *)
  mem_cache_,         (* the vertices in memory                            *)
  mem_size,           (* how many there is room for                        *)
  curr_cache_count_,
  policy_,            (* the ids the policy has to choose from             *)
  size_,
  held,               (* the id whose reference was handed out last        *)
  pc, next,           (* where the program is, and the next id Dump_ saves *)
  known, trained,     (* what the callers know: the largest size, and how  *)
                      (* often each vertex was trained                     *)
  safe,               (* history: how it was when it was last saved        *)
  crashed, torn       (* history: there was a crash; one hit the file of   *)
                      (* the size                                          *)

cache == <<mem_cache_, mem_size, curr_cache_count_, policy_>>
disk == <<db_, size_store_>>
history == <<safe, crashed, torn>>
vars == <<disk, cache, size_, held, pc, next, known, trained, history>>

Id == 0 .. (MaxSize - 1)
Null == -1        (* no vertex, and no reference *)
Truncated == -1   (* the file of the size while it is written *)

Cached == {id \in Id : mem_cache_[id] # Null}

(* The value operator[] would return for a vertex. *)
Value(id) == IF id \in Cached THEN mem_cache_[id] ELSE db_[id]

Larger(m, n) == IF m > n THEN m ELSE n

EmptyCache ==
  /\ mem_cache_' = [id \in Id |-> Null] /\ mem_size' = 0
  /\ curr_cache_count_' = 0 /\ policy_' = {}

-----------------------------------------------------------------------------
(* The constructor: a size that cannot be read is 0. *)
Open ==
  /\ pc = "down"
  /\ size_' = IF size_store_ = Truncated THEN 0 ELSE size_store_
  /\ EmptyCache
  /\ pc' = "up"
  /\ UNCHANGED <<disk, held, next, known, trained, history>>

(* Init: vertices that are new to size_ are written.  Callers never ask    *)
(* for less than they had.                                                 *)
InitSize(size) ==
  /\ pc = "up" /\ size \in known .. MaxSize
  /\ db_' = [id \in Id |-> IF id >= size_ /\ id < size THEN 0 ELSE db_[id]]
  /\ size_' = Larger(size, size_)
  /\ mem_size' = size
  /\ known' = size
  /\ UNCHANGED <<size_store_, mem_cache_, curr_cache_count_, policy_, held, pc, next,
                 trained, history>>

(* What Evict_ may take out, one by one, until the cache is not full or    *)
(* the policy has no more; count is the number of vertices in the cache.   *)
IsCacheFull(count) == count >= max_cache_count_

Evictable(count, ids) ==
  {S \in SUBSET ids :
     /\ S = ids \/ ~IsCacheFull(count - Cardinality(S))
     /\ S = {} \/ IsCacheFull(count - Cardinality(S) + 1)}

(* Mutant: What is evicted is not written. *)
Evict_NotWritten(filled, evicted) ==
  /\ UNCHANGED db_
  /\ mem_cache_' = [id \in Id |-> IF id \in evicted THEN Null ELSE filled[id]]

Evict(filled, evicted) ==
  /\ db_' = [id \in Id |-> IF id \in evicted THEN filled[id] ELSE db_[id]]
  /\ mem_cache_' = [id \in Id |-> IF id \in evicted THEN Null ELSE filled[id]]

(* Mutant: The policy is told of the access before the eviction. *)
Miss_TouchFirst(id) ==
  /\ id \notin Cached
  /\ \E evicted \in Evictable(curr_cache_count_ + 1, policy_ \cup {id}) :
       /\ Evict([mem_cache_ EXCEPT ![id] = db_[id]], evicted)
       /\ curr_cache_count_' = curr_cache_count_ + 1 - Cardinality(evicted)
       /\ policy_' = (policy_ \cup {id}) \ evicted

(* operator[] of a vertex that is not in memory: it is read, others may    *)
(* have to go, and then the policy is told.                                *)
Miss(id) ==
  /\ id \notin Cached
  /\ \E evicted \in Evictable(curr_cache_count_ + 1, policy_) :
       /\ Evict([mem_cache_ EXCEPT ![id] = db_[id]], evicted)
       /\ curr_cache_count_' = curr_cache_count_ + 1 - Cardinality(evicted)
       /\ policy_' = (policy_ \ evicted) \cup {id}

Hit(id) ==
  /\ id \in Cached
  /\ policy_' = policy_ \cup {id}
  /\ UNCHANGED <<db_, mem_cache_, curr_cache_count_>>

Access(id) ==
  /\ pc = "up" /\ id < mem_size
  /\ size_' = Larger(id, size_)
  /\ Miss(id) \/ Hit(id)
  /\ held' = id
  /\ UNCHANGED <<size_store_, mem_size, pc, next, known, trained, history>>

(* The caller trains the vertex through the reference. *)
Train ==
  /\ pc = "up" /\ held \in Cached /\ trained[held] < MaxTrained
  /\ mem_cache_' = [mem_cache_ EXCEPT ![held] = mem_cache_[held] + 1]
  /\ trained' = [trained EXCEPT ![held] = trained[held] + 1]
  /\ UNCHANGED <<disk, mem_size, curr_cache_count_, policy_, size_, held, pc, next, known,
                 history>>

-----------------------------------------------------------------------------
(* Save and the destructor call Dump_.  It looks at size_ vertices in      *)
(* memory: with fewer there, which is before Init where a size was read,   *)
(* it reads beyond what is an empty vector, and the program stops there    *)
(* (Crash).                                                                *)
BeginDump(then) ==
  /\ pc = "up" /\ size_ <= mem_size
  /\ pc' = then /\ next' = 0
  /\ UNCHANGED <<disk, cache, size_, held, known, trained, history>>

Dumping == pc \in {"saving", "closing"}

DumpVertex ==
  /\ Dumping /\ next < size_
  /\ db_' = IF next \in Cached THEN [db_ EXCEPT ![next] = mem_cache_[next]] ELSE db_
  /\ next' = next + 1
  /\ UNCHANGED <<size_store_, cache, size_, held, pc, known, trained, history>>

(* Mutant: The size is saved when the last vertex is not. *)
OpenSizeStore_Early ==
  /\ Dumping /\ next >= size_ - 1
  /\ size_store_' = Truncated
  /\ pc' = IF pc = "saving" THEN "saving_size" ELSE "closing_size"
  /\ UNCHANGED <<db_, cache, size_, held, next, known, trained, history>>

(* SaveMaxID_: opening the file empties it. *)
OpenSizeStore ==
  /\ Dumping /\ next = size_
  /\ size_store_' = Truncated
  /\ pc' = IF pc = "saving" THEN "saving_size" ELSE "closing_size"
  /\ UNCHANGED <<db_, cache, size_, held, next, known, trained, history>>

WriteSizeStore ==
  /\ size_store_' = size_ /\ next' = 0
  /\ safe' = [id \in Id |-> IF id < size_ THEN Value(id) ELSE safe[id]]
  /\ \/ /\ pc = "saving_size" /\ pc' = "up"
        /\ UNCHANGED <<cache, size_, held>>
     \/ /\ pc = "closing_size" /\ pc' = "down"
        /\ EmptyCache /\ size_' = 0 /\ held' = Null
  /\ UNCHANGED <<db_, known, trained, crashed, torn>>

(* The program is stopped. *)
Crash ==
  /\ pc # "down"
  /\ EmptyCache
  /\ size_' = 0 /\ held' = Null /\ pc' = "down" /\ next' = 0
  /\ crashed' = TRUE /\ torn' = (torn \/ size_store_ = Truncated)
  /\ UNCHANGED <<disk, known, trained, safe>>

Init ==
  /\ db_ = [id \in Id |-> Null] /\ size_store_ = 0
  /\ mem_cache_ = [id \in Id |-> Null] /\ mem_size = 0
  /\ curr_cache_count_ = 0 /\ policy_ = {}
  /\ size_ = 0 /\ held = Null /\ pc = "down" /\ next = 0
  /\ known = 0 /\ trained = [id \in Id |-> 0]
  /\ safe = [id \in Id |-> 0] /\ crashed = FALSE /\ torn = FALSE

Next ==
  \/ Open \/ Crash
  \/ \E size \in 1 .. MaxSize : InitSize(size)
  \/ \E id \in Id : Access(id)
  \/ Train
  \/ \E then \in {"saving", "closing"} : BeginDump(then)
  \/ DumpVertex \/ OpenSizeStore \/ WriteSizeStore

Spec == Init /\ [][Next]_vars
-----------------------------------------------------------------------------
(* Every variable has its type. *)
Vertex == Nat \cup {Null}

TypeOK ==
  /\ db_ \in [Id -> Vertex] /\ size_store_ \in (0 .. MaxSize) \cup {Truncated}
  /\ mem_cache_ \in [Id -> Vertex] /\ mem_size \in 0 .. MaxSize
  /\ curr_cache_count_ \in Nat /\ policy_ \subseteq Id
  /\ size_ \in 0 .. MaxSize /\ held \in Id \cup {Null}
  /\ pc \in {"down", "up", "saving", "closing", "saving_size", "closing_size"}
  /\ next \in 0 .. MaxSize /\ known \in 0 .. MaxSize
  /\ trained \in [Id -> Nat] /\ safe \in [Id -> Nat]
  /\ crashed \in BOOLEAN /\ torn \in BOOLEAN

(* No training is lost, over evictions, growth, saves and restarts: what   *)
(* factorDBTest (t_FactorizationMachine.cpp:56) does in one order, in all. *)
ValuesAreKept ==
  ~crashed => \A id \in Id : id < known => Value(id) = trained[id]

(* The count is that of the cache, which outgrows its limit only by a      *)
(* single vertex it must hold: "in the worst cases, the overall memory     *)
(* consumption should be max_cache_count_ * VERTEX_SIZE" and pointers      *)
(* (FactorContainer.h:102); and the reference handed out last is that of a *)
(* vertex in memory, operator[] evicting what it was called for never.     *)
CacheIsSound ==
  /\ curr_cache_count_ = Cardinality(Cached)
  /\ curr_cache_count_ <= Larger(1, max_cache_count_ - 1)
  /\ held # Null => held \in Cached

(* A crash takes no vertex back to before it was last saved, not even a    *)
(* crash during a later save, unless it hit the file of the size.          *)
SavedSurvives ==
  ~torn => \A id \in Id : id < known => Value(id) >= safe[id]
=============================================================================
