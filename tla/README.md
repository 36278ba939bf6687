# Verification of idmlib

idmlib is a C++ library of data-mining components: near-duplicate detection,
item-based collaborative filtering, similarity search, random indexing, item
sets, phrases, topics, query suggestion and more.  This directory holds TLA+
models of its stateful parts, the TLC runs that check them on small instances,
and TLAPS proofs that hold for every value of the constants.  Paths are relative
to the repository; `.../` stands for `src/include/idmlib/` or `src/source/`.

1. Inventory
2. What is modelled, module by module
3. What the runs check
4. What is proved
5. Findings, and what the models take for granted
6. Not modelled, and the plan

## 1. Inventory

The library has no main program.  Each component is a class, or a few, that a
server (outside the repository) or a test drives by calls.  Components share
no state except where the list says so.  The only threads are the callers'.
Files are written through libraries outside the repository (izenelib: sdb,
MatrixDB, sequence files, Tokyo Cabinet, Lux arrays), which are modelled by
how they are used.

### Near-duplicate detection (`.../duplicate-detection/`)

* **Group table** (`group_table.h`).  State: the map `docid_group_`, the vector
  of groups `group_info_`, the queue of free numbers `valid_groupid_`, one file.
  Operations: `AddDoc` (a pair), `RemoveDoc`, `Set`, `Find`, `IsSameGroup`,
  `Flush`, `Load`.  Hard: the same fact is kept twice; numbers are used again;
  the file is emptied before it is written.  Correct when the two
  representations agree, no live group is overwritten, and the table behaves
  as an equivalence relation that grows by pairs and survives restarts.
* **Fingerprint tables** (`fp_tables.cc`, `fp_table.h`).  State: none beyond a
  call of `GenTables`.  Correct when any two fingerprints that differ in at
  most k bits agree on the mask of some table.
* **Duplicate detector** (`dup_detector.h`, `fp_item.h`).  State: fingerprints
  stored, in memory or in a file; those inserted since; documents to be removed;
  a request to redo; the tables; the group table it calls.  Operations: `Open`,
  `InsertDoc`, `RemoveDoc`, `FinishRemoveDocs`, `RunDdAnalysis` in three modes,
  nearest-neighbour queries.  Hard: inserts from another thread during an
  analysis; crashes between the three files; writes that fail and are only
  logged; incremental comparison, where only pairs with a new member count.
  Correct when every pair of duplicates ends in one group, no others do, and
  what was removed stays out.
* **Signatures** (`charikar_algo.*`): a pure function, weighted sums of hash bits.
* **Pairwise matcher** (`psm.h`): a second index over fingerprints that flips
  weak bits and looks them up in a sorted table.

### Recommendation (`.../resys/`)

* **Incremental item CF** (`incremcf/IncrementalItemCF.*`, `ItemCoVisitation.h`,
  `MatrixSharder.h`).  State: visit counts of pairs of items, frequencies of
  items, similarities, neighbours, each with a store on disk.  Operations:
  `updateMatrix`, `updateVisitMatrix`, `buildSimMatrix`, `recommend`, `flush`.
  Hard: four stores that must agree, flushed one after the other; derived values
  that become stale in rows nobody named; a sharder that makes each node keep a
  part; 32-bit products.  Correct when counts are those of the users, and
  similarities and neighbours follow from the counts.
* **Similarity neighbours** (`SimilarityNeighbor.h`).  State: per item the K most
  similar items, dirty flags, one store.  Operations: `updateNeighbor`, `getNeighbor`,
  `weight`, `flush`, load.  Called by the former under its own lock.
* **Context factorization** (`context/`).  State: vertices in a cache with
  eviction over a database.  Hard: references handed out and evicted, sizes that
  are off by one, a size saved apart from the vertices.
* **CTR prediction** (`.../ctr/`): two on-line learners in floating point.

### Similarity and semantic space

* **All-pairs search** (`similarity/all-pairs-similarity-search/`).  State: an
  inverted index of one data set at a time, a sorter of scored pairs, a database
  with the best per document.  Hard: a pair whose vectors are in different data
  sets must be found from exactly one side; cutting and grouping sorted pairs;
  a database that stays over stops.
* **Random indexing** (`semantic_space/random_indexing*.h`).  State: a random vector
  per context and its file, a run file of what was appended, the stored sums.  Hard:
  files that are removed before they are written again; draws that must not change.
* **Term similarity** (`similarity/term_similarity.h`, `semantic_space/apss.h`,
  `similarity/sim_output_collector.h`, `term_similarity_table.h`) flushes the former,
  compares all vectors, collects the pairs and puts the best in a table with a file.
* **Explicit semantic analysis** (`semantic_space/esa/`), **other similarities**
  (`similarity/`): arithmetic over vectors and strings.

### Text, queries and topics

* **Query reminder** (`query-suggestion/Reminder.h`).  State: counts of queries in
  databases, counts of their terms in memory, two ranked lists, one committed file.
  Hard: two representations of one log, of which only one survives; a queue that
  gives up its worst first; related queries dropped in order.
* **Keyphrase extraction** (`keyphrase-extraction/`).  State: files of n-grams and of
  parts, sorted between passes.  Hard: counts added up over two stacks; groups closed
  one item late in sorted merges.
* **Topic detection and tracking** (`tdt/`).  State: what is known of a topic and the
  topics of each day, in two files.  Hard: one is written before the other.
* **Query correction**, **concept clustering**, **wiki features**, **topic models and
  translation**: sequential programs over statistics, most of it in floating point.
* **Item sets** (`itemset/`).  A prefix tree, projected recursively, with nodes shared
  and pruned; maximal sets by subset tests over inverted lists, with several failures.
* **Image search** (`ise/`): feature extraction, locality-sensitive hashing.

### Utilities (`.../util/`)

* **Container and directory switches**: two copies on disk, one in use, the next
  one filled and then switched to.  Hard: stops between the steps, failures that
  are not looked at, file times in seconds.
* **Tries**, **string helpers**, **id manager and analyzers**: containers and
  wrappers of libraries.

Vendored code (CImg, lshkit, maxent, libfm, libsvm, word2vec, samplib, the SIFT
sources) is left alone.  It is most of the repository's lines: CImg, libsvm and
samplib alone are about half.

## 2. What is modelled

| module | models | kind |
|---|---|---|
| `DupPartition` | what a table of duplicate groups promises | abstract specification |
| `GroupTable` | `group_table.h` | implements `DupPartition` |
| `FpTables` | `GenTables` and `permutate_` of `fp_tables.cc` | algorithm, step by step |
| `DupDetector` | `dup_detector.h` | uses `DupPartition` for its group table |
| `ItemCF` | `IncrementalItemCF`, `ItemCoVisitation`, `SimilarityNeighbor` | composition of the three |
| `FactorStore` | `FactorContainerDB` | component |
| `Switchover` | what two copies that change places promise | abstract specification |
| `ContainerSwitch`, `DirectorySwitcher` | `container_switch.h`, `directory_switcher.cc` | each implements `Switchover` |
| `PairSearch` | what a search for similar pairs promises | abstract specification |
| `AllPairsSearch` | `all_pairs_search.cpp`, `all_pairs_output.*` | implements `PairSearch` |
| `RandomIndexing` | `random_indexing.h`, `random_indexing_generator.h` | component |
| `TermSimilarity` | `term_similarity.h`, `apss.h`, collector, table | composition over `RandomIndexing` |
| `FPTree`, `AllMaximalSets` | `itemset/` | algorithms, step by step |
| `KpeTask` | the counting in `kpe_task.cc` | algorithm, pass by pass |
| `Reminder` | `Reminder.h` | component |
| `Topics` | `tdt/storage.h` | component |
| `Parts`, `Similarity` | several of these, one at a time | compositions |
| `GroupTableProofs`, `DupDetectorProofs`, `ItemCFProofs`, `SimilarityProofs`, `PartsProofs`, `PhraseProofs`, `PatternProofs` | | proofs |
| `FoldLemmas` | | lemmas on finite sets, sequences and folds |
| `MCGroupTable`, `MCDupDetector`, `MCItemCF`, `MCSimilarity`, `MCParts` | | instances for TLC |

The duplicate detector is checked over the abstract partition and not over the
table of numbers and vectors: `GroupTable` is shown to implement the partition
(by TLC and by proof), so the detector need not carry its state.  Likewise
`FpTables` shows what the masks are good for, and the detector takes the masks
as a constant.

`Parts` holds the nine components that share nothing (both switches, the factor
store, the masks, the two item-set programs, phrases, reminders, topics).  The initial
state chooses one of those in `Chosen`, which then runs alone; so one run
checks each exhaustively and none multiplies the states of another.  `Similarity`
does the same with the search for documents and that for terms.  Their constants have the
assumptions the proofs need, and their specifications, `PartsSpec` and
`SimilaritySpec`, are what is checked (by `MCParts` and `MCSimilarity`, on small instances) and what is proved about.

### GroupTable

The variables are the members of the class, with their names; `file_` is the file
and is `Absent`, `Truncated` (opened for writing and not yet closed) or a saved
copy; a close that fails leaves it truncated while the program goes on.  A group is a bag of documents, since `AddDoc(d, d)` puts a document in
twice and nothing looks at the order.  `AddDoc` is the disjunction of the cases
of the code, in its order: a new group in a new or in a freed number, joining
a group, merging two groups (the one with the larger number into the other), nothing
to do.  `Flush` is two actions, since opening the file empties it.  `Load` may fail to open
the file, and the program may go on with an empty table.  `Load`, `Stop`
and `RemoveFile` (what the test program does) make up restarts.

Assumption: `Set` is called with groups that share no document
(`SetDataAssumption`), and, where soundness is claimed, not while numbers wait to be
used again (`SetWithFreeIds = FALSE`; finding 1 is what happens otherwise).

### FpTables

One behaviour for each argument triple: blocks are cut, masks made word by word as
in the code (a block may begin and end inside words), and the choices of blocks
enumerated by the `permutate_` loop.  A mask is a set of bits.

### DupDetector

`pc` says how far `RunDdAnalysis` is: an analysis is cut where the lock is taken,
where a file is written and at each pair, so crashes and (with `enable_knn_`)
inserts come in between.  `working` is `working_fp_vec_` or the file
`fp_working`.  A failed `Save` leaves the old file and is remembered in
`unsaved`, a failed `Flush` (at the opening of the file or at its close) in `unflushed`.  `vec_all`, `tid` and `todo` are the
fingerprints under analysis, the table, and the pairs it has found and not yet
added.  The modes `enable_knn_` and `fp_only_` and the value of `trash_min_`, from
which on a range of equal masked fingerprints is skipped on all tables but the first, are
chosen in `Init`.  `interrupted` only serves the property on completeness.

Four sets follow the removals for `RemovedStayOut`, by what was called and what was written and never by
what happens to be stored or grouped.  `removed` has every document `RemoveDoc` was called for.
`leaving` has those removed after their analysis and after no larger one in the same round.
`FinishRemoveDocs` makes them `gone`, unless its write fails and there is no copy in memory.  They are
`settled` when both the fingerprints and the groups have been written since; a stop leaves `gone` only what is
settled.  The property is that what is `gone` is neither stored nor in a group again.  The other removals
are steps of the model too, and there, as in the code, the documents come back (section 5).

Assumptions on the callers, each named in the module: documents come once and in the
order of their numbers, and do not come back after they were removed; `FinishRemoveDocs` comes between
the removals of stored documents and the next analysis; the loop that marks new documents is not overtaken by an
insert unless `InsertWhileMarked` (finding 2).  Documents are removed in any order, before or after
their analysis.

### ItemCF

`bought` is what the callers know and pass in.  One update runs at a time (nothing in the
repository calls it from two threads) and is cut where one store is left and the next
written and at each row.  A similarity is kept as the pair of `v_ij` and the
product under the root, modulo `Modulus` (2^32 in the code); comparisons are by cross
multiplication, so nothing is rounded.  `disk` holds the four stores.  `FlushStep`
writes them one at a time in the code's order; `Close` stands for the destructors;
`Crash` keeps what was flushed, and with `WriteBack` any rows that the libraries' caches
may have written since.  A purchase that a crash interrupted is not passed in again.

Left out: `howMany` does not cut the recommended list, recommendation by weights and
the co-visitation list (they only read), the sizes printed by `print`.

### FactorStore

A vertex is the number of times it was trained; its floating-point content is left out.  `held`
is the reference handed out last, the only one of a container that `FactorizationMachine` uses.
The eviction policy is a library: any vertex it was told of may be the one to go.  `Dump_` is cut
at each vertex and where the file of the size is opened (emptied) and written, so a crash may
come in between.

Where a size was read and `Init` was not called yet, `Dump_` reads beyond an empty vector
(`FactorContainer.h:213`), in the destructor as well; the guard of `BeginDump` says so, and the program stops there (`Crash`).

Assumptions: what was put in the database stays there over a stop; `Init` is never called with
less than before (a guard of `InitSize`); one store has the
file for itself.

### Switchover, ContainerSwitch, DirectorySwitcher

`Switchover` has three copies: `inuse` (its content in memory and on disk), `next`, which is
filled, and `kept`, what a start would bring back.  In `ContainerSwitch`, `path_` is what is
under the two paths, `current_file_` the file that names one, `container_` what the two
pointers have in memory.  `Next` is cut into what it does when a next container was already
prepared (the switch), the deletion of the old path, which may stop half way, and the opening of
the new one, which may fail; `EnsureSwitch` into the change in memory, and the opening and
the writing of the file, each of which may fail.  Copies are mapped by whether the switch has
taken effect on disk (`Switching`).  `DirectorySwitcher` follows `dirs_` and the times of the
files `DONE`; deleting, marking and closing may each be the last step before a stop.

Assumptions: `EnsureSwitch` is called only after a `Next` that returned a container; the clock
does not go back and switches are in different seconds (guard of `SetNextValid`).
The claims hold up to the first save (`failed`) or mark (`broken`) that could not
be written: nobody looks at whether it was, and after it a start may bring back, and for
containers then delete, the wrong copy.

### AllPairsSearch

A document is named by its data set and its place in it.  `i` and `j` are the data set indexed and
the one scanned, `read` how far; `invertedLists_` are the documents in the index, `sorter_` how
often each pair was put.  `Run` is the search's own step (`ReadVector`, `NextDataSet`,
`NextIndex`, and the construction of the database, `NextPair`, pair by pair); `Stop` comes at any point and
keeps the database.  The sorted pairs are taken with the code's `lastIndexId` and `listData`: the first pair of a
document has the list of the one before written, the last list is written after the loop.  An update may
fail, which nobody looks at; the documents hit are remembered in `failed`.  The list is a set, as no pair is put twice.  What a scan of the lists adds up is given (`Weights`).  Documents are numbered
from 1 (number 0 would never be written), each program does one search, and the order of documents of equal
weight is left open.  `PairSearch` counts how often each wanted pair was reported.

### RandomIndexing, TermSimilarity

`engine_` and `value_` are the generator's and the items; `run_file`, `storage_file` and `ser_file`
the three files.  `Open` begins the run file with what is stored, `Append` adds to it (only while it is
open, which `Append` does not ask), `Flush` is cut between the removal of the stored vectors and their
being written, `SetContextMax` between the removal of the generator's file and its being written.  A stop
in either gap is remembered in `torn`, by file, and the claim on that file ends there.  While the storage is written anew `Flush` may also
fail, which leaves it partly written and the run file in place: flushed again it is stored in full, opened again the rest is lost (and
`torn` says so).  `total` is the sum of all that was appended,
`kept` that at the last flush; `draw_of` remembers what was drawn for which context.
`TermSimilarity` extends it: `Compute` flushes, compares one term after the other with those
before it, collects pairs and flushes the collector.  A cosine is compared by squares; which of two equal
ones rounding makes larger is open.  The vectors of documents, kept alike when asked for and then printed, are
left out.

### FPTree, AllMaximalSets

A node of the tree is named by its path, a shadow in a projection by the node it is the shadow of.
`tree` is the tree being made, `stack` the recursion of `fp_growth`, each entry a tree with
its head table and how far its loop is; `out_` what was written.  One action inserts a transaction, one goes
on at the top of the stack.  Transactions are sets, and an `FPtree` runs once (its members are never emptied).
In `AllMaximalSets` a data source is read, and its sets checked and written, one set at a time; the search may
fail at any set that is read, which deletes the sets and not the lists of occurrences, and the object is used
again for another source.  A set is nonempty and its items are distinct, in any order (`SourcesAssumption`): the data sources
neither sort nor check them (`data-source-iterator.cpp:76`).  Of a set without items, which they deliver too, the search reads the first item,
which has no outcome to model; an item twice in a set is ruled out by the header (`all-maximal-sets-satelite.h:23`).  The binary search is
the library's, a function of how many items are left, which halves them; where the items do not ascend, it ends where the code's would.

### KpeTask

`Insert` takes a document apart and writes the suffixes of its stretches; `Close` sorts them and reads
them one by one: equal ones are gathered (`last_ngram`), and what is on the two stacks of `GetCandidate_` is
closed when a new one begins with another term.  Then the two merges give the candidates the counts of their
parts (`CollectCounts`), and `Judge` drops the unlikely ones.  A hash stands for what it is the hash of; the contexts, the
scores and the second pass (`ProcessFoundKp2_`) are left out, and what a score decides is open
(`Refusals`).

### Reminder, Topics

`Reminder` has the two databases of counts and the two language models, the ranked lists (`remindQueryIndex_`) and
the committed ones.  Scores are any order of the queries.  One action indexes a log item; `indexQuery` is three,
for the popular and the real-time list and for the commit with the clean-up; the program stops with its
destructor or without.  The normalising score that
`indexQuery` reads the first time has not been initialised (`Reminder.h:471`); it changes
the order only, and all orders are covered.  In `Topics` an `Add` stores the topic and then goes day by
day, and may be stopped between two days; `whole` has the topics whose last `Add` went through.  The two containers are Tokyo Cabinet
hashes, outside the repository, which keep what was put in them when the program stops; `Flush` has them written and is no action, and what
a machine that fails leaves of unwritten files is left out.

### How hazards are handled

`PROJECT.json` lists the hazards at their lines.  Data races (a read of `fp_vec_` or
`neighbors_` without the lock) have no defined outcome, change no state of the models, and
are not listed.

## 3. What the runs check

Deadlock is checked in `group_table`, `dup_detector`, `item_cf` and `item_cf_sharded`.  It is not in `parts`,
where the algorithms end, nor in `similarity`, where a program that was stopped need not
be started again.

* **group_table**: three documents, two numbers, `Set` with every grouping of two groups.
  `GroupsAgree` (map and vector), `FreeIdsAreUnused`, `SavedIsSound`,
  `DiscoveryIsReported` (`AddDoc` returns true exactly when the relation changed), and
  `ImplementsPartition` (refinement of `DupPartition`).  Three documents are needed for
  a merge that moves one and keeps one; two numbers for a merge, a free number and its reuse.
* **dup_detector**: three documents, two of them duplicates and a third kept apart only by the
  distance its length allows and by its attachment; all three modes, failed writes and closes, removals in any
  order, crashes, redo; ranges of three or of four are trash (about a million states).  `EveryPairIsFound` (a pair is missed only if the analysis was cut off, or
  if every mask it agrees on is crowded and is not the first), `GroupsAreChains`, `RemovedStayOut` (what is `gone`
  stays out over inserts, analyses and redos, and what is `settled` over stops too), `StorageIsCurrent`.  Three documents give an old one, one under analysis and one that comes
  meanwhile, and a crowd of three that the smaller of the two limits calls trash.
* **item_cf**: two users, three items, one or two neighbours per item, no crash, restarts.
  `CountsUsers`, `SimIsCurrent` (all similarities, in rows no update named too),
  `NeighborsAreTop`, `RecommendsBoughtTogether`.  Three items are needed for a row that is
  touched only through its column, two users for counts that differ.
* **item_cf_sharded**: a node with one of two rows, crashes with any rows written back.
  `SimIsNeverTooSmall` (similarities may be those of an earlier frequency of the other
  item), `RebuildIsCurrent`, `NothingIsMadeUp` (crashes lose counts and never add any).
* **similarity**: documents in one data set or in three of one or two vectors, with equal and with different
  weights, two kept per document and one document with three that are similar; or three terms,
  two contexts, two dimensions, three appends over two openings.  `EachPairOnce` (refinement of `PairSearch`), `SearchEnds`,
  `IndexIsBest` (grouped pair by pair, with updates that fail); `VectorsAreKept` (a context keeps its vector over restarts), `StorageIsSum`,
  `TableIsBest`.  Three data sets give one that is indexed, one that was and one still to come.
* **parts**: nine components, one at a time (about 323,000 states).
  * Switches, two contents, four seconds: `CurrentIsThere` (`Current` and the last `Next` have returned containers that
    are there), `ContainersSwitchOver` and `DirectoriesSwitchOver` (refinements of `Switchover`).  Two contents tell
    old from new; four seconds are enough for two switches and a start after each.
  * Factors: three vertices, a cache that keeps two, each trained at most once.  `ValuesAreKept` (no training is lost
    without a crash), `CacheIsSound` (the count is that of the cache, within its limit, and the reference handed out
    last is to a cached vertex), `SavedSurvives` (a crash, during a later save too, takes no vertex
    to before it was saved; a crash that hits the file of the size does, since `Init` then starts from 0,
    and `torn` excludes it).  Three vertices make the policy choose between two.
  * Masks: all arguments with up to 8 bits, 6 blocks and any number of errors, on words of 3 bits: blocks inside,
    across and at the end of words.  `EveryChoiceOnce` (each choice of blocks gives one table, and the blocks
    partition the bits evenly), `NearPairsMeet` (any difference of k bits misses some mask).
  * Item sets: all databases of five transactions over four items whose first two are {1, 2, 3} and {1, 2, 4}, and a deep one of
    thirteen, `min_sup` 2.  `TreeKeepsSupport`, `TreesAreSound` (no node has a deleted parent, heads agree with
    nodes).  Sources of up to three out of eight sets over three items, two of which do not ascend, and any number of searches in one object:
    `MaximalSetsAreFound` (every maximal set is written, in any order of items; nothing else is, if they ascend).
  * Phrases: up to two documents out of nine contents with three titles, phrases of up to three terms.  `CountsCoverOccurrences`,
    `PartsAreCounted`.
  * Reminders: four queries that share terms, three items of the log, two popular and one real-time query wanted.
    `TermsHaveCountsOfQueries`, `RemindersAreBest`.
  * Topics: two topics, four days, three calls of `Add`, four lists of bursts, of which some leave gaps.
    `RangesAgreeWithTopics`.
* The runs that end in a violation are the findings below.

Each property has a mutant of the code that breaks it, defined in the module before the
definition it replaces and marked `Mutant:`.

Bounds: the number of users, documents and items, and `MaxGroups`, which stops
`group_info_` from growing (`RemoveDoc` does not give numbers back).  Counts of `ItemCF` are
bounded by the users, since nobody buys an item twice.  `MaxTime`, `MaxTrained`, `MaxAppends`, `MaxOpens`,
`MaxItems` and `MaxAdds` bound what would otherwise go on for ever, in guards; the proofs are
for all values of them.

**Fairness.**  One component runs by itself once it was called, through loops that a wrong step could
keep from ending: `AllPairsSearch` goes over data sets within data sets.  `MCSimilarity` has weak
fairness of the search's own steps (`Run`), and of nothing else: neither calls nor stops are owed to
anybody.  It is justified because `findAllSimilarPairs` is one sequential loop in the thread of its caller,
which waits for nothing.  `SearchEnds` says that a search that has begun comes to an end or is
stopped.  The other components' operations are single steps, or sequences of them in one caller's
thread without a loop to get lost in; no component waits for another, so there is no further
liveness claim that the code's scheduling rather than its caller would answer for.

## 4. What is proved

`tlapm` checks eight modules; every theorem is for all values of the constants under
the `ASSUME`s of the module, and under those named in the theorem.

**GroupTableProofs**, for any documents, any `Set` arguments that satisfy
`SetDataAssumption`, and `SetWithFreeIds = FALSE`.  The inductive invariant is
`GroupInv == TypeOK /\ GroupsAgree /\ FreeIdsAreUnused /\ SavedIsSound`.  Agreement alone is not
inductive: reusing a number keeps it only if the number's group is empty, and loading a
file only if what was saved was sound.  There is one lemma per case of `AddDoc` and per
operation.  From it follow `GroupTableType`, `MapAndGroupsAgree`, `SavedTableIsSound`,
`NoLiveGroupIsReused`, `DiscoveriesAreReported`, and `TableImplementsPartition`: each step
is a step of `DupPartition` on the relation "same number", or a stutter.

**DupDetectorProofs**.
* `DetectorType`, and `GroupsAreSound`: no group holds documents that no chain of duplicates links,
  over all interleavings, crashes and failed writes.  The invariant is
  `SoundInv == TypeOK /\ TodoIsNear /\ GroupsAreChains`: the pairs waiting to be added are duplicates.  A
  chain is stated through sets that are closed under duplicates, which needs no recursion.
  Assumptions: `AttachDdAssumption`, `DocIdAssumption`, `MasksAssumption`, `MaxTablesAssumption`;
  nothing on fingerprints or lengths.
* `RemovedAreOut` and `FileIsMemory`, from `OutInv`: every document that is in a pair is in a group with itself, in memory
  and on disk (`RelationsOK`); fingerprints are where the mode has them (`PlacesOK`); the file is what is in memory unless a
  save failed (`CurrentOK`); what is leaving is stored, waits in order, and is in no group (`RemovalsOK`); what is gone is in no
  place a later step copies from, so that neither an analysis nor a redo can bring it back (`GoneOK`); and what is settled is
  in neither file, so that no start can (`SettledOK`).  The theorem is about `gone` only: which removals that
  leaves out, and that they do come back, is in section 5.
* `PairsAreFound`: completeness of the incremental analysis, assuming finitely many documents and that no insert
  overtakes the marking (`InsertWhileMarked = FALSE`; finding 2 is what happens otherwise).  `FindInv` adds to
  `OutInv` that documents are in one place only and new exactly if they came since the last analysis
  (`ShapeOK`, `DiskOK`, `MemoryOK`), and its heart `ComparingOK`: during an analysis a pair is in one group,
  waits in `todo`, or has a table still to come on which it agrees without a crowd.

**ItemCFProofs**.  Assumptions: finitely many users, `MineAssumption`, `ModulusAssumption`.
* `ItemCFType`; `CountsAreThoseOfUsers`: without crashes the visit matrix and the frequencies are the numbers of
  users who bought the items, across restarts; `NoCountIsMadeUp`: with crashes they never exceed them, in memory
  and on disk.  `CountInv` adds to the counts what the purchase under way has not reached yet (`Lag`, `FreqLag`),
  in an exact form without crashes (`ExactInv`) and as a bound with them (`BoundInv`).
* `NeighborsStayTop` (assuming `TopKs \subseteq Nat`): `TopInv` says that the rows an update is through with have their best
  neighbours, and that what is not dirty is on disk.
* `RowsStayCurrent` and `RebuildsAreCurrent` (assuming `NoProductWraps`: no product of two numbers of users
  exceeds the word; finding 3 is what happens otherwise): `RowsInv` says which similarities are those of the counts at each point of an update:
  all but the rows still to do and their columns.  It is preserved by the symmetric values because, without a
  sharder, counts are symmetric, and by those an update leaves alone because a similarity is only absent
  where nothing was counted (`NullInv`).
* `StaleSimIsBounded` (same assumption): with a sharder, `ShardInv` says the like of similarities that use an
  earlier frequency, never one below the visits of the pair.
* `BoughtTogetherIsRecommended` (finitely many items as well), from `RowsInv` and `TopInv`: with room for all, the best
  neighbours of a row are all of it.

**PartsProofs**: what is kept on disk, masks and reminders.  All but the container switch itself are theorems of `PartsSpec`, on the formulas that `parts` checks.
* Container and directory switches: `SwitchType`, `PointersAreContainers`, and the two refinements of
  `Switchover`, `ContainersImplementSwitchover` and `DirectoriesImplementSwitchover`, step by step, up to the first save or mark
  that could not be written.  The containers' invariant says
  at each point of `Next` and `EnsureSwitch` which container is open and what its path has; the directories', that the
  mark of the one in use is newer than that of the other.
* Factors, for any number of vertices and trainings (`FactorsAssumption`).  `StoreInv` describes where each
  vertex is: in the cache, in the database, or not yet made (`VerticesOK`), which a save is past
  (`DumpedOK`), and that the values are what was trained (`KeptOK`) or at least what was saved (`SavedOK`).  From it
  `NoTrainingIsLost` and `WhatWasSavedSurvives`; and, with the policy knowing exactly what is cached, `CacheStaysSound`.
* Topics: `RangesHaveTheirTopics`, for any topics, days and bursts within them (`BurstsAssumption`).  The invariant follows
  an `Add` under way: the days it is past have the topic, and every topic of a day is known.  That a range is a fold over
  its days is taken from `FoldLemmas`.
* Masks, for any number of bits, blocks and errors and any word size (`TablesAssumption`).  `GenInv` says where blocks begin (`BlocksOK`: block
  `b` has the bits from `b * f \div n` on, cut into words), and that the tables made so far are those of the
  choices of blocks lexicographically before `vec`.  `EachChoiceHasOneTable` and `NearPairsShareATable` follow by counting:
  k differing bits lie in at most k blocks, and some choice of n - k blocks avoids them.
* Reminders, for any finite set of queries and any scores (`QueriesAssumption`).  `CountsOK` relates the language models to the databases
  (`TermsAreCountedAlike`); `RemindInv` says that the lists, while related queries are dropped one after the other, are
  the best of their periods (`RemindersAreTheBest`).

**SimilarityProofs**, of `SimilaritySpec`.
* Documents, for any data sets, weights and limits: `SearchInv == TypeOK`, `InputOK`, `IndexOK` (the index has the vectors
  of data set `i` read so far), `PairsOK` (each pair the scan is past, `Past`, was put once in each direction, and no other was),
  `IndexedOK` (while the pairs are grouped, the list has
  those of `lastIndexId` read so far, what is through has the best written unless its update failed, and the rest is as before) and `IndexIsBest`.  `EachPairIsPutOnce` is the refinement of `PairSearch`,
  `TheBestAreIndexed` the claim on the database.
* Terms, for any finite sets of terms, contexts and dimensions, and any draws.  `ContextsKeepVectors`: `RigInv` says that outside the gap of
  `SetContextMax` the file and the generator have the vectors of a prefix of the contexts, each with what was drawn
  for it, up to the first stop in that gap.  `VectorsAreSums`: `SumInv` says that the run file adds up to `total` while it is open or after a `Flush` that failed, and what is stored to `kept`;
  an append is linear in the vectors, and merging a run does not depend on its order.  `TableHasTheBest`: `TableInv` says that
  the pairs collected are those of the terms compared so far, and that the table, while it is filled term by term, has the best of each.

**PhraseProofs**, of `PartsSpec`: the phrases, for any documents of numbered terms (`PhrasesAssumption`).
* `PartsHaveTheirCounts`: `PhraseInv` says that terms are sequences of numbers wherever
  they have got to, that the candidates are finitely many, and, once merged, that each has the counts of its parts.  Merging relies on
  the order of the file: the records of a key lie together once it is sorted (`Together`),
  because the order is lexicographic in the terms first (`LexOrders`).  The loop that collects parts
  is a fold over the sorted records, and `CollectedTo` says what it has written after the first n of them.
* `CandidatesAreCovered`: `CoverInv` says, of the first n n-grams of the file, that those collected for processing and the last one are a run
  (`RunOK`): ascending, each as deep as it shares terms with the one before, each with a bag that counts the places of its terms; and that
  nothing read that begins with the same term is missing from it (`Misses`).  So what is processed is a whole run (`Whole`),
  and the rest is about the stacks.  The post-order is a linear order of the run (`OrderIs`), an n-gram is popped by the first
  that is not deeper, and in it the n-grams whose documents get to one are a stretch before it (`Under`).  What begins with it is there (`StartsAreUnder`), which gives
  "at least"; when what n-grams share are n-grams, nothing else is (`UnderIsDeeper`), which gives "just as often".  Nothing is added twice, because an n-gram
  is taken by one only (`UnderSplits`), so that the bags count a union of disjoint sets (`DocsCount`).

**PatternProofs**, of `PartsSpec`: `MaximalSetsAreWritten`, for any sources of nonempty sets without duplicates (`SourcesAssumption`) and whatever
the object was used for before.  Lemmas show that in any order of items `IsSubsumedBy` implies proper inclusion, so that no maximal set
is lost; that in ascending order the binary search ends at the first item that is not less, and
`IsSubsumedBy` is proper inclusion, so that nothing else is written; `SetsInv` says what of the source has been read, what is listed under each
item, and that what is written has the maximal ones of the sets checked, and just those if all ascend.

The same module proves `TreeHasSupports` and `ProjectionsAreSound` of the frequent patterns, for any numbers and any databases of
finite sequences of item sets (`PatternsAssumption`).  `TreeInv` says, while transactions are inserted, that the nodes are
paths of frequent items and listed by head (`MadeTree`), and for every set of frequent items that the nodes of its rarest item below
the others add up to the transactions that have it (`KeepsSupport`).  It holds for every set because the path
of a transaction lists its frequent items in one strict order, so that exactly one of its nodes counts for a set it
has, and none for another.  Once all is read this gives the supports of the heads (singletons), hence a sound first
tree; and the trees of all calls of `fp_growth` are sound (`SoundCalls`) because a step of `project_path`, and so a
path and all paths of a head, keep a projection sound, and `prune` does: a node's parent is shorter than the node, and
what it hangs on after pruning, the first ancestor that is kept, is there or none.

**FoldLemmas** has what the others need of data.  A principle of induction takes a predicate as a parameter and cannot be cited with the
provers at hand, so induction is by the smallest counterexample: a nonempty set of numbers has a least member
(`MinNat`), a nonempty set of subsets of a finite set a minimal one (`MinSubset`).  From these: the elements of a finite set that
a strict order compares have the ranks from 0 on, each once (`RanksOrder`), which is what a sorted list is; recursive functions over
the subsets of a finite set exist and are unique (`RecursionExists`, `FoldsAgree`), a fold has the type its steps have, sums
over finite sets may be raised at one place and split (`SumRaised`), and the folds of the community modules
are such functions (`FoldsFromLeft`).

Only model-checked:
* `SearchEnds`: liveness under fairness is out of the prover's reach.  So is ENABLED, which is not used.
* The properties of the runs that end in a violation, which do not hold.

## 5. Findings, and what the models take for granted

1. `group_table_stale_ids`: `Set` leaves the queue of free numbers as it was
   (`group_table.h:73`); a later `AddDoc` takes a number of a group that has documents and
   overwrites it, and `Find` returns other documents than "docids that are in the same group".
2. `dup_detector_race`: the loop that sets the status of new documents
   (`dup_detector.h:362`) runs before the lock is taken; a document inserted in between is
   merged as an old one and not compared with those loaded from the file.
3. `item_cf_overflow`: two frequencies are multiplied as 32-bit integers
   (`IncrementalItemCF.cpp:272`); the run has a small modulus, the code needs 65536 buyers of each item.
4. `item_cf_flush`: the four stores are flushed one after the other, frequencies last; after a
   stop in between the asserted positive frequency (`IncrementalItemCF.cpp:269`) is zero.
5. `fptree_patterns`: a set is written that is in fewer than `min_sup` transactions.  A shadow starts with the support of
   its parent's node in the whole tree (`fptree.cpp:281`), and a tree with one node per item is taken for a path
   (`is_single_path`, `fptree.cpp:453`).
6. `kpe_parts`: a part of a candidate with the count 0 is "impossible" in two comments (`kpe_task.cc:912`, `931`) and expected in a third
   (`kpe_task.cc:784`).  A part that never ends a stretch, or the n-gram that sorts last, has it, and the phrase is dropped.

What was met while modelling and is an assumption or an exclusion of a model, not a run:

* `all-maximal-sets-satelite.h:23` asks for items in the order of their frequency; `IsSubsumedBy` looks for them with
  `lower_bound` by number, and for sets in another order than the ascending one it misses subsets: sets that are not maximal are
  written.  Nothing in the repository sorts or checks the sets (`data-source-iterator.cpp:76-125`), so which order comes in is left to who
  writes the file.  A source may also have empty sets, whose first item the search reads (`all-maximal-sets-satelite.cpp:141`).
* Removed documents come back into storage and groups in four cases, for none of which the repository says what should
  happen (nothing in it calls `RemoveDoc` or `FinishRemoveDocs`): removed before their analysis, since `FinishRemoveDocs` looks at what is
  stored (`dup_detector.h:173`); after a larger one in the same round, which the single pass skips (`178`); when the write fails and there is no copy in
  memory (`187`); and after a stop before both files were written, since the groups are written at the end of an analysis only (`162`, `418`).
* The redo request of the detector is deleted when it is read (`dup_detector.h:84`), long before the analysis is through.
* A failed save of a switch is not looked at (`container_switch.h:114`), and the next `Open` deletes what is in use.
* A stop while `RandomIndexing` replaces its storage or its vectors loses them (`random_indexing.h:145`); so does an `Open` after a `Flush` that
  failed half way (`random_indexing.h:70`), while a `Flush` called again recovers.
* An update of the similarity index that fails is not looked at (`all_pairs_output.cpp:103`, `113`): the document keeps its old list.
* Two switches of directories within a second leave the first directory in use, whichever is newer (`directory_switcher.cc:35`).
* A stop without the destructor of `Reminder` leaves the counts of terms and of queries from different logs (`Reminder.h:82`).
* Where a size is on disk and `Init` was not called, the destructor of the factor store reads beyond its vector (`FactorContainer.h:213`).
* Counts of candidates are too high when what two n-grams share is no n-gram itself (`kpe_task.cc:1372`).
* An `Add` of a topic that was stopped leaves days without it, one that is repeated with other days leaves the old ones (`storage.h:80`).
* The vectors of contexts drawn after a restart repeat those drawn before it, as the generator is never seeded.

## 6. Not modelled, and the plan

Floating-point training and scoring, text processing, image features and wrappers of
libraries are out of TLC's reach or have no state to speak of; the components' notes in
`PROJECT.json` say which.  The models cover a small share of the repository's lines for that reason: most are
vendored libraries (CImg, libsvm, word2vec, samplib, lshkit, maxent, libfm, SIFT) and numerical code.

What remains to do, in this order:

1. The integrator of topics over `Topics`; the nearest-neighbour queries of the detector over its fingerprints.
2. `psm.h`, compared with the definition of near fingerprints; `Apss` on disk and by map and reduce.
3. The second pass of the phrases, the reload of the query correction's dictionary, the tries.
4. Several factors on one file, and the control of the CTR learners.
