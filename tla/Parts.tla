------------------------------- MODULE Parts -------------------------------
(***************************************************************************)
(* The parts of the library that have nothing to do with one another, one  *)
(* at a time: which of them runs is chosen in the initial state, the       *)
(* others stay as they begin.  Some of them end, so there are deadlocks.   *)
(***************************************************************************)
EXTENDS ContainerSwitch, Sequences, FiniteSets

CONSTANTS
  Chosen,
  MaxTime, MaxSize, MaxTrained, max_cache_count_, WordSize, MaxF, MaxPartition,
  item_num_, min_sup, Databases, MaxItem, RamLimits, Sources,
  Documents, MaxDocs, SplitTerms, max_phrase_len_, ManyDocs, manmade_, Refusals,
  Query, Chinese, popularNum_, realTimeNum_, PopularFactor, RealTimeFactor,
  MaxItems, Topic, MaxDay, Bursts, MaxAdds

ASSUME FactorsAssumption == MaxSize \in Nat /\ max_cache_count_ \in Nat
ASSUME TablesAssumption == WordSize \in Nat \ {0} /\ MaxF \in Nat /\ MaxPartition \in Nat
ASSUME QueriesAssumption ==
  /\ IsFiniteSet(Query) /\ \A q \in Query : q \in Seq({q[n] : n \in DOMAIN q})
  /\ popularNum_ \in Nat /\ realTimeNum_ \in Nat /\ PopularFactor \in Nat /\ RealTimeFactor \in Nat
ASSUME PatternsAssumption ==
  item_num_ \in Nat /\ min_sup \in Nat /\ Databases \subseteq Seq(SUBSET Nat)
ASSUME PhrasesAssumption ==
  Documents \subseteq Seq(Nat) \X Seq(Nat) /\ max_phrase_len_ \in Nat
ASSUME SourcesAssumption ==
  /\ MaxItem \in Nat /\ Sources \subseteq Seq(Seq(1 .. MaxItem))
  /\ \A source \in Sources : \A n \in DOMAIN source :
       /\ source[n] # <<>>
       /\ \A i, j \in DOMAIN source[n] : i # j => source[n][i] # source[n][j]
ASSUME BurstsAssumption ==
  /\ MaxDay \in Nat
  /\ \A bursts \in Bursts :
       /\ bursts \in Seq([start_time : 1 .. MaxDay, period : Nat])
       /\ \A n \in DOMAIN bursts : bursts[n].start_time + bursts[n].period - 1 <= MaxDay

VARIABLES
  which,
  dirs_, done, choice_, filling, state, now, broken,
  db_, size_store_, mem_cache_, mem_size, curr_cache_count_, policy_, size_,
  held, store_pc, dumped, known, trained, safe, crashed, torn,
  f, k, partition_num, count, mask_blocks, vec, table_list, gen_pc,
  data_, read, tree, stack, out_, mining,
  data, max_items_in_ram, next_set, all_sets_, occurs_, items_in_ram, os, search,
  doc_count_, ngrams, next_ngram, last_ngram, for_process, h2c, candidates,
  hclt, kp, refused, unlikely, kpe_stage,
  periodCount_, latestSliceCount_, periodLangModel_, latestSliceLangModel_,
  remindQueryIndex_, committed, logged, remind_stage, stopped,
  topics_container_, time2topics_container_, adding, left, adds, whole

Dir == INSTANCE DirectorySwitcher
Store == INSTANCE FactorStore WITH pc <- store_pc, next <- dumped
Gen == INSTANCE FpTables WITH pc <- gen_pc
Tree == INSTANCE FPTree
Sets == INSTANCE AllMaximalSets WITH next <- next_set
Kpe == INSTANCE KpeTask WITH next <- next_ngram, stage <- kpe_stage
Remind == INSTANCE Reminder WITH items <- logged, stage <- remind_stage, crashed <- stopped
Tdt == INSTANCE Topics

dirVars == <<dirs_, done, choice_, filling, state, now, broken>>
storeVars == <<db_, size_store_, mem_cache_, mem_size, curr_cache_count_, policy_,
  size_, held, store_pc, dumped, known, trained, safe, crashed, torn>>
genVars == <<f, k, partition_num, count, mask_blocks, vec, table_list, gen_pc>>
treeVars == <<data_, read, tree, stack, out_, mining>>
setsVars == <<data, max_items_in_ram, next_set, all_sets_, occurs_, items_in_ram, os, search>>
kpeVars == <<doc_count_, ngrams, next_ngram, last_ngram, for_process, h2c, candidates,
  hclt, kp, refused, unlikely, kpe_stage>>
remindVars == <<periodCount_, latestSliceCount_, periodLangModel_, latestSliceLangModel_,
  remindQueryIndex_, committed, logged, remind_stage, stopped>>
tdtVars == <<topics_container_, time2topics_container_, adding, left, adds, whole>>

partsVars == <<which, vars, dirVars, storeVars, genVars, treeVars, setsVars, kpeVars,
  remindVars, tdtVars>>

PartsInit ==
  /\ which \in Chosen
  /\ Init /\ Dir!Init /\ Store!Init /\ Sets!Init /\ Remind!Init /\ Tdt!Init
  /\ which = "tables" \/ (f = 1 /\ k = 0 /\ partition_num = 1)
  /\ Gen!Init
  /\ which = "patterns" \/ data_ = <<>>
  /\ Tree!Init
  /\ which = "phrases" \/ (refused = {} /\ unlikely = {})
  /\ Kpe!Init

PartsNext ==
  /\ UNCHANGED which
  /\ \/ /\ which = "containers" /\ Next
        /\ UNCHANGED <<dirVars, storeVars, genVars, treeVars, setsVars, kpeVars, remindVars, tdtVars>>
     \/ /\ which = "directories" /\ Dir!Next
        /\ UNCHANGED <<vars, storeVars, genVars, treeVars, setsVars, kpeVars, remindVars, tdtVars>>
     \/ /\ which = "factors" /\ Store!Next
        /\ UNCHANGED <<vars, dirVars, genVars, treeVars, setsVars, kpeVars, remindVars, tdtVars>>
     \/ /\ which = "tables" /\ Gen!Next
        /\ UNCHANGED <<vars, dirVars, storeVars, treeVars, setsVars, kpeVars, remindVars, tdtVars>>
     \/ /\ which = "patterns" /\ Tree!Next
        /\ UNCHANGED <<vars, dirVars, storeVars, genVars, setsVars, kpeVars, remindVars, tdtVars>>
     \/ /\ which = "sets" /\ Sets!Next
        /\ UNCHANGED <<vars, dirVars, storeVars, genVars, treeVars, kpeVars, remindVars, tdtVars>>
     \/ /\ which = "phrases" /\ Kpe!Next
        /\ UNCHANGED <<vars, dirVars, storeVars, genVars, treeVars, setsVars, remindVars, tdtVars>>
     \/ /\ which = "reminders" /\ Remind!Next
        /\ UNCHANGED <<vars, dirVars, storeVars, genVars, treeVars, setsVars, kpeVars, tdtVars>>
     \/ /\ which = "topics" /\ Tdt!Next
        /\ UNCHANGED <<vars, dirVars, storeVars, genVars, treeVars, setsVars, kpeVars, remindVars>>

PartsSpec == PartsInit /\ [][PartsNext]_partsVars

-----------------------------------------------------------------------------
(* The promise of DirectorySwitcher.                                       *)
DirectoriesSwitchOver == Dir!DirectoriesSwitchOver

(* No training is lost; see FactorStore.                                   *)
ValuesAreKept == Store!ValuesAreKept

(* The cache of vertices is bounded and has the one in use; see            *)
(* FactorStore.                                                            *)
CacheIsSound == Store!CacheIsSound

(* A crash undoes no save; see FactorStore.                                *)
SavedSurvives == Store!SavedSurvives

(* All choices of blocks, of all bits, have a table; see FpTables.         *)
EveryChoiceOnce == Gen!EveryChoiceOnce

(* Near fingerprints agree on a table; see FpTables.                       *)
NearPairsMeet == Gen!NearPairsMeet

(* The tree of transactions has their supports; see FPTree.                *)
TreeKeepsSupport == Tree!TreeKeepsSupport

(* The projections are well formed; see FPTree.                            *)
TreesAreSound == Tree!TreesAreSound

(* Only frequent sets are written, as fptree.h:4 has it; see FPTree.       *)
FrequentPatterns == Tree!FrequentPatterns

(* The maximal sets are written, and no others if items ascend; see        *)
(* AllMaximalSets.                                                         *)
MaximalSetsAreFound == Sets!MaximalSetsAreFound

(* The counts of candidates; see KpeTask.                                  *)
CountsCoverOccurrences == Kpe!CountsCoverOccurrences

(* The counts of the parts of candidates; see KpeTask.                     *)
PartsAreCounted == Kpe!PartsAreCounted

(* No part has the count 0, as kpe_task.cc:912 has it; see KpeTask.        *)
PartsHaveCounts == Kpe!PartsHaveCounts

(* Queries and terms are counted alike; see Reminder.                      *)
TermsHaveCountsOfQueries == Remind!TermsHaveCountsOfQueries

(* The reminders are the best that share no term; see Reminder.            *)
RemindersAreBest == Remind!RemindersAreBest

(* A range of days has the topics of its days; see Topics.                 *)
RangesAgreeWithTopics == Tdt!RangesAgreeWithTopics
=============================================================================
