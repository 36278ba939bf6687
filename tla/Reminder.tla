------------------------------ MODULE Reminder ------------------------------
(***************************************************************************)
(* The reminder of popular and real-time queries                           *)
(* (include/idmlib/query-suggestion/Reminder.h).  The log is counted twice *)
(* over: the queries in databases, their terms in memory.  indexQuery      *)
(* ranks the counted queries by scores of their terms, keeps the best      *)
(* that share no term, and empties all counts; so does the destructor.     *)
(*                                                                         *)
(* A query is the sequence of its terms.  Scores are floating point: any   *)
(* order of the queries may be the one by scores.  What was put in a       *)
(* database stays when the program is stopped, but for the reminders that  *)
(* were not committed.                                                     *)
(***************************************************************************)
EXTENDS Integers, SequencesExt, FiniteSetsExt

CONSTANTS
  Query,
  Chinese,             (* the terms that begin with a Chinese character    *)
  popularNum_, realTimeNum_,
  PopularFactor, RealTimeFactor,   (* 5 and 10 in the code                 *)
  MaxItems                         (* bound: items of the log              *)

VARIABLES
  periodCount_, latestSliceCount_,           (* counts of queries          *)
  periodLangModel_, latestSliceLangModel_,   (* counts of terms            *)
  remindQueryIndex_, committed,              (* as read, and as on disk    *)
  items,                                     (* how many were counted      *)
  stage,                                     (* "logging", "ranking",      *)
                                             (* "cleaning"                 *)
  crashed                                    (* history                    *)

counts == <<periodCount_, latestSliceCount_, periodLangModel_, latestSliceLangModel_>>
vars == <<counts, remindQueryIndex_, committed, items, stage, crashed>>

Term == UNION {ToSet(q) : q \in Query}
NoQueries == [q \in Query |-> 0]
NoTerms == [t \in Term \cap Chinese |-> 0]
NoReminders ==
  LET none == [queries |-> <<>>, order |-> <<>>] IN [popular |-> none, realtime |-> none]

Init ==
  /\ periodCount_ = NoQueries /\ latestSliceCount_ = NoQueries
  /\ periodLangModel_ = NoTerms /\ latestSliceLangModel_ = NoTerms
  /\ remindQueryIndex_ = NoReminders /\ committed = NoReminders
  /\ items = 0 /\ stage = "logging" /\ crashed = FALSE

(* A query gives each of its Chinese terms its frequency, once for each    *)
(* time the term is in it.                                                 *)
CountTerms(model, query, freq) ==
  [t \in Term \cap Chinese |-> model[t] + freq * Cardinality({n \in DOMAIN query : query[n] = t})]

(* indexQueryLog, one item of a log.                                       *)
IndexItem(query, freq, isLatestTimeId) ==
  /\ stage = "logging" /\ items < MaxItems
  /\ IF isLatestTimeId
     THEN /\ latestSliceLangModel_' = CountTerms(latestSliceLangModel_, query, freq)
          /\ latestSliceCount_' = [latestSliceCount_ EXCEPT ![query] = @ + freq]
          /\ UNCHANGED <<periodLangModel_, periodCount_>>
     ELSE /\ periodLangModel_' = CountTerms(periodLangModel_, query, freq)
          /\ periodCount_' = [periodCount_ EXCEPT ![query] = @ + freq]
          /\ UNCHANGED <<latestSliceLangModel_, latestSliceCount_>>
  /\ items' = items + 1
  /\ UNCHANGED <<remindQueryIndex_, committed, stage, crashed>>

-----------------------------------------------------------------------------
isDuplicate(candidate, selected) ==
  \E n \in DOMAIN selected : ToSet(candidate) \cap ToSet(selected[n]) # {}

deduplicate(candidates, resultNum) ==
  FoldLeft(LAMBDA selected, q :
    IF Len(selected) < resultNum /\ ~isDuplicate(q, selected) THEN Append(selected, q)
    ELSE selected, <<>>, candidates)

(* Mutant: What comes off the queue is not turned round. *)
Candidates_WorstFirst(order, candidateNum) ==
  Reverse(SubSeq(order, 1, Min({Len(order), candidateNum})))

(* The queue keeps the best candidateNum of the queries, which come off it *)
(* worst first and are turned round.                                       *)
Candidates(order, candidateNum) ==
  LET queue == Reverse(SubSeq(order, 1, Min({Len(order), candidateNum})))
  IN  Reverse(queue)

Orders(S) == {o \in [1 .. Cardinality(S) -> S] : ToSet(o) = S}

(* The queries that were counted, ranked by some score; the order is kept  *)
(* with the reminders as history.                                          *)
Ranked(count, num, factor) ==
  {[queries |-> deduplicate(Candidates(order, num * factor), num), order |-> order]
     : order \in Orders({q \in Query : count[q] > 0})}

indexPopularQuery ==
  /\ stage = "logging" /\ stage' = "ranking"
  /\ \E ranked \in Ranked(periodCount_, popularNum_, PopularFactor) :
       remindQueryIndex_' = [remindQueryIndex_ EXCEPT !.popular = ranked]
  /\ UNCHANGED <<counts, committed, items, crashed>>

indexRealTimeQuery ==
  /\ stage = "ranking" /\ stage' = "cleaning"
  /\ \E ranked \in Ranked(latestSliceCount_, realTimeNum_, RealTimeFactor) :
       remindQueryIndex_' = [remindQueryIndex_ EXCEPT !.realtime = ranked]
  /\ UNCHANGED <<counts, committed, items, crashed>>

(* Mutant: The terms of the latest slice are not forgotten. *)
cleanData_KeepsSlice ==
  /\ periodCount_' = NoQueries /\ latestSliceCount_' = NoQueries
  /\ periodLangModel_' = NoTerms /\ UNCHANGED latestSliceLangModel_

cleanData ==
  /\ periodCount_' = NoQueries /\ latestSliceCount_' = NoQueries
  /\ periodLangModel_' = NoTerms /\ latestSliceLangModel_' = NoTerms

(* flush and cleanData end indexQuery.                                     *)
FlushAndClean ==
  /\ stage = "cleaning" /\ stage' = "logging"
  /\ committed' = remindQueryIndex_
  /\ cleanData
  /\ UNCHANGED <<remindQueryIndex_, items, crashed>>

(* The destructor; then the program is started again.                      *)
Restart ==
  /\ stage = "logging"
  /\ committed' = remindQueryIndex_
  /\ cleanData
  /\ UNCHANGED <<remindQueryIndex_, items, stage, crashed>>

(* The program is stopped without it: the counts in memory are gone, those *)
(* in the databases are not, and either list of reminders may be the one   *)
(* that was committed last.                                                *)
Crash ==
  /\ \E popular \in {remindQueryIndex_.popular, committed.popular},
        realtime \in {remindQueryIndex_.realtime, committed.realtime} :
       remindQueryIndex_' = [popular |-> popular, realtime |-> realtime]
  /\ committed' = remindQueryIndex_'
  /\ periodLangModel_' = NoTerms /\ latestSliceLangModel_' = NoTerms
  /\ stage' = "logging" /\ crashed' = TRUE
  /\ UNCHANGED <<periodCount_, latestSliceCount_, items>>

Next ==
  \/ \E q \in Query, freq \in 1 .. 2, isLatestTimeId \in BOOLEAN : IndexItem(q, freq, isLatestTimeId)
  \/ indexPopularQuery \/ indexRealTimeQuery \/ FlushAndClean \/ Restart \/ Crash

Spec == Init /\ [][Next]_vars

-----------------------------------------------------------------------------
(* As long as no stop has kept the destructor from running, the terms in   *)
(* memory have the counts of the queries in the databases, over any number *)
(* of logs, rankings and restarts (indexQueryLog, cleanData).              *)
TermsHaveCountsOfQueries ==
  ~crashed =>
    \A t \in Term \cap Chinese :
      LET Total(count) == FoldSet(LAMBDA q, sum :
            sum + count[q] * Cardinality({n \in DOMAIN q : q[n] = t}), 0, Query)
      IN  /\ periodLangModel_[t] = Total(periodCount_)
          /\ latestSliceLangModel_[t] = Total(latestSliceCount_)

(* The reminders, after a stop as well, are in descending order of score,  *)
(* no two share a term, and of the best 5 or 10 times as many queries none *)
(* was left out but for a better one that it shares a term with, or for as *)
(* many better ones as are wanted (deduplicate).                           *)
BestUnrelated(ranked, num, factor) ==
  LET chosen == ToSet(ranked.queries)
      Rank(q) == CHOOSE n \in DOMAIN ranked.order : ranked.order[n] = q
      Better(q) == {r \in chosen : Rank(r) < Rank(q)}
      Related(q, r) == ToSet(q) \cap ToSet(r) # {}
  IN  /\ \A m, n \in DOMAIN ranked.queries : m < n =>
           /\ Rank(ranked.queries[m]) < Rank(ranked.queries[n])
           /\ ~Related(ranked.queries[m], ranked.queries[n])
      /\ \A n \in 1 .. Min({Len(ranked.order), num * factor}) :
           LET q == ranked.order[n]
           IN  q \in chosen \/ Cardinality(Better(q)) = num \/ \E r \in Better(q) : Related(q, r)

RemindersAreBest ==
  /\ BestUnrelated(remindQueryIndex_.popular, popularNum_, PopularFactor)
  /\ BestUnrelated(remindQueryIndex_.realtime, realTimeNum_, RealTimeFactor)
=============================================================================
