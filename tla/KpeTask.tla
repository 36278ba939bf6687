------------------------------- MODULE KpeTask -------------------------------
(***************************************************************************)
(* The counting of phrases (source/keyphrase-extraction/kpe_task.cc): the  *)
(* suffixes of the stretches of text are written to a file as n-grams and  *)
(* sorted; one pass over the file counts the n-grams and, of those that    *)
(* share terms, adds up the counts in post-order; the candidates are then  *)
(* joined, by two sorted merges, with the counts of their parts.           *)
(*                                                                         *)
(* A text is the sequence of its terms, with 0 where positions jump.  The  *)
(* frequency of an n-gram is the number of its document items, kept as the *)
(* bag of the documents.  A hash stands for the terms it is of, so there   *)
(* are no conflicts of hashes; contexts and scores are left out, and what  *)
(* the scores decide is open.                                              *)
(***************************************************************************)
EXTENDS Integers, SequencesExt, FiniteSetsExt, Bags

CONSTANTS
  Documents,           (* pairs of title and content                       *)
  MaxDocs,
  SplitTerms,          (* the terms IsSplitTerm holds of                   *)
  max_phrase_len_,
  ManyDocs,            (* from so many documents on there are thresholds;  *)
                       (* 10 in the code                                   *)
  manmade_,
  Refusals             (* the sets of phrases a test may refuse            *)

VARIABLES
  doc_count_,
  ngrams,              (* what was written to ngram_writer_                *)
  next,                (* how many of them were read                       *)
  last_ngram, for_process,
  h2c,                 (* counts of n-grams                                *)
  candidates,
  hclt,                (* counts of the parts of candidates                *)
  kp,                  (* the phrases written to kp_writer_                *)
  refused,             (* by KpeKnowledge::Test                            *)
  unlikely,            (* by the statistics of the parts                   *)
  stage                (* "inserting", "counting", "merging", "judging",   *)
                       (* "done"                                           *)

vars == <<doc_count_, ngrams, next, last_ngram, for_process, h2c, candidates,
          hclt, kp, refused, unlikely, stage>>

-----------------------------------------------------------------------------
(* The elements of a set, sorted: the n-th is the one that n - 1 come      *)
(* before.                                                                 *)
Sorted(S, Op(_, _)) ==
  LET rank == [x \in S |-> Cardinality({y \in S : Op(y, x)})]
  IN  [n \in 1 .. Cardinality(S) |-> CHOOSE x \in S : rank[x] = n - 1]

(* The fragments of a text (AddTerms_): each begins where one ended at a   *)
(* split term, with that term, or behind a jump of positions, and ends     *)
(* with the next split term or before the next jump.                       *)
Fragments(text) ==
  LET Edge(n) == n \notin DOMAIN text \/ text[n] = 0
      Split(n) == text[n] \in SplitTerms
      starts == {n \in DOMAIN text : ~Edge(n) /\ (Edge(n - 1) \/ Split(n))}
      EndFrom(s) == Min({n \in s .. Len(text) : Edge(n + 1) \/ (n > s /\ Split(n))})
  IN  {<<s, EndFrom(s)>> : s \in starts}

(* The suffixes of the fragments without their split terms, cut to one     *)
(* term more than a phrase may have (AppendNgram_).                        *)
NgramsOf(text, docid) ==
  LET Begin(fr) == IF text[fr[1]] \in SplitTerms THEN fr[1] + 1 ELSE fr[1]
      End(fr) == IF text[fr[2]] \in SplitTerms THEN fr[2] - 1 ELSE fr[2]
      suffixes == UNION {{<<i, Min({End(fr), i + max_phrase_len_})>> : i \in Begin(fr) .. End(fr)}
                           : fr \in Fragments(text)}
      order == Sorted(suffixes, LAMBDA x, y :
                 x[1] < y[1] \/ (x[1] = y[1] /\ x[2] < y[2]))
  IN  [n \in DOMAIN order |->
         [terms |-> SubSeq(text, order[n][1], order[n][2]), docid |-> docid]]

(* The order of the sorted file: by terms, a prefix first.                 *)
Before(x, y) ==
  LET Less(s, t) == \/ IsStrictPrefix(s, t)
                    \/ \E n \in DOMAIN s \cap DOMAIN t :
                         SubSeq(s, 1, n - 1) = SubSeq(t, 1, n - 1) /\ s[n] < t[n]
  IN  Less(x.terms, y.terms) \/ (x.terms = y.terms /\ x.docid < y.docid)

GetInc(s, t) == Max({n \in 0 .. Min({Len(s), Len(t)}) : SubSeq(s, 1, n) = SubSeq(t, 1, n)})

-----------------------------------------------------------------------------
(* Mutant: One that is as deep as the one before does not take it off. *)
PostOrder_Strict(data) ==
  LET popped(m) == Min({n \in m + 1 .. Len(data) : data[n].inc < data[m].inc}
                         \cup {Len(data) + 1})
  IN  Sorted(DOMAIN data, LAMBDA m, n :
        popped(m) < popped(n) \/ (popped(m) = popped(n) /\ m > n))

(* GetCandidate_, for the n-grams with the same first term.  In post-order *)
(* each one is taken from the stack by the first one after it that is not  *)
(* deeper.                                                                 *)
PostOrder(data) ==
  LET popped(m) == Min({n \in m + 1 .. Len(data) : data[n].inc <= data[m].inc}
                         \cup {Len(data) + 1})
  IN  Sorted(DOMAIN data, LAMBDA m, n :
        popped(m) < popped(n) \/ (popped(m) = popped(n) /\ m > n))

(* Each one gets the documents of those on the stack that are deeper,      *)
(* which then are gone.                                                    *)
Accumulated(data) ==
  LET order == PostOrder(data)
      item(m) == data[order[m]]
      taker(m) == Min({n \in m + 1 .. Len(data) : item(n).inc < item(m).inc}
                        \cup {Len(data) + 1})
      docs[m \in DOMAIN data] ==
        FoldSet(LAMBDA n, bag : bag (+) docs[n], item(m).docs,
                {n \in 1 .. m - 1 : taker(n) = m})
  IN  {[terms |-> item(m).terms, docs |-> docs[m]] : m \in DOMAIN data}

Freq(item) == BagCardinality(item.docs)

(* With ten documents or more, up to some hundreds.                        *)
min_freq_threshold_ == IF doc_count_ < ManyDocs THEN 1 ELSE 3
min_df_threshold_ == IF doc_count_ < ManyDocs THEN 1 ELSE 2

IsCandidate(item) ==
  /\ item.terms \notin manmade_ /\ item.terms \notin refused
  /\ Freq(item) >= min_freq_threshold_
  /\ Cardinality(BagToSet(item.docs)) >= min_df_threshold_

GetCandidate_(data) ==
  LET items == {item \in Accumulated(data) : Len(item.terms) <= max_phrase_len_}
  IN  /\ h2c' = h2c \cup {[terms |-> item.terms, count |-> Freq(item)] : item \in
                            {i \in items : Len(i.terms) < max_phrase_len_}}
      /\ candidates' = candidates \cup {item \in items : IsCandidate(item)}
      /\ kp' = kp \cup {item \in items : item.terms \in manmade_}

-----------------------------------------------------------------------------
NoNgram == [inc |-> 0, terms |-> <<>>, docs |-> EmptyBag]

Init ==
  /\ doc_count_ = 0 /\ ngrams = <<>> /\ next = 0
  /\ last_ngram = NoNgram /\ for_process = <<>>
  /\ h2c = {} /\ candidates = {} /\ hclt = {} /\ kp = {}
  /\ refused \in Refusals /\ unlikely \in Refusals /\ stage = "inserting"

Insert ==
  /\ stage = "inserting" /\ doc_count_ < MaxDocs
  /\ \E d \in Documents :
       ngrams' = ngrams \o NgramsOf(d[1], doc_count_ + 1) \o NgramsOf(d[2], doc_count_ + 1)
  /\ doc_count_' = doc_count_ + 1
  /\ UNCHANGED <<next, last_ngram, for_process, h2c, candidates, hclt, kp, refused, unlikely, stage>>

(* The file is sorted; Compute_ does nothing if there is no n-gram.        *)
Close ==
  /\ stage = "inserting"
  /\ stage' = IF ngrams = <<>> THEN "done" ELSE "counting"
  /\ LET order == Sorted(DOMAIN ngrams, LAMBDA m, n :
                     \/ Before(ngrams[m], ngrams[n])
                     \/ ngrams[m] = ngrams[n] /\ m < n)
     IN  ngrams' = [n \in DOMAIN ngrams |-> ngrams[order[n]]]
  /\ UNCHANGED <<doc_count_, next, last_ngram, for_process, h2c, candidates, hclt, kp, refused, unlikely>>

(* One more of the n-gram that was read last ...                           *)
ReadSame ==
  /\ stage = "counting" /\ next < Len(ngrams)
  /\ LET ngram == ngrams[next + 1]
     IN  /\ last_ngram.terms \in {<<>>, ngram.terms}
         /\ last_ngram' = [last_ngram EXCEPT !.terms = ngram.terms,
                                             !.docs = @ (+) SetToBag({ngram.docid})]
  /\ next' = next + 1
  /\ UNCHANGED <<doc_count_, ngrams, for_process, h2c, candidates, hclt, kp, refused, unlikely, stage>>

(* ... or another one; if it begins with another term those collected are  *)
(* processed.                                                              *)
ReadOther ==
  /\ stage = "counting" /\ next < Len(ngrams)
  /\ LET ngram == ngrams[next + 1]
         inc == GetInc(last_ngram.terms, ngram.terms)
         collected == Append(for_process, last_ngram)
     IN  /\ last_ngram.terms \notin {<<>>, ngram.terms}
         /\ last_ngram' = [inc |-> inc, terms |-> ngram.terms,
                           docs |-> SetToBag({ngram.docid})]
         /\ IF inc = 0
            THEN GetCandidate_(collected) /\ for_process' = <<>>
            ELSE for_process' = collected /\ UNCHANGED <<h2c, candidates, kp>>
  /\ next' = next + 1
  /\ UNCHANGED <<doc_count_, ngrams, hclt, refused, unlikely, stage>>

(* The n-gram that was read last is not among those collected.             *)
EndCounting ==
  /\ stage = "counting" /\ next = Len(ngrams)
  /\ GetCandidate_(for_process)
  /\ stage' = "merging"
  /\ UNCHANGED <<doc_count_, ngrams, next, last_ngram, for_process, hclt, refused, unlikely>>

-----------------------------------------------------------------------------
(* What h2h_writer and h2c_writer say together of the parts of a           *)
(* candidate: the first is all but its last term, the second all but its   *)
(* first, the third and fourth are its first and its last one.             *)
Parts(terms) ==
  (IF Len(terms) >= 2 THEN {<<1, Front(terms)>>, <<2, Tail(terms)>>} ELSE {})
    \cup (IF Len(terms) >= 3 THEN {<<3, <<Head(terms)>>>>, <<4, <<Last(terms)>>>>} ELSE {})

CountOf(terms) ==
  IF \E c \in h2c : c.terms = terms THEN (CHOOSE c \in h2c : c.terms = terms).count ELSE 0

hh == UNION {{[key |-> c.terms, n |-> part[1], count |-> CountOf(part[2])]
                : part \in Parts(c.terms)} : c \in candidates}

NoCounts == <<0, 0, 0, 0>>

(* Mutant: The counts of the last key are not written. *)
Collected_NoLast(seq) ==
  FoldLeft(LAMBDA r, x :
    IF r.saveKey \in {<<>>, x.key}
    THEN [r EXCEPT !.saveKey = x.key, !.output[x.n] = x.count]
    ELSE [saveKey |-> x.key, output |-> [NoCounts EXCEPT ![x.n] = x.count],
          written |-> r.written \cup {<<r.saveKey, r.output>>}],
    [saveKey |-> <<>>, output |-> NoCounts, written |-> {}], seq).written

(* The pass over the sorted hh_writer: the counts of a key are written     *)
(* when the next key comes, or at the end.                                 *)
Collected(seq) ==
  LET end == FoldLeft(LAMBDA r, x :
               IF r.saveKey \in {<<>>, x.key}
               THEN [r EXCEPT !.saveKey = x.key, !.output[x.n] = x.count]
               ELSE [saveKey |-> x.key, output |-> [NoCounts EXCEPT ![x.n] = x.count],
                     written |-> r.written \cup {<<r.saveKey, r.output>>}],
               [saveKey |-> <<>>, output |-> NoCounts, written |-> {}], seq)
  IN  end.written \cup {<<end.saveKey, end.output>>}

CollectCounts ==
  /\ stage = "merging"
  /\ hclt' = Collected(Sorted(hh, LAMBDA x, y :
                Before([terms |-> x.key, docid |-> x.n], [terms |-> y.key, docid |-> y.n])))
  /\ stage' = "judging"
  /\ UNCHANGED <<doc_count_, ngrams, next, last_ngram, for_process, h2c, candidates, kp, refused, unlikely>>

(* Of the candidates of two terms or more whose parts were all counted,    *)
(* those that are not unlikely are phrases.                                *)
IsPhrase(c) ==
  /\ Len(c.terms) >= 2 /\ c.terms \notin unlikely
  /\ \E x \in hclt :
       x[1] = c.terms /\ \A part \in Parts(c.terms) : x[2][part[1]] # 0

Judge ==
  /\ stage = "judging" /\ stage' = "done"
  /\ kp' = kp \cup {c \in candidates : IsPhrase(c)}
  /\ UNCHANGED <<doc_count_, ngrams, next, last_ngram, for_process, h2c, candidates, hclt,
                 refused, unlikely>>

Next ==
  \/ Insert \/ Close \/ ReadSame \/ ReadOther \/ EndCounting
  \/ CollectCounts \/ Judge

Spec == Init /\ [][Next]_vars

-----------------------------------------------------------------------------
Counted == {n \in DOMAIN ngrams : ngrams[n].terms # Last(ngrams).terms}
StartsWith(s, t) == Len(s) >= Len(t) /\ SubSeq(s, 1, Len(t)) = t

(* How often a phrase is in a document, and not part of the n-gram that is *)
(* last.                                                                   *)
Occurrences(terms, d) ==
  Cardinality({n \in Counted : ngrams[n].docid = d /\ StartsWith(ngrams[n].terms, terms)})

Copies(bag, d) == IF d \in DOMAIN bag THEN bag[d] ELSE 0

(* What two n-grams have in common, if anything, was read as an n-gram.    *)
PrefixClosed ==
  \A m, n \in Counted : LET inc == GetInc(ngrams[m].terms, ngrams[n].terms)
    IN  inc = 0 \/ \E i \in Counted : ngrams[i].terms = SubSeq(ngrams[m].terms, 1, inc)

(* In every document a candidate is counted at least as often as it occurs *)
(* (all suffixes but the n-gram that sorts last are looked at); and just   *)
(* as often when what n-grams share are n-grams.  Else the documents of    *)
(* the deeper ones on the stack go to the first n-gram that is not deeper, *)
(* whatever it is (GetCandidate_, kpe_task.cc:1372).                       *)
CountsCoverOccurrences ==
  stage \in {"merging", "judging", "done"} =>
    \A c \in candidates : \A d \in 1 .. doc_count_ :
      /\ Copies(c.docs, d) >= Occurrences(c.terms, d)
      /\ PrefixClosed => Copies(c.docs, d) = Occurrences(c.terms, d)

(* After both merges each candidate of several terms has one entry, with   *)
(* the counts of its own parts, in their places, and 0 for those that have *)
(* none (ProcessNgram_): any other is skipped as "impossible"              *)
(* (kpe_task.cc:895), and the statistics would be of other phrases.        *)
PartsAreCounted ==
  stage \in {"judging", "done"} =>
    \A c \in candidates : Len(c.terms) >= 2 =>
      LET own == {x \in hclt : x[1] = c.terms}
      IN  /\ Cardinality(own) = 1
          /\ \A x \in own, part \in Parts(c.terms) : x[2][part[1]] = CountOf(part[2])

(* "impossible, just a reminder" (kpe_task.cc:912, 931): no part of a      *)
(* candidate has the count 0.  It has when it never ends a stretch of      *)
(* text, and is then no n-gram, or when it is the n-gram that sorts last;  *)
(* the phrase is dropped without being judged (ProcessNgram_).             *)
PartsHaveCounts ==
  stage \in {"judging", "done"} =>
    \A c \in candidates : \A part \in Parts(c.terms) : CountOf(part[2]) # 0
=============================================================================
