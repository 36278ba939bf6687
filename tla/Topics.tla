------------------------------- MODULE Topics -------------------------------
(***************************************************************************)
(* The store of topics (Storage, include/idmlib/tdt/storage.h): what is    *)
(* known of a topic, and for each day the topics that were in the news.    *)
(* Add stores the first and then goes through the days, one by one.        *)
(*                                                                         *)
(* The containers are hashes of Tokyo Cabinet, which is not part of the    *)
(* repository: what was put in them stays there when the program is        *)
(* stopped, in whatever order they come to be written.  Flush              *)
(* (storage.h:116), which has both written, changes nothing that a program *)
(* sees and is no action; what a machine that fails leaves of files that   *)
(* were not written is the library's and is left out.                      *)
(***************************************************************************)
EXTENDS Integers, Sequences, FiniteSets

CONSTANTS
  Topic,
  MaxDay,              (* the days are 1 .. MaxDay                         *)
  Bursts,              (* the bursts a result may have, sequences of       *)
                       (* [start_time, period]                             *)
  MaxAdds              (* bound: calls of Add                              *)

VARIABLES
  topics_container_,   (* the bursts of the topics that are known          *)
  time2topics_container_,
  adding,              (* the topics being added: one, or none             *)
  left,                (* the days that topic must still be put to         *)
  adds,
  whole                (* history: the topics whose last Add went through  *)

vars == <<topics_container_, time2topics_container_, adding, left, adds, whole>>

Days == 1 .. MaxDay

(* The days of a sequence of bursts, in the order Add goes through them.   *)
DaysOf(bursts) ==
  LET Days_[n \in 0 .. Len(bursts)] ==
        IF n = 0 THEN <<>>
        ELSE Days_[n - 1] \o [t \in 1 .. bursts[n].period |-> bursts[n].start_time + t - 1]
  IN  Days_[Len(bursts)]

Init ==
  /\ topics_container_ = [t \in {} |-> <<>>]
  /\ time2topics_container_ = [d \in Days |-> <<>>]
  /\ adding = {} /\ left = <<>> /\ adds = 0 /\ whole = {}

(* What is known of the topic is stored first, over what was known ...     *)
Add(topic, bursts) ==
  /\ adding = {} /\ adds < MaxAdds
  /\ topics_container_' = [t \in DOMAIN topics_container_ \cup {topic} |->
                             IF t = topic THEN bursts ELSE topics_container_[t]]
  /\ adding' = {topic} /\ left' = DaysOf(bursts)
  /\ adds' = adds + 1 /\ whole' = whole \ {topic}
  /\ UNCHANGED time2topics_container_

(* Mutant: The topic takes the place of the others of that day. *)
AddTimeTopic_Overwrite ==
  /\ left # <<>>
  /\ \E topic \in adding :
       time2topics_container_' = [time2topics_container_ EXCEPT ![Head(left)] = <<topic>>]
  /\ left' = Tail(left)
  /\ UNCHANGED <<topics_container_, adding, adds, whole>>

(* ... then it is put among the topics of each of its days.                *)
AddTimeTopic_ ==
  /\ left # <<>>
  /\ \E topic \in adding :
       time2topics_container_' = [time2topics_container_ EXCEPT ![Head(left)] = Append(@, topic)]
  /\ left' = Tail(left)
  /\ UNCHANGED <<topics_container_, adding, adds, whole>>

Added ==
  /\ adding # {} /\ left = <<>>
  /\ adding' = {} /\ whole' = whole \cup adding
  /\ UNCHANGED <<topics_container_, time2topics_container_, left, adds>>

(* The program is stopped while it adds a topic, and started again.        *)
Stop ==
  /\ adding # {}
  /\ adding' = {} /\ left' = <<>>
  /\ UNCHANGED <<topics_container_, time2topics_container_, adds, whole>>

Next ==
  \/ \E topic \in Topic, bursts \in Bursts : Add(topic, bursts)
  \/ AddTimeTopic_ \/ Added \/ Stop

Spec == Init /\ [][Next]_vars
-----------------------------------------------------------------------------
(* The days from start on, without end; the topics are sorted, and those   *)
(* that are there several times are left once.                             *)
GetTopicsInTimeRange(start, end) ==
  UNION {{time2topics_container_[d][n] : n \in DOMAIN time2topics_container_[d]}
           : d \in start .. end - 1}

(* Whatever is added again or stopped half way, a range of days has all    *)
(* topics of which the store knows that they were in the news on one of    *)
(* them, if their last Add went through, and none of which it knows        *)
(* nothing (Add, GetTopicsInTimeRange, GetTopicInfo).                      *)
RangesAgreeWithTopics ==
  \A start, end \in Days :
    LET found == GetTopicsInTimeRange(start, end)
    IN  /\ \A topic \in whole :
             (\E n \in DOMAIN DaysOf(topics_container_[topic]) :
                DaysOf(topics_container_[topic])[n] \in start .. end - 1) => topic \in found
        /\ found \subseteq DOMAIN topics_container_
=============================================================================
