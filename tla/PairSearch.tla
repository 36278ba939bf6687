----------------------------- MODULE PairSearch -----------------------------
(***************************************************************************)
(* What is promised of a search for similar pairs: it reports every wanted *)
(* pair exactly once and nothing else, and it ends unless it is stopped.   *)
(***************************************************************************)
EXTENDS Naturals

CONSTANT Pairs           (* the pairs there can be                         *)

VARIABLES
  status,    (* "none" when the program just started                       *)
  wanted,    (* the pairs to be reported by this search                    *)
  reported   (* how often each pair was reported in this search            *)

vars == <<status, wanted, reported>>

Nothing == [p \in Pairs |-> 0]

Init == status = "none" /\ wanted = {} /\ reported = Nothing

Begin ==
  /\ status # "searching" /\ status' = "searching"
  /\ wanted' \subseteq Pairs /\ reported' = Nothing

(* Some of the pairs that are missing. *)
Report ==
  /\ status = "searching"
  /\ reported' \in [Pairs -> {0, 1}]
  /\ \A p \in Pairs : /\ reported[p] = 1 => reported'[p] = 1
                      /\ reported[p] # reported'[p] => p \in wanted
  /\ UNCHANGED <<status, wanted>>

End ==
  /\ status = "searching" /\ \A p \in wanted : reported[p] = 1
  /\ status' = "done" /\ wanted' = {} /\ reported' = Nothing

(* The program is stopped. *)
Stop == status' = "none" /\ wanted' = {} /\ reported' = Nothing

Next == Begin \/ Report \/ End \/ Stop

Spec == Init /\ [][Next]_vars

(* A search that was begun ends. *)
SearchEnds == status = "searching" ~> status # "searching"
=============================================================================
