----------------------------- MODULE Switchover -----------------------------
(***************************************************************************)
(* What is promised of two copies of some data, one in use and one that is *)
(* filled to take its place: the copy in use stays as it is until the      *)
(* switch, the switch takes effect at once, in memory and for every later  *)
(* start of the program, and a stop at any moment brings back the copy in  *)
(* use, as it was last written to disk, and never the one being filled.    *)
(***************************************************************************)
CONSTANT Contents        (* what the caller may put in a copy              *)

VARIABLES
  inuse,   (* the copy in use: its content in memory and on disk; Nothing  *)
           (* while the program is down                                    *)
  next,    (* the copy being filled, or Nothing                            *)
  kept     (* the content on disk that the next start brings back          *)

vars == <<inuse, next, kept>>

Empty == "empty"
Content == Contents \cup {Empty}
Copy == [mem : Content, disk : Content]
Read(content) == [mem |-> content, disk |-> content]
Nothing == Read("nothing")

Init == inuse = Nothing /\ next = Nothing /\ kept = Empty

Open == inuse = Nothing /\ inuse' = Read(kept) /\ UNCHANGED <<next, kept>>

Prepare == inuse # Nothing /\ next' = Read(Empty) /\ UNCHANGED <<inuse, kept>>

(* A copy changes, in memory and on disk or in one of them. *)
WriteNext == next # Nothing /\ next' \in Copy /\ UNCHANGED <<inuse, kept>>

WriteInUse ==
  /\ inuse # Nothing /\ inuse' \in Copy
  /\ kept' = inuse'.disk /\ UNCHANGED next

Switch ==
  /\ inuse # Nothing /\ next # Nothing
  /\ inuse' = next /\ kept' = next.disk /\ next' = Nothing

(* The copy that was being filled is given up. *)
GiveUp == next' = Nothing /\ UNCHANGED <<inuse, kept>>

Stop == inuse' = Nothing /\ next' = Nothing /\ UNCHANGED kept

Next == Open \/ Prepare \/ WriteNext \/ WriteInUse \/ Switch \/ GiveUp \/ Stop

Spec == Init /\ [][Next]_vars
=============================================================================
