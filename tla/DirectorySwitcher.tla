-------------------------- MODULE DirectorySwitcher --------------------------
(***************************************************************************)
(* DirectorySwitcher (util/directory_switcher.cc): two directories, the    *)
(* one in use found at every start by the time of the file DONE in it,     *)
(* which SetNextValid writes when the other one is complete.  The callers  *)
(* fill the directory that GetNextWithDelete names; GetCurrent and GetNext *)
(* only read.                                                              *)
(*                                                                         *)
(* Times are whole seconds.  The model assumes what the comparison needs:  *)
(* the clock does not go back, and two switches are not within a second    *)
(* (SetNextValid).                                                         *)
(***************************************************************************)
EXTENDS Integers

CONSTANTS
  Contents,      (* what the callers may put in a directory                *)
  MaxTime        (* bound: the last second of the clock                    *)

VARIABLES
  dirs_,     (* the content of each directory, or Absent                   *)
  done,      (* the time of the file DONE in each directory, 0 without one *)
  choice_,
  filling,   (* the caller was given the next directory                    *)
  state,     (* where the program is                                       *)
  now,       (* the clock                                                  *)
  broken     (* history: a file DONE was made and could not be written     *)

vars == <<dirs_, done, choice_, filling, state, now, broken>>

Choice == {0, 1}
Empty == "empty"
Content == Contents \cup {Empty}
Absent == "absent"

GetNext == 1 - choice_
ContentOf(dir) == IF dirs_[dir] = Absent THEN Empty ELSE dirs_[dir]

(* Mutant: The times are compared the wrong way round. *)
Newest_Oldest == IF done[1] < done[0] THEN 1 ELSE 0

(* The loop of Open: the second directory only if it is newer. *)
Newest == IF done[1] > done[0] THEN 1 ELSE 0

Open ==
  /\ state = "down"
  /\ choice_' = Newest
  /\ state' = "up"
  /\ UNCHANGED <<dirs_, done, filling, now, broken>>

(* The directory that is not in use is deleted, file by file: it may fail  *)
(* when part of it is gone.                                                *)
GetNextWithDelete ==
  /\ state = "up"
  /\ \/ /\ dirs_' = [dirs_ EXCEPT ![GetNext] = Absent]
        /\ done' = [done EXCEPT ![GetNext] = 0]
        /\ filling' = TRUE
     \/ /\ dirs_[GetNext] # Absent
        /\ dirs_' = [dirs_ EXCEPT ![GetNext] = Empty]
        /\ \/ UNCHANGED done
           \/ done' = [done EXCEPT ![GetNext] = 0]
        /\ filling' = FALSE
  /\ UNCHANGED <<choice_, state, now, broken>>

(* A caller writes into a directory that it has. *)
Write(dir, c) ==
  /\ state = "up" /\ (dir = choice_ \/ filling)
  /\ dirs_' = [dirs_ EXCEPT ![dir] = c]
  /\ UNCHANGED <<done, choice_, filling, state, now, broken>>

(* SetNextValid makes the file DONE; callers say so of a directory that    *)
(* they were given.                                                        *)
SetNextValid ==
  /\ state = "up" /\ filling /\ dirs_[GetNext] # Absent
  /\ now > done[choice_]
  /\ done' = [done EXCEPT ![GetNext] = now]
  /\ \/ state' = "valid" /\ UNCHANGED broken
     \/ UNCHANGED state /\ broken' = TRUE
  /\ UNCHANGED <<dirs_, choice_, filling, now>>

(* ... and then chooses the directory. *)
Choose ==
  /\ state = "valid"
  /\ choice_' = GetNext
  /\ filling' = FALSE
  /\ state' = "up"
  /\ UNCHANGED <<dirs_, done, now, broken>>

(* The program ends or is stopped; a stop in the middle of a deletion      *)
(* leaves what a deletion that failed leaves.                              *)
Stop ==
  /\ state # "down"
  /\ state' = "down" /\ choice_' = 0 /\ filling' = FALSE
  /\ UNCHANGED <<dirs_, done, now, broken>>

Tick == now < MaxTime /\ now' = now + 1 /\ UNCHANGED <<dirs_, done, choice_, filling, state, broken>>

Init ==
  /\ dirs_ = [dir \in Choice |-> Absent] /\ done = [dir \in Choice |-> 0]
  /\ choice_ = 0 /\ filling = FALSE /\ state = "down"
  /\ now = 1 /\ broken = FALSE

Next ==
  \/ Open \/ GetNextWithDelete \/ SetNextValid \/ Choose \/ Stop \/ Tick
  \/ \E dir \in Choice, c \in Contents : Write(dir, c)

Spec == Init /\ [][Next]_vars
-----------------------------------------------------------------------------
(* Every variable has its type. *)
TypeOK ==
  /\ dirs_ \in [Choice -> Content \cup {Absent}]
  /\ done \in [Choice -> Nat] /\ now \in Nat
  /\ choice_ \in Choice /\ filling \in BOOLEAN
  /\ state \in {"down", "up", "valid"} /\ broken \in BOOLEAN

NoCopy == [mem |-> "nothing", disk |-> "nothing"]
CopyOf(dir) == [mem |-> ContentOf(dir), disk |-> ContentOf(dir)]

(* A switch takes effect when the file DONE is there. *)
ChoiceInUse == IF state = "valid" THEN GetNext ELSE choice_

InUse == IF state = "down" THEN NoCopy ELSE CopyOf(ChoiceInUse)
NextCopy == IF state = "up" /\ filling THEN CopyOf(GetNext) ELSE NoCopy
Kept == ContentOf(Newest)

Promise == INSTANCE Switchover WITH inuse <- InUse, next <- NextCopy, kept <- Kept

(* As long as every file DONE that was made was also written, a start      *)
(* brings back the directory in use, however often the two changed places, *)
(* and never one that is being filled or deleted.                          *)
DirectoriesSwitchOver ==
  Promise!Init /\ [][broken' \/ Promise!Next]_(Promise!vars)
=============================================================================
