--------------------------- MODULE ContainerSwitch ---------------------------
(***************************************************************************)
(* ContainerSwitch (util/container_switch.h): two containers, each with a  *)
(* path of its own, and a file that says which of them is in use.  Next    *)
(* makes the other one anew; EnsureSwitch puts it in use and saves that in *)
(* the file; Open follows the file and deletes the other path.             *)
(*                                                                         *)
(* A container has a content in memory, which its caller writes and        *)
(* flushes to its path.  Calls are cut at each change of the disk, so that *)
(* the program may stop in between; deleting a path may be stopped half    *)
(* way, with the path still there and its content gone.  A file that is    *)
(* opened to be written is unreadable until it is, and stays so or keeps   *)
(* what it says when the save fails, which nobody looks at.                *)
(***************************************************************************)
EXTENDS Integers

CONSTANT Contents        (* what the caller may put in a container         *)

ASSUME ContentsAssumption ==
  Contents \cap {"absent", "null", "nothing"} = {}

VARIABLES
  path_,           (* the content of each path, or Absent                  *)
  current_file_,   (* the number of the container in use, or Unreadable    *)
  container_,      (* the content of each container in memory, or Null     *)
  current_,
  intermediate_,   (* Next was called, and not yet EnsureSwitch            *)
  pc,              (* where the program is                                 *)
  then,            (* what the call does once the switch is made           *)
  failed           (* history: a save failed                               *)

disk == <<path_, current_file_>>
memory == <<container_, current_, intermediate_>>
vars == <<disk, memory, pc, then, failed>>

Number == {0, 1}
Empty == "empty"
Content == Contents \cup {Empty}
Absent == "absent"
Null == "null"
Unreadable == 2

OtherNumber(n) == 1 - n
Other == OtherNumber(current_)

NoContainers == container_' = [n \in Number |-> Null]

-----------------------------------------------------------------------------
(* LoadCurrent_: 0 when nothing can be read. *)
LoadCurrent == IF current_file_ = Unreadable THEN 0 ELSE current_file_

(* The container that Open chooses. *)
NumberToOpen ==
  IF path_[LoadCurrent] # Absent THEN LoadCurrent
  ELSE IF path_[OtherNumber(LoadCurrent)] # Absent THEN OtherNumber(LoadCurrent)
  ELSE 0

(* What a container finds at a path when it is opened. *)
ContentAt(n) == IF path_[n] = Absent THEN Empty ELSE path_[n]

(* Open, up to opening the container, which makes its path. *)
Open ==
  /\ pc = "down"
  /\ LET n == NumberToOpen
     IN  /\ path_' = [path_ EXCEPT ![n] = ContentAt(n)]
         /\ container_' = [m \in Number |-> IF m = n THEN ContentAt(n) ELSE Null]
         /\ current_' = n
  /\ pc' = "opened"
  /\ UNCHANGED <<current_file_, intermediate_, then, failed>>

(* ... and the deletion of the other path. *)
RemoveOther ==
  /\ pc = "opened"
  /\ path_' = [path_ EXCEPT ![Other] = Absent]
  /\ pc' = "up"
  /\ UNCHANGED <<current_file_, memory, then, failed>>

(* Next begins with EnsureSwitch when that was not called. *)
BeginNext ==
  /\ pc = "up"
  /\ IF intermediate_
     THEN /\ current_' = Other
          /\ pc' = "switching"
          /\ UNCHANGED container_
     ELSE /\ container_' = [container_ EXCEPT ![Other] = Null]
          /\ pc' = "deleting"
          /\ UNCHANGED current_
  /\ then' = "next"
  /\ UNCHANGED <<disk, intermediate_, failed>>

(* The other path is deleted, ... *)
RemoveNext ==
  /\ pc = "deleting"
  /\ path_' = [path_ EXCEPT ![Other] = Absent]
  /\ pc' = "deleted"
  /\ UNCHANGED <<current_file_, memory, then, failed>>

(* ... and a new container opened on it. *)
OpenNext ==
  /\ pc = "deleted"
  /\ path_' = [path_ EXCEPT ![Other] = Empty]
  /\ container_' = [container_ EXCEPT ![Other] = Empty]
  /\ intermediate_' = TRUE
  /\ pc' = "up"
  /\ UNCHANGED <<current_file_, current_, then, failed>>

(* Mutant: intermediate_ is set before the outcome is known. *)
FailNext_Intermediate ==
  /\ pc \in {"deleting", "deleted"}
  /\ intermediate_' = TRUE
  /\ pc' = "up"
  /\ UNCHANGED <<disk, container_, current_, then, failed>>

(* Next returns NULL when one or the other cannot be done. *)
FailNext ==
  /\ pc \in {"deleting", "deleted"}
  /\ pc' = "up"
  /\ UNCHANGED <<disk, memory, then, failed>>

(* EnsureSwitch, which callers call only when Next returned a container. *)
EnsureSwitch ==
  /\ pc = "up" /\ intermediate_
  /\ current_' = Other
  /\ then' = "return" /\ pc' = "switching"
  /\ UNCHANGED <<disk, container_, intermediate_, failed>>

(* SaveCurrent_ opens the file, ... *)
OpenCurrentFile ==
  /\ pc = "switching"
  /\ current_file_' = Unreadable
  /\ pc' = "saving"
  /\ UNCHANGED <<path_, memory, then, failed>>

(* Mutant: intermediate_ is not reset. *)
Switched_StillIntermediate ==
  /\ IF then = "next"
     THEN /\ container_' = [container_ EXCEPT ![Other] = Null]
          /\ pc' = "deleting"
     ELSE /\ pc' = "up"
          /\ UNCHANGED container_
  /\ UNCHANGED <<path_, current_, then, intermediate_>>

(* What follows the save, in EnsureSwitch and in Next. *)
Switched ==
  /\ intermediate_' = FALSE
  /\ IF then = "next"
     THEN /\ container_' = [container_ EXCEPT ![Other] = Null]
          /\ pc' = "deleting"
     ELSE /\ pc' = "up"
          /\ UNCHANGED container_
  /\ UNCHANGED <<path_, current_, then>>

(* ... and writes it. *)
WriteCurrentFile ==
  /\ pc = "saving"
  /\ current_file_' = current_
  /\ Switched
  /\ UNCHANGED failed

(* It cannot be opened, or not be written. *)
FailToSave ==
  /\ pc \in {"switching", "saving"}
  /\ Switched
  /\ failed' = TRUE
  /\ UNCHANGED current_file_

-----------------------------------------------------------------------------
(* The containers a caller has: Current(), and what Next returned last. *)
AtHand == {current_} \cup (IF intermediate_ THEN {Other} ELSE {})

Write(n, c) ==
  /\ pc = "up" /\ n \in AtHand /\ container_[n] # Null
  /\ container_' = [container_ EXCEPT ![n] = c]
  /\ UNCHANGED <<disk, current_, intermediate_, pc, then, failed>>

Flush(n) ==
  /\ pc = "up" /\ n \in AtHand /\ container_[n] # Null
  /\ path_' = [path_ EXCEPT ![n] = container_[n]]
  /\ UNCHANGED <<current_file_, memory, pc, then, failed>>

(* The program ends or is stopped, maybe in the middle of a deletion. *)
Stop ==
  /\ pc # "down"
  /\ \/ UNCHANGED path_
     \/ /\ pc \in {"opened", "deleting"} /\ path_[Other] # Absent
        /\ path_' = [path_ EXCEPT ![Other] = Empty]
  /\ NoContainers /\ current_' = 0 /\ intermediate_' = FALSE
  /\ pc' = "down"
  /\ UNCHANGED <<current_file_, then, failed>>

Init ==
  /\ path_ = [n \in Number |-> Absent] /\ current_file_ = Unreadable
  /\ container_ = [n \in Number |-> Null] /\ current_ = 0 /\ intermediate_ = FALSE
  /\ pc = "down" /\ then = "return" /\ failed = FALSE

Next ==
  \/ Open \/ RemoveOther \/ BeginNext \/ RemoveNext \/ OpenNext \/ FailNext
  \/ EnsureSwitch \/ OpenCurrentFile \/ WriteCurrentFile \/ FailToSave
  \/ \E n \in Number : (\E c \in Contents : Write(n, c)) \/ Flush(n)
  \/ Stop

Spec == Init /\ [][Next]_vars
-----------------------------------------------------------------------------
(* Every variable has its type. *)
TypeOK ==
  /\ path_ \in [Number -> Content \cup {Absent}]
  /\ current_file_ \in Number \cup {Unreadable}
  /\ container_ \in [Number -> Content \cup {Null}]
  /\ current_ \in Number /\ intermediate_ \in BOOLEAN
  /\ pc \in {"down", "opened", "up", "deleting", "deleted", "switching", "saving"}
  /\ then \in {"return", "next"} /\ failed \in BOOLEAN

(* Current() returns a container, whatever failed, and so does the pointer *)
(* that Next returned last, until the next call of it.                     *)
CurrentIsThere ==
  pc = "up" => \A n \in AtHand : container_[n] # Null /\ path_[n] # Absent

(* The copies of Switchover.  A switch takes effect when Open would follow *)
(* it.                                                                     *)
CopyOf(n) == [mem |-> container_[n], disk |-> path_[n]]

Switching == pc \in {"switching", "saving"} /\ LoadCurrent # current_

NumberInUse == IF Switching THEN Other ELSE current_

NoCopy == [mem |-> "nothing", disk |-> "nothing"]

InUse == IF pc = "down" THEN NoCopy ELSE CopyOf(NumberInUse)

NextCopy ==
  IF (pc = "up" /\ intermediate_) \/ Switching THEN CopyOf(OtherNumber(NumberInUse)) ELSE NoCopy

Kept == ContentAt(NumberToOpen)

Promise == INSTANCE Switchover WITH inuse <- InUse, next <- NextCopy, kept <- Kept

(* As long as no save failed, a start brings back the container in use, at *)
(* every moment of Next, EnsureSwitch and Open: the next one is never in   *)
(* use before the switch, and the one in use is never deleted.             *)
ContainersSwitchOver ==
  Promise!Init /\ [][failed' \/ Promise!Next]_(Promise!vars)
=============================================================================
