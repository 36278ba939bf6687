----------------------------- MODULE PartsProofs -----------------------------
(***************************************************************************)
(* Parts that stand on their own.  Each is proved of its own               *)
(* specification, which the composition of the parts implies.              *)
(*                                                                         *)
(* What is kept on disk, while programs stop and start.  Container         *)
(* switches and directory switches implement Switchover, for any contents, *)
(* and for any times: the type invariant, CurrentIsThere,                  *)
(* ContainersSwitchOver and DirectoriesSwitchOver.  The stores of factors  *)
(* (ValuesAreKept, SavedSurvives and CacheIsSound, for any number of       *)
(* vertices, any size of the cache and any choice of the eviction policy)  *)
(* and of topics (RangesAgreeWithTopics, for any topics and any bursts     *)
(* whose days there are).  No property is inductive.  Of the switches it   *)
(* must be known at each point which copy is open and what is under its    *)
(* path.  Of the factors it must be known which vertices are in the        *)
(* database, that the policy knows of those in memory, how far a save is,  *)
(* and that the file of the size covers what was saved; of the topic being *)
(* added, that each of its days has it or is still to go.                  *)
(*                                                                         *)
(* What is chosen.  The choices of blocks of the fingerprint tables: every *)
(* choice has one table (EveryChoiceOnce), and fingerprints that differ in *)
(* few bits agree on one (NearPairsMeet), for any number of bits, blocks   *)
(* and differences and any word size.  The choices of queries of the       *)
(* reminder: terms are counted as queries are (TermsHaveCountsOfQueries),  *)
(* and what is chosen is the best (RemindersAreBest), for any queries,     *)
(* terms and scores.                                                       *)
(***************************************************************************)
EXTENDS Parts, FoldLemmas

InEnsureSwitch == pc \in {"switching", "saving"}

(* Where the program runs, the container in use is there; so is the next   *)
(* one from Next to the end of EnsureSwitch.                               *)
ContainersThere ==
  /\ pc # "down" => container_[current_] # Null /\ path_[current_] # Absent
  /\ intermediate_ => container_[Other] # Null /\ path_[Other] # Absent
  /\ InEnsureSwitch => intermediate_
  /\ pc \in {"down", "opened", "deleting", "deleted"} => ~intermediate_

(* As long as no save failed, the file names the container in use, but     *)
(* while it is written.                                                    *)
FileIsRight ==
  ~failed =>
    /\ pc \in {"opened", "up", "deleting", "deleted"} => LoadCurrent = current_
    /\ pc = "switching" => LoadCurrent = Other
    /\ pc = "saving" => current_file_ = Unreadable
    /\ pc = "down" =>
         \/ path_[LoadCurrent] # Absent
         \/ LoadCurrent = 0 /\ \A n \in Number : path_[n] = Absent

SwitchInv == TypeOK /\ ContainersThere /\ FileIsRight

-----------------------------------------------------------------------------
(* The names that stand for nothing are no contents. *)
LEMMA NamesDiffer ==
  /\ Absent \notin Content /\ Null \notin Content /\ "nothing" \notin Content
  /\ Absent # Null /\ Absent # "nothing" /\ Null # "nothing" /\ Empty \in Content
BY ContentsAssumption DEF Content, Absent, Null, Empty

LEMMA InitInv == Init => SwitchInv
<1> SUFFICES ASSUME Init PROVE SwitchInv OBVIOUS
<1> USE NamesDiffer DEF Init, Number
<1>1. TypeOK BY DEF TypeOK, Unreadable
<1>2. ContainersThere BY DEF ContainersThere, Other, OtherNumber, InEnsureSwitch
<1>3. FileIsRight BY DEF FileIsRight, LoadCurrent, Unreadable
<1> QED BY <1>1, <1>2, <1>3 DEF SwitchInv

LEMMA StepInv == SwitchInv /\ [Next]_vars => SwitchInv'
<1> SUFFICES ASSUME SwitchInv, [Next]_vars PROVE TypeOK' /\ ContainersThere' /\ FileIsRight'
  BY DEF SwitchInv
<1> USE NamesDiffer DEF Number, Unreadable
<1>t. TypeOK BY DEF SwitchInv
<1>s. ContainersThere BY DEF SwitchInv
<1>f. FileIsRight BY DEF SwitchInv
<1>1. CASE Open
  <2>1. TypeOK' BY <1>1, <1>t DEF Open, TypeOK, NumberToOpen, LoadCurrent, OtherNumber, ContentAt
  <2>2. ContainersThere'
    BY <1>1, <1>t, <1>s DEF Open, TypeOK, ContainersThere, NumberToOpen, LoadCurrent, OtherNumber,
      ContentAt, InEnsureSwitch
  <2>3. FileIsRight'
    BY <1>1, <1>t, <1>f DEF Open, TypeOK, FileIsRight, NumberToOpen, LoadCurrent, OtherNumber,
      ContentAt
  <2> QED BY <2>1, <2>2, <2>3
<1>2. CASE RemoveOther
  BY <1>2, <1>t, <1>s, <1>f DEF RemoveOther, memory, TypeOK, ContainersThere, FileIsRight, Other,
    OtherNumber, LoadCurrent, InEnsureSwitch
<1>3. CASE BeginNext
  <2>1. TypeOK' BY <1>3, <1>t DEF BeginNext, disk, TypeOK, Other, OtherNumber
  <2>2. ContainersThere'
    BY <1>3, <1>t, <1>s DEF BeginNext, disk, TypeOK, ContainersThere, Other, OtherNumber,
      InEnsureSwitch
  <2>3. FileIsRight'
    BY <1>3, <1>t, <1>f DEF BeginNext, disk, TypeOK, FileIsRight, Other, OtherNumber, LoadCurrent
  <2> QED BY <2>1, <2>2, <2>3
<1>4. CASE RemoveNext
  BY <1>4, <1>t, <1>s, <1>f DEF RemoveNext, memory, TypeOK, ContainersThere, FileIsRight, Other,
    OtherNumber, LoadCurrent, InEnsureSwitch
<1>5. CASE OpenNext
  BY <1>5, <1>t, <1>s, <1>f DEF OpenNext, TypeOK, ContainersThere, FileIsRight, Other,
    OtherNumber, LoadCurrent, InEnsureSwitch
<1>6. CASE FailNext
  BY <1>6, <1>t, <1>s, <1>f DEF FailNext, disk, memory, TypeOK, ContainersThere, FileIsRight, Other,
    OtherNumber, LoadCurrent, InEnsureSwitch
<1>7. CASE EnsureSwitch
  BY <1>7, <1>t, <1>s, <1>f DEF EnsureSwitch, disk, TypeOK, ContainersThere, FileIsRight, Other,
    OtherNumber, LoadCurrent, InEnsureSwitch
<1>8. CASE OpenCurrentFile
  BY <1>8, <1>t, <1>s, <1>f DEF OpenCurrentFile, memory, TypeOK, ContainersThere, FileIsRight,
    Other, OtherNumber, LoadCurrent, InEnsureSwitch
<1>9. CASE WriteCurrentFile
  <2>1. TypeOK'
    BY <1>9, <1>t DEF WriteCurrentFile, Switched, TypeOK, Other, OtherNumber
  <2>2. ContainersThere'
    BY <1>9, <1>t, <1>s DEF WriteCurrentFile, Switched, TypeOK, ContainersThere, Other, OtherNumber,
      InEnsureSwitch
  <2>3. FileIsRight'
    BY <1>9, <1>t, <1>f DEF WriteCurrentFile, Switched, TypeOK, FileIsRight, Other, OtherNumber,
      LoadCurrent
  <2> QED BY <2>1, <2>2, <2>3
<1>10. CASE FailToSave
  <2>1. TypeOK'
    BY <1>10, <1>t DEF FailToSave, Switched, TypeOK, Other, OtherNumber
  <2>2. ContainersThere'
    BY <1>10, <1>t, <1>s DEF FailToSave, Switched, TypeOK, ContainersThere, Other, OtherNumber,
      InEnsureSwitch
  <2>3. FileIsRight' BY <1>10 DEF FailToSave, FileIsRight
  <2> QED BY <2>1, <2>2, <2>3
<1>11. ASSUME NEW n \in Number, NEW c \in Contents, Write(n, c) PROVE TypeOK' /\ ContainersThere' /\ FileIsRight'
  <2>0. c \in Content BY DEF Content
  <2> QED
    BY <1>11, <2>0, <1>t, <1>s, <1>f DEF Write, disk, TypeOK, ContainersThere, FileIsRight, Other,
      OtherNumber, LoadCurrent, InEnsureSwitch
<1>12. ASSUME NEW n \in Number, Flush(n) PROVE TypeOK' /\ ContainersThere' /\ FileIsRight'
  BY <1>12, <1>t, <1>s, <1>f DEF Flush, memory, TypeOK, ContainersThere, FileIsRight, Other,
    OtherNumber, LoadCurrent, InEnsureSwitch
<1>13. CASE Stop
  <2>1. TypeOK' BY <1>13, <1>t DEF Stop, NoContainers, TypeOK, Other, OtherNumber
  <2>2. ContainersThere' BY <1>13 DEF Stop, ContainersThere, InEnsureSwitch
  <2>3. FileIsRight'
    BY <1>13, <1>t, <1>s, <1>f DEF Stop, TypeOK, ContainersThere, FileIsRight, Other, OtherNumber,
      LoadCurrent, InEnsureSwitch
  <2> QED BY <2>1, <2>2, <2>3
<1>14. CASE UNCHANGED vars
  BY <1>14, <1>t, <1>s, <1>f DEF vars, disk, memory, TypeOK, ContainersThere, FileIsRight, Other,
    OtherNumber, LoadCurrent, InEnsureSwitch
<1> QED
  BY <1>1, <1>2, <1>3, <1>4, <1>5, <1>6, <1>7, <1>8, <1>9, <1>10, <1>11, <1>12, <1>13, <1>14
  DEF Next

LEMMA Invariance == Spec => []SwitchInv
BY InitInv, StepInv, PTL DEF Spec

-----------------------------------------------------------------------------
(* Every variable has its type. *)
THEOREM SwitchType == Spec => []TypeOK
BY Invariance, PTL DEF SwitchInv

(* Current() and the pointer that Next returned last are containers with a *)
(* path, whatever failed or was stopped before.                            *)
THEOREM PointersAreContainers == Spec => []CurrentIsThere
<1>1. SwitchInv => CurrentIsThere
  BY DEF SwitchInv, TypeOK, ContainersThere, CurrentIsThere, AtHand, Other, OtherNumber, Number
<1> QED BY <1>1, Invariance, PTL

-----------------------------------------------------------------------------
(* The copies of the promise as long as no save failed. *)
Mapped ==
  /\ pc \in {"down", "opened", "up", "deleting", "deleted"} => ~Switching /\ NumberInUse = current_
  /\ pc = "switching" => Switching /\ NumberInUse = Other
  /\ pc = "saving" => LoadCurrent = 0 /\ NumberInUse = 0
  /\ pc # "down" => /\ NumberToOpen = NumberInUse
                    /\ CopyOf(NumberInUse) \in Promise!Copy
                    /\ Kept = path_[NumberInUse]
                    /\ InUse = CopyOf(NumberInUse)
  /\ intermediate_ => CopyOf(OtherNumber(NumberInUse)) \in Promise!Copy

LEMMA CopiesMapped == ASSUME SwitchInv, ~failed PROVE Mapped
<1> USE NamesDiffer DEF Number, Unreadable
<1>1. NumberInUse \in Number /\ OtherNumber(NumberInUse) \in Number
  BY DEF SwitchInv, TypeOK, NumberInUse, Other, OtherNumber
<1>2. /\ pc \in {"down", "opened", "up", "deleting", "deleted"} => ~Switching /\ NumberInUse = current_
      /\ pc = "switching" => Switching /\ NumberInUse = Other
      /\ pc = "saving" => LoadCurrent = 0 /\ NumberInUse = 0
  BY DEF SwitchInv, TypeOK, FileIsRight, Switching, NumberInUse, Other, OtherNumber, LoadCurrent
<1>3. pc # "down" => LoadCurrent = NumberInUse
  BY <1>2 DEF SwitchInv, TypeOK, FileIsRight, Other, OtherNumber
<1>4. pc # "down" => container_[NumberInUse] # Null /\ path_[NumberInUse] # Absent
  BY <1>1, <1>2 DEF SwitchInv, TypeOK, ContainersThere, InEnsureSwitch, NumberInUse, Switching, Other,
    OtherNumber
<1>5. intermediate_ => /\ container_[OtherNumber(NumberInUse)] # Null
                       /\ path_[OtherNumber(NumberInUse)] # Absent
  BY <1>1, <1>2 DEF SwitchInv, TypeOK, ContainersThere, InEnsureSwitch, NumberInUse, Switching, Other,
    OtherNumber
<1>6. Promise!Copy = [mem : Content, disk : Content]
  BY DEF Promise!Copy, Promise!Content, Promise!Empty, Content, Empty
<1>7. pc # "down" => CopyOf(NumberInUse) \in Promise!Copy
  BY <1>1, <1>4, <1>6 DEF CopyOf, SwitchInv, TypeOK
<1>8. intermediate_ => CopyOf(OtherNumber(NumberInUse)) \in Promise!Copy
  BY <1>1, <1>5, <1>6 DEF CopyOf, SwitchInv, TypeOK
<1>9. pc # "down" => NumberToOpen = NumberInUse /\ Kept = path_[NumberInUse]
  BY <1>3, <1>4 DEF NumberToOpen, Kept, ContentAt
<1> QED BY <1>2, <1>7, <1>8, <1>9 DEF InUse, Mapped
(* Each step is a step of Switchover or changes none of its copies. *)
LEMMA StepImplements ==
  ASSUME SwitchInv, SwitchInv', Mapped, Mapped', [Next]_vars, ~failed, ~failed'
  PROVE  Promise!Next \/ UNCHANGED Promise!vars
<1> USE NamesDiffer DEF Number, Unreadable
<1> DEFINE Same == InUse' = InUse /\ NextCopy' = NextCopy /\ Kept' = Kept
<1>t. TypeOK /\ TypeOK' /\ ContainersThere /\ ContainersThere' /\ FileIsRight /\ FileIsRight'
  BY DEF SwitchInv
<1>m. /\ pc \in {"down", "opened", "up", "deleting", "deleted"} => ~Switching /\ NumberInUse = current_
      /\ pc = "switching" => Switching /\ NumberInUse = Other
      /\ pc = "saving" => LoadCurrent = 0 /\ NumberInUse = 0
      /\ pc # "down" => /\ NumberToOpen = NumberInUse
                        /\ CopyOf(NumberInUse) \in Promise!Copy
                        /\ Kept = path_[NumberInUse]
                        /\ InUse = CopyOf(NumberInUse)
      /\ intermediate_ => CopyOf(OtherNumber(NumberInUse)) \in Promise!Copy
  BY DEF Mapped
<1>n. /\ pc' \in {"down", "opened", "up", "deleting", "deleted"} => ~Switching' /\ NumberInUse' = current_'
      /\ pc' = "switching" => Switching' /\ NumberInUse' = Other'
      /\ pc' = "saving" => LoadCurrent' = 0 /\ NumberInUse' = 0
      /\ pc' # "down" => /\ (NumberToOpen = NumberInUse)'
                         /\ (CopyOf(NumberInUse) \in Promise!Copy)'
                         /\ (Kept = path_[NumberInUse])'
                         /\ (InUse = CopyOf(NumberInUse))'
      /\ intermediate_' => (CopyOf(OtherNumber(NumberInUse)) \in Promise!Copy)'
  BY DEF Mapped
<1>c. \A r \in Promise!Copy : r # NoCopy /\ r # Promise!Nothing
  BY DEF Promise!Copy, Promise!Content, Promise!Empty, Promise!Nothing, Promise!Read, NoCopy, Content,
    Empty
<1>e. NoCopy = Promise!Nothing BY DEF NoCopy, Promise!Nothing, Promise!Read
<1>x. Same => UNCHANGED Promise!vars BY DEF Promise!vars
<1>1. CASE Open
  <2>1. /\ InUse = NoCopy /\ NextCopy = NoCopy /\ NextCopy' = NoCopy
    BY <1>1, <1>t, <1>m, <1>n DEF Open, InUse, NextCopy
  <2>2. current_' = NumberToOpen /\ NumberToOpen \in Number
    BY <1>1, <1>t DEF Open, TypeOK, NumberToOpen, LoadCurrent, OtherNumber
  <2>3. path_'[NumberToOpen] = Kept /\ container_'[NumberToOpen] = Kept
    BY <1>1, <1>t, <2>2 DEF Open, TypeOK, Kept
  <2>4. InUse' = Promise!Read(Kept) /\ Kept' = Kept
    BY <1>1, <1>n, <2>2, <2>3 DEF Open, CopyOf, Promise!Read
  <2> QED BY <1>e, <2>1, <2>4 DEF Promise!Open, Promise!Next
<1>2. CASE RemoveOther
  <2>1. Same
    <3>1. /\ NumberInUse = current_ /\ NumberInUse' = current_ /\ current_ \in Number
          /\ path_'[current_] = path_[current_] /\ container_' = container_
      BY <1>2, <1>t, <1>m, <1>n DEF RemoveOther, memory, TypeOK, Other, OtherNumber
    <3>2. InUse' = InUse /\ Kept' = Kept BY <1>2, <3>1, <1>m, <1>n DEF RemoveOther, CopyOf
    <3>3. NextCopy = NoCopy /\ NextCopy' = NoCopy
      BY <1>2, <1>t, <1>m, <1>n DEF RemoveOther, memory, ContainersThere, NextCopy
    <3> QED BY <3>2, <3>3
  <2> QED BY <2>1, <1>x
<1>3. CASE BeginNext
  <2>1. CASE intermediate_
    <3>1. NumberInUse' = NumberInUse
      BY <1>3, <2>1, <1>t, <1>m, <1>n DEF BeginNext, TypeOK, Other, OtherNumber
    <3>2. InUse' = InUse /\ Kept' = Kept
      BY <1>3, <2>1, <3>1, <1>m, <1>n DEF BeginNext, disk, CopyOf
    <3>3. NextCopy' = NextCopy
      BY <1>3, <2>1, <3>1, <1>m, <1>n DEF BeginNext, disk, CopyOf, NextCopy
    <3> QED BY <3>2, <3>3, <1>x
  <2>2. CASE ~intermediate_
    <3>1. Same
      BY <1>3, <2>2, <1>t, <1>m, <1>n DEF BeginNext, disk, TypeOK, NextCopy, CopyOf, Other, OtherNumber
    <3> QED BY <3>1, <1>x
  <2> QED BY <2>1, <2>2
<1>4. CASE RemoveNext
  <2>1. Same
    BY <1>4, <1>t, <1>m, <1>n DEF RemoveNext, memory, TypeOK, NextCopy, CopyOf, Other, OtherNumber
  <2> QED BY <2>1, <1>x
<1>5. CASE OpenNext
  <2>1. InUse' = InUse /\ Kept' = Kept
    BY <1>5, <1>t, <1>m, <1>n DEF OpenNext, TypeOK, CopyOf, Other, OtherNumber
  <2>2. NextCopy' = Promise!Read(Promise!Empty)
    BY <1>5, <1>t, <1>n DEF OpenNext, TypeOK, NextCopy, CopyOf, Other, OtherNumber, Promise!Read,
      Promise!Empty, Empty
  <2>3. InUse # Promise!Nothing BY <1>5, <1>m, <1>c DEF OpenNext
  <2> QED BY <2>1, <2>2, <2>3 DEF Promise!Prepare, Promise!Next
<1>6. CASE FailNext
  <2>1. Same
    BY <1>6, <1>t, <1>m, <1>n DEF FailNext, disk, memory, NextCopy, CopyOf, ContainersThere
  <2> QED BY <2>1, <1>x
<1>7. CASE EnsureSwitch
  <2>1. NumberInUse' = NumberInUse
    BY <1>7, <1>t, <1>m, <1>n DEF EnsureSwitch, TypeOK, Other, OtherNumber
  <2>2. InUse' = InUse /\ Kept' = Kept
    BY <1>7, <2>1, <1>m, <1>n DEF EnsureSwitch, disk, CopyOf
  <2>3. NextCopy' = NextCopy
    BY <1>7, <2>1, <1>m, <1>n DEF EnsureSwitch, disk, CopyOf, NextCopy
  <2> QED BY <2>2, <2>3, <1>x
<1>8. CASE OpenCurrentFile
  <2>1. NextCopy = CopyOf(OtherNumber(NumberInUse))
    BY <1>8, <1>m DEF OpenCurrentFile, NextCopy
  <2>2. CASE NumberInUse = 0
    <3>1. Switching' /\ NumberInUse' = 0
      BY <1>8, <2>2, <1>t, <1>m, <1>n DEF OpenCurrentFile, memory, TypeOK, Switching, Other, OtherNumber
    <3>2. Same
      BY <1>8, <2>1, <2>2, <3>1, <1>m, <1>n DEF OpenCurrentFile, memory, CopyOf, NextCopy, OtherNumber
    <3> QED BY <3>2, <1>x
  <2>3. CASE NumberInUse = 1
    <3>1. ~Switching' /\ NumberInUse' = 0
      BY <1>8, <2>3, <1>t, <1>m, <1>n DEF OpenCurrentFile, memory, TypeOK, Switching, Other, OtherNumber
    <3>2. InUse' = NextCopy /\ NextCopy' = NoCopy /\ Kept' = NextCopy.disk
      BY <1>8, <2>1, <2>3, <3>1, <1>n DEF OpenCurrentFile, memory, CopyOf, NextCopy, OtherNumber
    <3>3. InUse # Promise!Nothing /\ NextCopy # Promise!Nothing
      BY <1>8, <2>1, <1>t, <1>m, <1>c DEF OpenCurrentFile, ContainersThere, InEnsureSwitch
    <3> QED BY <3>2, <3>3, <1>e DEF Promise!Switch, Promise!Next
  <2> QED BY <1>8, <2>2, <2>3, <1>t, <1>m DEF OpenCurrentFile, TypeOK, Other, OtherNumber
<1>9. CASE WriteCurrentFile
  <2>1. /\ NumberInUse = 0 /\ NumberInUse' = current_ /\ NextCopy' = NoCopy
        /\ path_' = path_ /\ container_'[current_] = container_[current_]
    BY <1>9, <1>t, <1>m, <1>n DEF WriteCurrentFile, Switched, TypeOK, NextCopy, Other, OtherNumber
  <2>2. InUse' = CopyOf(current_) /\ Kept' = path_[current_]
    BY <1>9, <2>1, <1>n DEF WriteCurrentFile, Switched, CopyOf
  <2>3. CASE current_ = 0
    <3>1. NextCopy = NoCopy BY <1>9, <2>3, <1>m DEF WriteCurrentFile, NextCopy, Switching
    <3> QED BY <1>9, <2>1, <2>2, <2>3, <3>1, <1>m, <1>x DEF WriteCurrentFile
  <2>4. CASE current_ = 1
    <3>1. NextCopy = CopyOf(current_)
      BY <1>9, <2>1, <2>4, <1>m DEF WriteCurrentFile, NextCopy, Switching, OtherNumber
    <3>2. InUse # Promise!Nothing /\ NextCopy # Promise!Nothing
      BY <1>9, <2>1, <2>4, <3>1, <1>t, <1>m, <1>c DEF WriteCurrentFile, ContainersThere, InEnsureSwitch,
        OtherNumber
    <3>3. Kept' = NextCopy.disk BY <2>2, <3>1 DEF CopyOf
    <3> QED BY <2>1, <2>2, <3>1, <3>2, <3>3, <1>e DEF Promise!Switch, Promise!Next
  <2> QED BY <2>3, <2>4, <1>t DEF TypeOK
<1>10. ~FailToSave BY DEF FailToSave
<1>11. ASSUME NEW n \in Number,
              pc = "up", pc' = "up", n \in AtHand, current_' = current_, intermediate_' = intermediate_,
              \A m \in Number : m # n => path_'[m] = path_[m] /\ container_'[m] = container_[m]
       PROVE  Promise!Next
  <2>1. NumberInUse = current_ /\ NumberInUse' = current_ /\ current_ \in Number
    BY <1>11, <1>t, <1>m, <1>n DEF TypeOK
  <2>2. InUse \in Promise!Copy /\ InUse' \in Promise!Copy /\ Kept' = (InUse').disk
    BY <1>11, <2>1, <1>m, <1>n DEF CopyOf
  <2>3. CASE n = current_
    <3>1. NextCopy' = NextCopy
      BY <1>11, <2>1, <2>3, <1>m, <1>n DEF NextCopy, CopyOf, OtherNumber
    <3> QED BY <2>2, <3>1, <1>c DEF Promise!WriteInUse, Promise!Next
  <2>4. CASE n # current_
    <3>1. intermediate_ /\ n = OtherNumber(current_)
      BY <1>11, <2>4 DEF AtHand, Other
    <3>2. NextCopy \in Promise!Copy /\ NextCopy' \in Promise!Copy
      BY <1>11, <3>1, <2>1, <1>m, <1>n DEF NextCopy
    <3>3. InUse' = InUse /\ Kept' = Kept
      BY <1>11, <2>1, <2>4, <1>m, <1>n DEF CopyOf
    <3> QED BY <3>2, <3>3, <1>c DEF Promise!WriteNext, Promise!Next
  <2> QED BY <2>3, <2>4
<1>12. ASSUME NEW n \in Number, NEW c \in Contents, Write(n, c) PROVE Promise!Next
  BY <1>11, <1>12, <1>t DEF Write, disk, TypeOK
<1>13. ASSUME NEW n \in Number, Flush(n) PROVE Promise!Next
  BY <1>11, <1>13, <1>t DEF Flush, memory, TypeOK
<1>14. CASE Stop
  <2>1. InUse' = NoCopy /\ NextCopy' = NoCopy
    BY <1>14, <1>n DEF Stop, InUse, NextCopy
  <2>2. /\ NumberInUse \in Number /\ path_'[NumberInUse] = path_[NumberInUse]
        /\ path_[NumberInUse] # Absent /\ LoadCurrent' = NumberInUse
    BY <1>14, <1>t, <1>m DEF Stop, TypeOK, ContainersThere, FileIsRight, InEnsureSwitch, LoadCurrent,
      Other,
      OtherNumber
  <2>3. Kept' = Kept
    BY <1>14, <2>2, <1>m DEF Stop, Kept, NumberToOpen, ContentAt
  <2> QED BY <2>1, <2>3, <1>e DEF Promise!Stop, Promise!Next
<1>15. CASE UNCHANGED vars
  <2>1. Same
    BY <1>15 DEF vars, disk, memory, InUse, NextCopy, Kept, CopyOf, NumberInUse, Switching, LoadCurrent,
      Other, OtherNumber, NumberToOpen, ContentAt
  <2> QED BY <2>1, <1>x
<1> QED
  BY <1>1, <1>2, <1>3, <1>4, <1>5, <1>6, <1>7, <1>8, <1>9, <1>10, <1>12, <1>13, <1>14, <1>15 DEF Next

(* Up to the first failed save, containers switch over as promised. *)
THEOREM ContainersImplementSwitchover == Spec => ContainersSwitchOver
<1>1. Init => Promise!Init
  BY DEF Init, Promise!Init, InUse, NextCopy, Kept, ContentAt, NumberToOpen, LoadCurrent, Switching,
    OtherNumber, Number, NoCopy, Promise!Nothing, Promise!Read, Promise!Empty, Empty, Unreadable
<1>2. SwitchInv => (~failed => Mapped) BY CopiesMapped
<1>3. /\ SwitchInv /\ SwitchInv' /\ [Next]_vars
      /\ (~failed => Mapped) /\ (~failed => Mapped)'
      => [failed' \/ Promise!Next]_(Promise!vars)
  <2>1. [Next]_vars /\ failed => failed'
    BY DEF Next, vars, Open, RemoveOther, BeginNext, RemoveNext, OpenNext, FailNext, EnsureSwitch,
      OpenCurrentFile, WriteCurrentFile, FailToSave, Write, Flush, Stop
  <2> QED BY <2>1, StepImplements
<1> QED BY <1>1, <1>2, <1>3, Invariance, PTL DEF Spec, ContainersSwitchOver

-----------------------------------------------------------------------------
(* Directories.                                                            *)

(* As long as every file DONE was written, the newest one is that of the   *)
(* directory in use.                                                       *)
NewestIsInUse ==
  /\ state = "down" => ~filling
  /\ ~broken /\ state # "down" => Dir!Newest = Dir!ChoiceInUse

DirInv == Dir!TypeOK /\ NewestIsInUse

LEMMA DirInitInv == Dir!Init => DirInv
<1> SUFFICES ASSUME Dir!Init PROVE Dir!TypeOK /\ NewestIsInUse BY DEF DirInv
<1>1. Dir!TypeOK
  <2>1. dirs_ \in [Dir!Choice -> Dir!Content \cup {Dir!Absent}] BY DEF Dir!Init
  <2>2. done \in [Dir!Choice -> Nat] BY DEF Dir!Init
  <2> QED BY <2>1, <2>2 DEF Dir!Init, Dir!TypeOK, Dir!Choice
<1>2. NewestIsInUse BY DEF Dir!Init, NewestIsInUse
<1> QED BY <1>1, <1>2

LEMMA DirStepInv == DirInv /\ [Dir!Next]_(Dir!vars) => DirInv'
<1> SUFFICES ASSUME DirInv, [Dir!Next]_(Dir!vars) PROVE Dir!TypeOK' /\ NewestIsInUse' BY DEF DirInv
<1> USE DEF Dir!Choice
<1>t. Dir!TypeOK /\ NewestIsInUse BY DEF DirInv
<1>1. CASE Dir!Open
  BY <1>1, <1>t DEF Dir!Open, Dir!TypeOK, NewestIsInUse, Dir!Newest, Dir!ChoiceInUse
<1>2. CASE Dir!GetNextWithDelete
  <2>1. Dir!TypeOK'
    <3>1. Dir!GetNext \in Dir!Choice BY <1>t DEF Dir!TypeOK, Dir!GetNext
    <3>2. dirs_' \in [Dir!Choice -> Dir!Content \cup {Dir!Absent}] BY <1>2, <1>t,
      <3>1 DEF Dir!GetNextWithDelete, Dir!TypeOK, Dir!Content
    <3>3. done' \in [Dir!Choice -> Nat] BY <1>2, <1>t, <3>1 DEF Dir!GetNextWithDelete, Dir!TypeOK
    <3> QED BY <1>2, <1>t, <3>2, <3>3 DEF Dir!GetNextWithDelete, Dir!TypeOK
  <2>2. NewestIsInUse'
    BY <1>2, <1>t DEF Dir!GetNextWithDelete, Dir!TypeOK, NewestIsInUse, Dir!Newest, Dir!ChoiceInUse,
      Dir!GetNext
  <2> QED BY <2>1, <2>2
<1>3. CASE Dir!SetNextValid
  <2>1. Dir!GetNext \in Dir!Choice BY <1>t DEF Dir!TypeOK, Dir!GetNext
  <2>2. done' \in [Dir!Choice -> Nat] BY <1>3, <1>t, <2>1 DEF Dir!SetNextValid, Dir!TypeOK
  <2>3. Dir!TypeOK' BY <1>3, <1>t, <2>2 DEF Dir!SetNextValid, Dir!TypeOK
  <2>4. CASE choice_ = 0
    <3>1. Dir!GetNext = 1 /\ Dir!GetNext' = 1 BY <1>3, <2>4 DEF Dir!SetNextValid, Dir!GetNext
    <3>2. done'[1] = now /\ done'[0] = done[0] /\ now > done[0] /\ now \in Nat /\ done[0] \in Nat
      BY <1>3, <1>t, <2>4, <3>1 DEF Dir!SetNextValid, Dir!TypeOK
    <3> QED BY <1>3, <1>t, <2>3, <2>4, <3>1, <3>2 DEF Dir!SetNextValid, Dir!TypeOK, NewestIsInUse,
      Dir!Newest, Dir!ChoiceInUse
  <2>5. CASE choice_ = 1
    <3>1. Dir!GetNext = 0 /\ Dir!GetNext' = 0 BY <1>3, <2>5 DEF Dir!SetNextValid, Dir!GetNext
    <3>2. done'[0] = now /\ done'[1] = done[1] /\ now > done[1] /\ now \in Nat /\ done[1] \in Nat
      BY <1>3, <1>t, <2>5, <3>1 DEF Dir!SetNextValid, Dir!TypeOK
    <3> QED BY <1>3, <1>t, <2>3, <2>5, <3>1, <3>2 DEF Dir!SetNextValid, Dir!TypeOK, NewestIsInUse,
      Dir!Newest, Dir!ChoiceInUse
  <2> QED BY <1>t, <2>4, <2>5 DEF Dir!TypeOK
<1>4. CASE Dir!Choose
  <2>1. Dir!TypeOK'
    <3>1. choice_' \in Dir!Choice BY <1>4, <1>t DEF Dir!Choose, Dir!TypeOK, Dir!GetNext
    <3> HIDE DEF Dir!Choice
    <3> QED BY <1>4, <1>t, <3>1 DEF Dir!Choose, Dir!TypeOK
  <2>2. Dir!Newest' = Dir!Newest /\ Dir!ChoiceInUse' = Dir!ChoiceInUse
    BY <1>4 DEF Dir!Choose, Dir!Newest, Dir!ChoiceInUse, Dir!GetNext
  <2>3. NewestIsInUse' BY <1>4, <1>t, <2>2 DEF Dir!Choose, NewestIsInUse
  <2> QED BY <2>1, <2>3
<1>5. CASE Dir!Stop
  BY <1>5, <1>t DEF Dir!Stop, Dir!TypeOK, NewestIsInUse
<1>6. CASE Dir!Tick
  BY <1>6, <1>t DEF Dir!Tick, Dir!TypeOK, NewestIsInUse, Dir!Newest, Dir!ChoiceInUse, Dir!GetNext
<1>7. ASSUME NEW dir \in Dir!Choice, NEW c \in Contents, Dir!Write(dir, c) PROVE Dir!TypeOK' /\ NewestIsInUse'
  BY <1>7, <1>t DEF Dir!Write, Dir!TypeOK, NewestIsInUse, Dir!Newest, Dir!ChoiceInUse, Dir!GetNext,
    Dir!Content
<1>8. CASE UNCHANGED Dir!vars
  BY <1>8, <1>t DEF Dir!vars, Dir!TypeOK, NewestIsInUse, Dir!Newest, Dir!ChoiceInUse, Dir!GetNext
<1> QED BY <1>1, <1>2, <1>3, <1>4, <1>5, <1>6, <1>7, <1>8 DEF Dir!Next

LEMMA DirInvariance == Dir!Spec => []DirInv
BY DirInitInv, DirStepInv, PTL DEF Dir!Spec

-----------------------------------------------------------------------------
LEMMA CopiesAreCopies ==
  ASSUME "nothing" \notin Contents, Dir!TypeOK, NEW dir \in Dir!Choice
  PROVE  /\ Dir!CopyOf(dir) \in Dir!Promise!Copy /\ Dir!CopyOf(dir) # Dir!Promise!Nothing
         /\ Dir!CopyOf(dir) = Dir!Promise!Read(Dir!ContentOf(dir))
<1>1. Dir!ContentOf(dir) \in Dir!Content /\ "nothing" \notin Dir!Content
  BY DEF Dir!TypeOK, Dir!ContentOf, Dir!Content, Dir!Empty, Dir!Absent
<1> QED
  BY <1>1 DEF Dir!CopyOf, Dir!Promise!Copy, Dir!Promise!Content, Dir!Promise!Empty,
    Dir!Promise!Nothing, Dir!Promise!Read, Dir!Content,
    Dir!Empty

(* Each step is a step of Switchover or changes none of its copies. *)
LEMMA DirStepImplements ==
  ASSUME "nothing" \notin Contents, DirInv, DirInv', [Dir!Next]_(Dir!vars), ~broken, ~broken'
  PROVE  Dir!Promise!Next \/ UNCHANGED Dir!Promise!vars
<1> USE DEF Dir!Choice
<1> DEFINE Same == Dir!InUse' = Dir!InUse /\ Dir!NextCopy' = Dir!NextCopy /\ Dir!Kept' = Dir!Kept
<1>t. Dir!TypeOK /\ NewestIsInUse /\ Dir!TypeOK' /\ NewestIsInUse' BY DEF DirInv
<1>e. Dir!NoCopy = Dir!Promise!Nothing BY DEF Dir!NoCopy, Dir!Promise!Nothing, Dir!Promise!Read
<1>x. Same => UNCHANGED Dir!Promise!vars BY DEF Dir!Promise!vars
<1>c. \A dir \in Dir!Choice : /\ Dir!CopyOf(dir) \in Dir!Promise!Copy /\ Dir!CopyOf(dir) # Dir!Promise!Nothing
                          /\ Dir!CopyOf(dir) = Dir!Promise!Read(Dir!ContentOf(dir))
  BY <1>t, CopiesAreCopies
<1>d. Dir!TypeOK' => \A dir \in Dir!Choice : Dir!CopyOf(dir)' \in Dir!Promise!Copy /\ Dir!CopyOf(dir)' # Dir!Promise!Nothing
  <2> SUFFICES ASSUME Dir!TypeOK', NEW dir \in Dir!Choice
               PROVE  Dir!CopyOf(dir)' \in Dir!Promise!Copy /\ Dir!CopyOf(dir)' # Dir!Promise!Nothing
    OBVIOUS
  <2>1. Dir!ContentOf(dir)' \in Dir!Content /\ "nothing" \notin Dir!Content
    BY DEF Dir!TypeOK, Dir!ContentOf, Dir!Content, Dir!Empty, Dir!Absent
  <2> QED
    BY <2>1 DEF Dir!CopyOf, Dir!Promise!Copy, Dir!Promise!Content, Dir!Promise!Empty,
      Dir!Promise!Nothing, Dir!Promise!Read,
      Dir!Content, Dir!Empty
<1>r. choice_ \in Dir!Choice /\ Dir!GetNext \in Dir!Choice /\ Dir!GetNext # choice_ /\ Dir!ChoiceInUse \in Dir!Choice
  BY <1>t DEF Dir!TypeOK, Dir!GetNext, Dir!ChoiceInUse
<1>1. CASE Dir!Open
  <2>1. Dir!InUse = Dir!NoCopy /\ Dir!NextCopy = Dir!NoCopy /\ Dir!NextCopy' = Dir!NoCopy
    BY <1>1, <1>t DEF Dir!Open, Dir!InUse, Dir!NextCopy, NewestIsInUse
  <2>2. Dir!Kept' = Dir!Kept /\ Dir!InUse' = Dir!CopyOf(Dir!Newest) /\ Dir!Newest \in Dir!Choice
    BY <1>1 DEF Dir!Open, Dir!InUse, Dir!Kept, Dir!ContentOf, Dir!CopyOf, Dir!ChoiceInUse, Dir!Newest
  <2>3. Dir!InUse' = Dir!Promise!Read(Dir!Kept) BY <2>2, <1>c DEF Dir!Kept
  <2> QED BY <2>1, <2>2, <2>3, <1>e DEF Dir!Promise!Open, Dir!Promise!Next
<1>2. CASE Dir!GetNextWithDelete
  <2>1. /\ Dir!InUse = Dir!CopyOf(choice_) /\ Dir!InUse' = Dir!CopyOf(choice_)
        /\ Dir!Kept = Dir!ContentOf(choice_) /\ Dir!Kept' = Dir!ContentOf(choice_)
    BY <1>2, <1>t, <1>r DEF Dir!GetNextWithDelete, Dir!InUse, Dir!Kept, Dir!ContentOf, Dir!CopyOf,
      Dir!ChoiceInUse, NewestIsInUse,
      Dir!TypeOK
  <2>2. CASE filling'
    <3>1. Dir!NextCopy' = Dir!Promise!Read(Dir!Promise!Empty)
      BY <1>2, <2>2, <1>t, <1>r DEF Dir!GetNextWithDelete, Dir!NextCopy, Dir!CopyOf, Dir!ContentOf,
        Dir!GetNext, Dir!TypeOK,
        Dir!Promise!Read, Dir!Promise!Empty, Dir!Empty
    <3> QED BY <2>1, <3>1, <1>c, <1>r DEF Dir!Promise!Prepare, Dir!Promise!Next
  <2>3. CASE ~filling'
    <3>1. Dir!NextCopy' = Dir!NoCopy BY <2>3 DEF Dir!NextCopy
    <3> QED BY <2>1, <3>1, <1>e DEF Dir!Promise!GiveUp, Dir!Promise!Next
  <2> QED BY <2>2, <2>3
<1>3. CASE Dir!SetNextValid
  <2>1. Dir!InUse = Dir!CopyOf(choice_) /\ Dir!NextCopy = Dir!CopyOf(Dir!GetNext)
    BY <1>3 DEF Dir!SetNextValid, Dir!InUse, Dir!NextCopy, Dir!ChoiceInUse
  <2>2. Dir!InUse' = Dir!CopyOf(Dir!GetNext) /\ Dir!NextCopy' = Dir!NoCopy /\ Dir!Kept' = Dir!ContentOf(Dir!GetNext)
    BY <1>3, <1>t DEF Dir!SetNextValid, Dir!InUse, Dir!NextCopy, Dir!Kept, Dir!ChoiceInUse, Dir!CopyOf,
      Dir!ContentOf, Dir!GetNext,
      NewestIsInUse
  <2> QED
    BY <2>1, <2>2, <1>c, <1>r, <1>e DEF Dir!Promise!Switch, Dir!Promise!Next, Dir!CopyOf
<1>4. CASE Dir!Choose
  <2>1. Dir!ChoiceInUse' = Dir!ChoiceInUse /\ Dir!Newest' = Dir!Newest
    BY <1>4 DEF Dir!Choose, Dir!ChoiceInUse, Dir!Newest, Dir!GetNext
  <2>2. Same
    BY <1>4, <2>1 DEF Dir!Choose, Dir!InUse, Dir!NextCopy, Dir!Kept, Dir!CopyOf, Dir!ContentOf
  <2> QED BY <2>2, <1>x
<1>5. CASE Dir!Stop
  <2>1. Dir!InUse' = Dir!NoCopy /\ Dir!NextCopy' = Dir!NoCopy /\ Dir!Kept' = Dir!Kept
    BY <1>5 DEF Dir!Stop, Dir!InUse, Dir!NextCopy, Dir!Kept, Dir!ContentOf, Dir!Newest
  <2> QED BY <2>1, <1>e DEF Dir!Promise!Stop, Dir!Promise!Next
<1>6. CASE Dir!Tick
  <2>1. Same
    BY <1>6 DEF Dir!Tick, Dir!InUse, Dir!NextCopy, Dir!Kept, Dir!CopyOf, Dir!ContentOf, Dir!Newest,
      Dir!ChoiceInUse, Dir!GetNext
  <2> QED BY <2>1, <1>x
<1>7. ASSUME NEW dir \in Dir!Choice, NEW c \in Contents, Dir!Write(dir, c) PROVE Dir!Promise!Next
  <2>1. /\ Dir!InUse = Dir!CopyOf(choice_) /\ Dir!InUse' = Dir!CopyOf(choice_)' /\ Dir!Kept = Dir!ContentOf(choice_)
        /\ Dir!Kept' = Dir!ContentOf(choice_)' /\ choice_' = choice_ /\ Dir!GetNext' = Dir!GetNext
    BY <1>7, <1>t DEF Dir!Write, Dir!InUse, Dir!Kept, Dir!ChoiceInUse, NewestIsInUse, Dir!CopyOf,
      Dir!ContentOf, Dir!GetNext
  <2>2. Dir!InUse \in Dir!Promise!Copy /\ Dir!InUse' \in Dir!Promise!Copy /\ Dir!InUse # Dir!Promise!Nothing
    BY <2>1, <1>c, <1>d, <1>t, <1>r
  <2>3. CASE dir = choice_
    <3>1. Dir!NextCopy' = Dir!NextCopy
      BY <1>7, <2>1, <2>3, <1>t, <1>r DEF Dir!Write, Dir!NextCopy, Dir!CopyOf, Dir!ContentOf, Dir!TypeOK
    <3>2. Dir!Kept' = (Dir!InUse').disk BY <2>1 DEF Dir!CopyOf
    <3> QED BY <2>2, <3>1, <3>2 DEF Dir!Promise!WriteInUse, Dir!Promise!Next
  <2>4. CASE dir # choice_
    <3>1. Dir!NextCopy = Dir!CopyOf(Dir!GetNext) /\ Dir!NextCopy' = Dir!CopyOf(Dir!GetNext)'
      BY <1>7, <2>1, <2>4 DEF Dir!Write, Dir!NextCopy
    <3>2. Dir!NextCopy # Dir!Promise!Nothing /\ Dir!NextCopy' \in Dir!Promise!Copy
      BY <3>1, <2>1, <1>c, <1>d, <1>t, <1>r
    <3>3. Dir!InUse' = Dir!InUse /\ Dir!Kept' = Dir!Kept
      BY <1>7, <2>1, <2>4, <1>t DEF Dir!Write, Dir!CopyOf, Dir!ContentOf, Dir!TypeOK
    <3> QED BY <3>2, <3>3 DEF Dir!Promise!WriteNext, Dir!Promise!Next
  <2> QED BY <2>3, <2>4
<1>8. CASE UNCHANGED Dir!vars
  <2>1. Same
    BY <1>8 DEF Dir!vars, Dir!InUse, Dir!NextCopy, Dir!Kept, Dir!CopyOf, Dir!ContentOf, Dir!Newest,
      Dir!ChoiceInUse, Dir!GetNext
  <2> QED BY <2>1, <1>x
<1> QED BY <1>1, <1>2, <1>3, <1>4, <1>5, <1>6, <1>7, <1>8 DEF Dir!Next

-----------------------------------------------------------------------------
(* Up to the first file DONE that was made and not written, directories    *)
(* switch over as promised, if the clock shows a later second at every     *)
(* switch (the guard of SetNextValid).                                     *)
LEMMA DirSpecImplements ==
  ASSUME "nothing" \notin Contents
  PROVE  Dir!Spec => Dir!DirectoriesSwitchOver
<1>1. Dir!Init => Dir!Promise!Init
  BY DEF Dir!Init, Dir!Promise!Init, Dir!InUse, Dir!NextCopy, Dir!Kept, Dir!ContentOf, Dir!Newest,
    Dir!Choice, Dir!NoCopy, Dir!Promise!Nothing, Dir!Promise!Read, Dir!Promise!Empty, Dir!Empty
<1>2. DirInv /\ DirInv' /\ [Dir!Next]_(Dir!vars) => [broken' \/ Dir!Promise!Next]_(Dir!Promise!vars)
  <2>1. [Dir!Next]_(Dir!vars) /\ broken => broken'
    BY DEF Dir!Next, Dir!vars, Dir!Open, Dir!GetNextWithDelete, Dir!SetNextValid, Dir!Choose,
      Dir!Stop, Dir!Tick, Dir!Write
  <2> QED BY <2>1, DirStepImplements
<1> QED BY <1>1, <1>2, DirInvariance, PTL DEF Dir!Spec, Dir!DirectoriesSwitchOver

(* The composition is, for directories, the program of directories.        *)
LEMMA PartsRunDirectories == PartsSpec => Dir!Spec
<1>1. PartsInit => Dir!Init BY DEF PartsInit
<1>2. [PartsNext]_partsVars => [Dir!Next]_(Dir!vars)
  BY DEF PartsNext, partsVars, dirVars, Dir!vars
<1> QED BY <1>1, <1>2, PTL DEF PartsSpec, Dir!Spec

THEOREM DirectoriesImplementSwitchover ==
  PartsSpec => DirectoriesSwitchOver
<1>1. "nothing" \notin Contents BY ContentsAssumption
<1> QED BY <1>1, DirSpecImplements, PartsRunDirectories, PTL DEF DirectoriesSwitchOver

-----------------------------------------------------------------------------

(* Factors.  The store counts with the cardinality of the module it        *)
(* extends.                                                                *)
LEMMA StoreCounts == \A S : Store!Cardinality(S) = Cardinality(S)
BY DEF Store!Cardinality, Cardinality

StoreType ==
  /\ db_ \in [Store!Id -> Store!Vertex] /\ size_store_ \in (0 .. MaxSize) \cup {Store!Truncated}
  /\ mem_cache_ \in [Store!Id -> Store!Vertex] /\ mem_size \in 0 .. MaxSize
  /\ policy_ \subseteq Store!Cached
  /\ size_ \in 0 .. MaxSize /\ held \in Store!Id \cup {Store!Null}
  /\ store_pc \in {"down", "up", "saving", "closing", "saving_size", "closing_size"}
  /\ dumped \in Nat /\ known \in 0 .. MaxSize
  /\ trained \in [Store!Id -> Nat] /\ safe \in [Store!Id -> Nat]
  /\ crashed \in BOOLEAN /\ torn \in BOOLEAN

(* What the sizes have to do with one another.                             *)
SizesOK ==
  /\ mem_size <= known /\ size_ <= known /\ size_store_ <= known
  /\ mem_size # 0 => mem_size = known /\ size_ = known
  /\ store_pc \notin {"down", "up"} => size_ \in {0, known}

(* Which vertices there are, in the database and in memory.                *)
VerticesOK ==
  \A id \in Store!Id :
    /\ id < known => db_[id] >= 0
    /\ id >= known => db_[id] = Store!Null /\ trained[id] = 0 /\ safe[id] = 0
    /\ mem_cache_[id] # Store!Null => store_pc # "down" /\ id < size_

(* How far a save is.                                                      *)
DumpedOK ==
  /\ Store!Dumping => \A id \in Store!Id : id < dumped /\ id < known => db_[id] = Store!Value(id)
  /\ store_pc \in {"saving_size", "closing_size"} => \A id \in Store!Id : id < known => db_[id] = Store!Value(id)

KeptOK ==
  ~crashed =>
    /\ \A id \in Store!Id : id < known => Store!Value(id) = trained[id]
    /\ store_pc = "down" => size_store_ = known
    /\ store_pc # "down" => size_ = known

SavedOK ==
  /\ torn => crashed
  /\ ~torn =>
       /\ \A id \in Store!Id : id < known => db_[id] >= safe[id] /\ Store!Value(id) >= safe[id]
       /\ size_store_ # Store!Truncated => \A id \in Store!Id : safe[id] > 0 => id < size_store_
       /\ store_pc # "down" => \A id \in Store!Id : safe[id] > 0 => id < size_
       /\ size_store_ = Store!Truncated => store_pc \in {"saving_size", "closing_size"}

StoreInv == StoreType /\ SizesOK /\ VerticesOK /\ DumpedOK /\ KeptOK /\ SavedOK

-----------------------------------------------------------------------------
LEMMA InitHasInv ==
  ASSUME Store!Init
  PROVE  StoreInv
<1> USE FactorsAssumption DEF Store!Init, Store!Id, Store!Null, Store!Truncated, Store!Cached,
  Store!Value, Store!Vertex, Store!Dumping
<1>1. StoreType
  <2>1. db_ \in [Store!Id -> Store!Vertex] /\ mem_cache_ \in [Store!Id -> Store!Vertex]
    OBVIOUS
  <2>2. trained \in [Store!Id -> Nat] /\ safe \in [Store!Id -> Nat]
    OBVIOUS
  <2>3. policy_ \subseteq Store!Cached
    OBVIOUS
  <2>4. /\ size_store_ \in (0 .. MaxSize) \cup {Store!Truncated}
        /\ mem_size \in 0 .. MaxSize /\ size_ \in 0 .. MaxSize /\ known \in 0 .. MaxSize
        /\ held \in Store!Id \cup {Store!Null} /\ dumped \in Nat
    OBVIOUS
  <2>5. /\ store_pc \in {"down", "up", "saving", "closing", "saving_size", "closing_size"}
        /\ crashed \in BOOLEAN /\ torn \in BOOLEAN
    OBVIOUS
  <2> HIDE DEF Store!Init, Store!Vertex, Store!Null, Store!Truncated, Store!Cached, Store!Id
  <2> QED BY <2>1, <2>2, <2>3, <2>4, <2>5 DEF StoreType
<1>2. SizesOK
  BY DEF SizesOK
<1>3. VerticesOK
  BY DEF VerticesOK
<1>4. DumpedOK
  BY DEF DumpedOK
<1>5. KeptOK
  BY DEF KeptOK
<1>6. SavedOK
  BY DEF SavedOK
<1> QED BY <1>1, <1>2, <1>3, <1>4, <1>5, <1>6 DEF StoreInv

LEMMA OpenKeepsInv ==
  ASSUME StoreInv, Store!Open
  PROVE  StoreInv'
<1> USE FactorsAssumption DEF StoreInv, StoreType, SizesOK, VerticesOK, Store!Open, Store!EmptyCache,
  Store!disk, Store!history,
            Store!Id, Store!Null, Store!Truncated, Store!Cached, Store!Value, Store!Vertex, Store!Dumping
<1>1. StoreType'
  OBVIOUS
<1>2. SizesOK'
  OBVIOUS
<1>3. VerticesOK'
  OBVIOUS
<1>4. DumpedOK'
  BY DEF DumpedOK
<1>5. KeptOK'
  BY DEF KeptOK, SavedOK
<1>6. SavedOK'
  BY DEF SavedOK
<1> QED BY <1>1, <1>2, <1>3, <1>4, <1>5, <1>6

LEMMA InitSizeKeepsInv ==
  ASSUME StoreInv, NEW size \in 1 .. MaxSize, Store!InitSize(size)
  PROVE  StoreInv'
<1> USE FactorsAssumption DEF StoreInv, StoreType, SizesOK, VerticesOK, Store!InitSize, Store!history,
  Store!Larger,
            Store!Id, Store!Null, Store!Truncated, Store!Cached, Store!Value, Store!Vertex, Store!Dumping
<1>1. StoreType'
  OBVIOUS
<1>2. SizesOK'
  OBVIOUS
<1>3. VerticesOK'
  OBVIOUS
<1>4. DumpedOK'
  BY DEF DumpedOK
<1>5. KeptOK'
  BY DEF KeptOK, SavedOK
<1>6. SavedOK'
  BY DEF SavedOK
<1> QED BY <1>1, <1>2, <1>3, <1>4, <1>5, <1>6

(* What is evicted is written, so no vertex has another value.             *)
LEMMA AccessKeepsValues ==
  ASSUME StoreInv, NEW id \in Store!Id, Store!Access(id)
  PROVE  /\ db_' \in [Store!Id -> Store!Vertex] /\ mem_cache_' \in [Store!Id -> Store!Vertex]
         /\ policy_' \subseteq Store!Cached'
         /\ \A i \in Store!Id : /\ Store!Value(i)' = Store!Value(i)
                                /\ db_'[i] # db_[i] => db_'[i] = Store!Value(i)
                                /\ mem_cache_'[i] # Store!Null => mem_cache_[i] # Store!Null \/ i = id
<1> USE FactorsAssumption DEF StoreInv, StoreType, Store!Id, Store!Null, Store!Cached, Store!Value,
  Store!Vertex
<1>1. id < known /\ db_[id] >= 0
  BY DEF Store!Access, SizesOK, VerticesOK
<1>2. CASE Store!Miss(id)
  <2>1. PICK evicted \in SUBSET policy_ :
          /\ Store!Evict([mem_cache_ EXCEPT ![id] = db_[id]], evicted)
          /\ policy_' = (policy_ \ evicted) \cup {id}
    BY <1>2 DEF Store!Miss, Store!Evictable
  <2>2. id \notin Store!Cached /\ id \notin evicted
    BY <1>2, <2>1 DEF Store!Miss
  <2> QED BY <1>1, <2>1, <2>2 DEF Store!Evict
<1>3. CASE Store!Hit(id)
  BY <1>3 DEF Store!Hit
<1> QED BY <1>2, <1>3 DEF Store!Access

LEMMA AccessKeepsInv ==
  ASSUME StoreInv, NEW id \in Store!Id, Store!Access(id)
  PROVE  StoreInv'
<1>1. /\ db_' \in [Store!Id -> Store!Vertex] /\ mem_cache_' \in [Store!Id -> Store!Vertex]
      /\ policy_' \subseteq Store!Cached'
  BY AccessKeepsValues
<1>2. \A i \in Store!Id : /\ Store!Value(i)' = Store!Value(i)
                          /\ db_'[i] # db_[i] => db_'[i] = Store!Value(i)
                          /\ mem_cache_'[i] # Store!Null => mem_cache_[i] # Store!Null \/ i = id
  BY AccessKeepsValues
<1>3. /\ store_pc = "up" /\ id < mem_size /\ size_' = size_ /\ mem_size = known /\ size_ = known
      /\ UNCHANGED <<size_store_, mem_size, store_pc, dumped, known, trained, safe, crashed, torn>>
      /\ held' = id
  BY FactorsAssumption DEF Store!Access, StoreInv, StoreType, SizesOK, Store!Id, Store!Larger,
    Store!history
<1>4. \A i \in Store!Id : i < known => Store!Value(i) >= 0
  BY DEF StoreInv, StoreType, VerticesOK, Store!Value, Store!Cached, Store!Vertex, Store!Null, Store!Id
<1>5. \A i \in Store!Id : i >= known => db_'[i] = Store!Null
  BY <1>2 DEF StoreInv, StoreType, VerticesOK, Store!Value, Store!Cached, Store!Vertex, Store!Null,
    Store!Id, SizesOK
<1>6. StoreType'
  BY <1>1, <1>3 DEF StoreInv, StoreType
<1>7. SizesOK'
  BY <1>3 DEF StoreInv, SizesOK
<1>8. VerticesOK'
  BY <1>2, <1>3, <1>4, <1>5 DEF StoreInv, VerticesOK
<1>9. DumpedOK'
  BY <1>3 DEF DumpedOK, Store!Dumping
<1>10. KeptOK'
  BY <1>2, <1>3 DEF StoreInv, KeptOK
<1>11. SavedOK'
  BY <1>2, <1>3 DEF StoreInv, SavedOK
<1> QED BY <1>6, <1>7, <1>8, <1>9, <1>10, <1>11 DEF StoreInv

LEMMA TrainKeepsInv ==
  ASSUME StoreInv, Store!Train
  PROVE  StoreInv'
<1> USE FactorsAssumption DEF StoreInv, StoreType, SizesOK, VerticesOK, Store!Train, Store!disk,
  Store!history,
            Store!Id, Store!Null, Store!Truncated, Store!Cached, Store!Value, Store!Vertex, Store!Dumping
<1>1. StoreType'
  <2>1. held \in Store!Id /\ mem_cache_[held] \in Nat
    OBVIOUS
  <2>2. mem_cache_' \in [Store!Id -> Store!Vertex] /\ trained' \in [Store!Id -> Nat]
    <3>1. mem_cache_[held] + 1 \in Store!Vertex /\ trained[held] + 1 \in Nat
      BY <2>1
    <3>2. mem_cache_' = [mem_cache_ EXCEPT ![held] = mem_cache_[held] + 1]
      OBVIOUS
    <3>3. trained' = [trained EXCEPT ![held] = trained[held] + 1]
      OBVIOUS
    <3>4. mem_cache_ \in [Store!Id -> Store!Vertex] /\ trained \in [Store!Id -> Nat]
      OBVIOUS
    <3> HIDE DEF StoreInv, Store!Train, Store!Vertex, Store!Id
    <3> QED BY <3>1, <3>2, <3>3, <3>4
  <2>3. \A id \in Store!Id : mem_cache_[id] # Store!Null => mem_cache_'[id] # Store!Null
    BY <2>1
  <2>4. policy_' \subseteq Store!Cached'
    BY <2>3
  <2> QED BY <2>2, <2>4
<1>2. SizesOK'
  OBVIOUS
<1>3. VerticesOK'
  OBVIOUS
<1>4. DumpedOK'
  BY DEF DumpedOK
<1>5. KeptOK'
  BY DEF KeptOK
<1>6. SavedOK'
  BY DEF SavedOK
<1> QED BY <1>1, <1>2, <1>3, <1>4, <1>5, <1>6

-----------------------------------------------------------------------------
LEMMA BeginDumpKeepsInv ==
  ASSUME StoreInv, NEW after \in {"saving", "closing"}, Store!BeginDump(after)
  PROVE  StoreInv'
<1> USE FactorsAssumption DEF StoreInv, StoreType, SizesOK, VerticesOK, Store!BeginDump, Store!disk,
  Store!cache, Store!history,
            Store!Id, Store!Null, Store!Truncated, Store!Cached, Store!Value, Store!Vertex, Store!Dumping
<1>1. StoreType'
  OBVIOUS
<1>2. SizesOK'
  OBVIOUS
<1>3. VerticesOK'
  OBVIOUS
<1>4. DumpedOK'
  BY DEF DumpedOK
<1>5. KeptOK'
  BY DEF KeptOK
<1>6. SavedOK'
  BY DEF SavedOK
<1> QED BY <1>1, <1>2, <1>3, <1>4, <1>5, <1>6

LEMMA DumpVertexKeepsInv ==
  ASSUME StoreInv, Store!DumpVertex
  PROVE  StoreInv'
<1> USE FactorsAssumption DEF StoreInv, StoreType, SizesOK, VerticesOK, Store!DumpVertex, Store!cache,
  Store!history,
            Store!Id, Store!Null, Store!Truncated, Store!Cached, Store!Value, Store!Vertex, Store!Dumping
<1>1. StoreType'
  BY SMTT(60)
<1>2. SizesOK'
  OBVIOUS
<1>3. VerticesOK'
  OBVIOUS
<1>4. DumpedOK'
  BY DEF DumpedOK
<1>5. KeptOK'
  BY DEF KeptOK
<1>6. SavedOK'
  BY DEF SavedOK
<1> QED BY <1>1, <1>2, <1>3, <1>4, <1>5, <1>6

LEMMA OpenSizeStoreKeepsInv ==
  ASSUME StoreInv, Store!OpenSizeStore
  PROVE  StoreInv'
<1> USE FactorsAssumption DEF StoreInv, StoreType, SizesOK, VerticesOK, Store!OpenSizeStore, Store!cache,
  Store!history,
            Store!Id, Store!Null, Store!Truncated, Store!Cached, Store!Value, Store!Vertex, Store!Dumping
<1>1. StoreType'
  OBVIOUS
<1>2. SizesOK'
  OBVIOUS
<1>3. VerticesOK'
  OBVIOUS
<1>4. DumpedOK'
  BY DEF DumpedOK
<1>5. KeptOK'
  BY DEF KeptOK
<1>6. SavedOK'
  BY DEF SavedOK
<1> QED BY <1>1, <1>2, <1>3, <1>4, <1>5, <1>6

LEMMA WriteSizeStoreKeepsInv ==
  ASSUME StoreInv, Store!WriteSizeStore
  PROVE  StoreInv'
<1> USE FactorsAssumption DEF StoreInv, StoreType, SizesOK, VerticesOK, Store!WriteSizeStore,
  Store!EmptyCache, Store!cache,
            Store!Larger, Store!Id, Store!Null, Store!Truncated, Store!Cached, Store!Value, Store!Vertex, Store!Dumping
<1>1. StoreType'
  <2>1. \A id \in Store!Id : id < size_ => Store!Value(id) \in Nat
    OBVIOUS
  <2>2. safe' \in [Store!Id -> Nat]
    BY <2>1
  <2>3. CASE store_pc = "saving_size"
    BY <2>2, <2>3
  <2>4. CASE store_pc = "closing_size"
    <3>1. mem_cache_' \in [Store!Id -> Store!Vertex]
      BY <2>4
    <3>2. policy_' \subseteq Store!Cached'
      BY <2>4
    <3> QED BY <2>2, <2>4, <3>1, <3>2
  <2> QED BY <2>3, <2>4
<1>2. SizesOK'
  OBVIOUS
<1>3. VerticesOK'
  OBVIOUS
<1>4. DumpedOK'
  BY DEF DumpedOK
<1>5. KeptOK'
  BY DEF KeptOK, DumpedOK
<1>6. SavedOK'
  <2> SUFFICES ASSUME ~torn PROVE SavedOK'
    BY DEF SavedOK
  <2>0. /\ \A id \in Store!Id : id < known => db_[id] = Store!Value(id) /\ db_[id] \in Nat
        /\ \A id \in Store!Id : safe[id] > 0 => id < size_
        /\ \A id \in Store!Id : id < known => db_[id] >= safe[id]
    BY DEF DumpedOK, SavedOK
  <2>1. \A id \in Store!Id : id < known => Store!Value(id)' = db_[id] /\ db_'[id] = db_[id]
    <3>1. CASE store_pc = "saving_size"
      <4>1. mem_cache_' = mem_cache_ /\ db_' = db_
        BY <3>1
      <4>2. \A id \in Store!Id : Store!Value(id)' = Store!Value(id)
        BY ONLY <4>1 DEF Store!Value, Store!Cached, Store!Id, Store!Null
      <4> HIDE DEF Store!Value
      <4> QED BY <2>0, <4>1, <4>2
    <3>2. CASE store_pc = "closing_size"
      <4>1. \A id \in Store!Id : mem_cache_'[id] = -1
        BY <3>2
      <4> QED BY <2>0, <4>1
    <3> QED BY <3>1, <3>2
  <2>2. \A id \in Store!Id : id < known =>
          db_[id] >= safe'[id] /\ (safe'[id] > 0 => id < size_)
    BY <2>0
  <2>3. \A id \in Store!Id : safe'[id] > 0 => id < size_
    BY <2>0
  <2>4. size_store_' = size_ /\ size_store_' # Store!Truncated /\ size_ \in Nat
    OBVIOUS
  <2>5. /\ store_pc' # "down" => size_' = size_
        /\ torn' => crashed'
        /\ known' = known
    BY DEF SavedOK
  <2> HIDE DEF Store!Value
  <2> QED BY <2>1, <2>2, <2>3, <2>4, <2>5 DEF SavedOK
<1> QED BY <1>1, <1>2, <1>3, <1>4, <1>5, <1>6

LEMMA CrashKeepsInv ==
  ASSUME StoreInv, Store!Crash
  PROVE  StoreInv'
<1> USE FactorsAssumption DEF StoreInv, StoreType, SizesOK, VerticesOK, Store!Crash, Store!EmptyCache,
  Store!disk,
            Store!Id, Store!Null, Store!Truncated, Store!Cached, Store!Value, Store!Vertex, Store!Dumping
<1>1. StoreType'
  OBVIOUS
<1>2. SizesOK'
  OBVIOUS
<1>3. VerticesOK'
  OBVIOUS
<1>4. DumpedOK'
  BY DEF DumpedOK
<1>5. KeptOK'
  BY DEF KeptOK
<1>6. SavedOK'
  BY DEF SavedOK
<1> QED BY <1>1, <1>2, <1>3, <1>4, <1>5, <1>6

LEMMA StoreInvHolds == Store!Spec => []StoreInv
<1>1. Store!Init => StoreInv
  BY InitHasInv
<1>2. StoreInv /\ [Store!Next]_(Store!vars) => StoreInv'
  <2> SUFFICES ASSUME StoreInv, [Store!Next]_(Store!vars) PROVE StoreInv'
    OBVIOUS
  <2>1. CASE Store!Open
    BY <2>1, OpenKeepsInv
  <2>2. CASE Store!Crash
    BY <2>2, CrashKeepsInv
  <2>3. CASE \E size \in 1 .. MaxSize : Store!InitSize(size)
    BY <2>3, InitSizeKeepsInv
  <2>4. CASE \E id \in Store!Id : Store!Access(id)
    BY <2>4, AccessKeepsInv
  <2>5. CASE Store!Train
    BY <2>5, TrainKeepsInv
  <2>6. CASE \E after \in {"saving", "closing"} : Store!BeginDump(after)
    BY <2>6, BeginDumpKeepsInv
  <2>7. CASE Store!DumpVertex
    BY <2>7, DumpVertexKeepsInv
  <2>8. CASE Store!OpenSizeStore
    BY <2>8, OpenSizeStoreKeepsInv
  <2>9. CASE Store!WriteSizeStore
    BY <2>9, WriteSizeStoreKeepsInv
  <2>10. CASE UNCHANGED Store!vars
    BY <2>10 DEF Store!vars, Store!disk, Store!cache, Store!history, StoreInv, StoreType, SizesOK,
      VerticesOK, DumpedOK,
                 KeptOK, SavedOK, Store!Cached, Store!Value, Store!Dumping
  <2> QED BY <2>1, <2>2, <2>3, <2>4, <2>5, <2>6, <2>7, <2>8, <2>9, <2>10 DEF Store!Next
<1> QED BY <1>1, <1>2, PTL DEF Store!Spec

(* The composition runs the store, or lets it be.                          *)
LEMMA PartsRunStore == PartsSpec => Store!Spec
<1>1. PartsInit => Store!Init BY DEF PartsInit
<1>2. [PartsNext]_partsVars => [Store!Next]_(Store!vars)
  BY DEF PartsNext, partsVars, storeVars, Store!vars, Store!disk, Store!cache, Store!history
<1> QED BY <1>1, <1>2, PTL DEF PartsSpec, Store!Spec

-----------------------------------------------------------------------------
(* Without a crash every vertex is as often trained as its callers trained *)
(* it, however it was evicted, saved and loaded (operator[], Dump_, Load). *)
THEOREM NoTrainingIsLost == PartsSpec => []ValuesAreKept
<1>1. StoreInv => ValuesAreKept
  BY DEF StoreInv, KeptOK, ValuesAreKept, Store!ValuesAreKept
<1> QED BY <1>1, PartsRunStore, StoreInvHolds, PTL

(* A crash takes no vertex to before it was last saved, unless it hit the  *)
(* file of the size (Save, Dump_, SaveMaxID_).                             *)
THEOREM WhatWasSavedSurvives == PartsSpec => []SavedSurvives
<1>1. StoreInv => SavedSurvives
  BY DEF StoreInv, SavedOK, SavedSurvives, Store!SavedSurvives
<1> QED BY <1>1, PartsRunStore, StoreInvHolds, PTL

-----------------------------------------------------------------------------
(* The cache.  That it is bounded needs that the policy knows of all       *)
(* vertices in memory, or it might have nothing to give.                   *)
CacheInv ==
  /\ policy_ = Store!Cached
  /\ store_pc = "down" => held = Store!Null
  /\ Store!CacheIsSound

LEMMA CacheMissKeepsCache ==
  ASSUME StoreInv, CacheInv, NEW id \in Store!Id,
         Store!Access(id), Store!Miss(id)
  PROVE  CacheInv'
<1>1. id \notin Store!Cached /\ db_[id] # Store!Null
  BY FactorsAssumption DEF Store!Miss, Store!Access, StoreInv, StoreType, SizesOK, VerticesOK, Store!Id,
    Store!Null
<1>2. PICK evicted \in Store!Evictable(curr_cache_count_ + 1, policy_) :
        /\ Store!Evict([mem_cache_ EXCEPT ![id] = db_[id]], evicted)
        /\ curr_cache_count_' = curr_cache_count_ + 1 - Cardinality(evicted)
        /\ policy_' = (policy_ \ evicted) \cup {id}
  BY StoreCounts DEF Store!Miss
<1>3. evicted \subseteq Store!Cached /\ policy_ = Store!Cached
  BY <1>2 DEF Store!Evictable, CacheInv
<1>4. Store!Cached' = (Store!Cached \ evicted) \cup {id}
  BY <1>1, <1>2, <1>3 DEF Store!Evict, Store!Cached, StoreInv, StoreType
<1>5. /\ IsFiniteSet(Store!Cached) /\ IsFiniteSet(evicted) /\ IsFiniteSet(Store!Cached \ evicted)
      /\ Cardinality(Store!Cached) \in Nat /\ Cardinality(evicted) \in Nat
      /\ Cardinality(Store!Cached \ evicted) = Cardinality(Store!Cached) - Cardinality(evicted)
  <2>1. IsFiniteSet(Store!Id)
    BY FS_Interval, FactorsAssumption DEF Store!Id
  <2>2. IsFiniteSet(Store!Cached) /\ IsFiniteSet(evicted)
    BY <1>3, <2>1, FS_Subset DEF Store!Cached
  <2>3. Store!Cached \cap evicted = evicted
    BY <1>3
  <2> QED BY <2>2, <2>3, FS_Difference, FS_CardinalityType
<1>6. Cardinality(Store!Cached') = Cardinality(Store!Cached) - Cardinality(evicted) + 1
  <2>1. id \notin Store!Cached \ evicted
    BY <1>1
  <2> QED BY <1>4, <1>5, <2>1, FS_AddElement
<1>7. curr_cache_count_ = Cardinality(Store!Cached)
  BY StoreCounts DEF CacheInv, Store!CacheIsSound
<1>8. curr_cache_count_' = Cardinality(Store!Cached')
  BY <1>2, <1>5, <1>6, <1>7
<1>9. curr_cache_count_' <= Store!Larger(1, max_cache_count_ - 1)
  <2>1. evicted = policy_ \/ ~((curr_cache_count_ + 1) - Cardinality(evicted) >= max_cache_count_)
    BY <1>2, StoreCounts DEF Store!Evictable, Store!IsCacheFull
  <2>2. CASE evicted = Store!Cached
    <3>1. Cardinality(evicted) = Cardinality(Store!Cached)
      BY <2>2
    <3>2. curr_cache_count_' = 1
      BY <1>2, <1>5, <1>7, <3>1
    <3> QED BY <3>2, FactorsAssumption DEF Store!Larger
  <2>3. CASE ~((curr_cache_count_ + 1) - Cardinality(evicted) >= max_cache_count_)
    BY <1>2, <1>5, <1>7, <2>3, FactorsAssumption DEF Store!Larger
  <2> QED BY <1>3, <2>1, <2>2, <2>3
<1>10. held' = id /\ store_pc' = "up"
  BY DEF Store!Access
<1>11. policy_' = Store!Cached'
  BY <1>2, <1>3, <1>4
<1>12. held' \in Store!Cached'
  BY <1>4, <1>10
<1> QED BY <1>8, <1>9, <1>10, <1>11, <1>12, StoreCounts DEF CacheInv, Store!CacheIsSound

LEMMA CacheHitKeepsCache ==
  ASSUME StoreInv, CacheInv, NEW id \in Store!Id, Store!Access(id), Store!Hit(id)
  PROVE  CacheInv'
<1>1. Store!Cached' = Store!Cached /\ policy_' = Store!Cached
  BY DEF Store!Hit, Store!Cached, CacheInv
<1>2. curr_cache_count_' = curr_cache_count_ /\ held' = id /\ store_pc' = "up" /\ id \in Store!Cached
  BY DEF Store!Access, Store!Hit
<1> QED BY <1>1, <1>2 DEF CacheInv, Store!CacheIsSound

(* An empty cache is as it should be.                                      *)
LEMMA EmptyIsSound ==
  ASSUME Store!EmptyCache, held' = Store!Null
  PROVE  CacheInv'
<1>1. Store!Cached' = {}
  BY DEF Store!EmptyCache, Store!Cached
<1>2. Store!Cardinality({}) = 0
  BY FS_EmptySet, StoreCounts
<1> QED BY <1>1, <1>2, FactorsAssumption DEF Store!EmptyCache, CacheInv, Store!CacheIsSound, Store!Larger

(* Steps that leave the same vertices in memory.                           *)
LEMMA SameCacheKeepsCache ==
  ASSUME CacheInv, Store!Cached' = Store!Cached, UNCHANGED <<policy_, curr_cache_count_, held>>,
         store_pc' = "down" => store_pc = "down"
  PROVE  CacheInv'
BY DEF CacheInv, Store!CacheIsSound

(* The count of the cache is right and bounded, and the vertex whose       *)
(* reference was handed out last is in it (operator[], Evict_, Dump_).     *)
THEOREM CacheStaysSound == PartsSpec => []CacheIsSound
<1>1. Store!Init => CacheInv
  <2> SUFFICES ASSUME Store!Init PROVE CacheInv
    OBVIOUS
  <2>1. Store!Cached = {}
    BY DEF Store!Init, Store!Cached
  <2>2. Cardinality(Store!Cached) = 0
    BY <2>1, FS_EmptySet
  <2> QED BY <2>1, <2>2, StoreCounts, FactorsAssumption DEF Store!Init, CacheInv, Store!CacheIsSound, Store!Larger
<1>2. StoreInv /\ CacheInv /\ [Store!Next]_(Store!vars) => CacheInv'
  <2> SUFFICES ASSUME StoreInv, CacheInv, [Store!Next]_(Store!vars) PROVE CacheInv'
    OBVIOUS
  <2>1. CASE Store!Open
    <3>1. Store!EmptyCache /\ held' = Store!Null
      BY <2>1 DEF Store!Open, CacheInv
    <3> QED BY <3>1, EmptyIsSound
  <2>2. CASE Store!Crash
    BY <2>2, EmptyIsSound DEF Store!Crash
  <2>3. CASE \E size \in 1 .. MaxSize : Store!InitSize(size)
    BY <2>3, SameCacheKeepsCache DEF Store!InitSize, Store!Cached
  <2>4. CASE \E id \in Store!Id : Store!Access(id)
    <3>1. PICK id \in Store!Id : Store!Access(id)
      BY <2>4
    <3> QED BY <3>1, CacheMissKeepsCache, CacheHitKeepsCache DEF Store!Access
  <2>5. CASE Store!Train
    <3>1. Store!Cached' = Store!Cached
      BY <2>5 DEF Store!Train, Store!Cached, StoreInv, StoreType, Store!Vertex, Store!Null, Store!Id
    <3> QED BY <2>5, <3>1, SameCacheKeepsCache DEF Store!Train
  <2>6. CASE \E after \in {"saving", "closing"} : Store!BeginDump(after)
    BY <2>6, SameCacheKeepsCache DEF Store!BeginDump, Store!cache, Store!Cached
  <2>7. CASE Store!DumpVertex
    BY <2>7, SameCacheKeepsCache DEF Store!DumpVertex, Store!cache, Store!Cached
  <2>8. CASE Store!OpenSizeStore
    BY <2>8, SameCacheKeepsCache DEF Store!OpenSizeStore, Store!cache, Store!Cached, Store!Dumping
  <2>9. CASE Store!WriteSizeStore
    <3>1. CASE store_pc = "saving_size"
      BY <2>9, <3>1, SameCacheKeepsCache DEF Store!WriteSizeStore, Store!cache, Store!Cached
    <3>2. CASE store_pc = "closing_size"
      BY <2>9, <3>2, EmptyIsSound DEF Store!WriteSizeStore
    <3> QED BY <2>9, <3>1, <3>2 DEF Store!WriteSizeStore
  <2>10. CASE UNCHANGED Store!vars
    BY <2>10, SameCacheKeepsCache DEF Store!vars, Store!cache, Store!Cached
  <2> QED BY <2>1, <2>2, <2>3, <2>4, <2>5, <2>6, <2>7, <2>8, <2>9, <2>10 DEF Store!Next
<1>3. CacheInv => CacheIsSound
  BY DEF CacheInv, CacheIsSound
<1> QED BY <1>1, <1>2, <1>3, PartsRunStore, StoreInvHolds, PTL DEF Store!Spec

(* The days of bursts are days there are.                                  *)
LEMMA DaysAreInTime ==
  ASSUME NEW bursts \in Bursts
  PROVE  Tdt!DaysOf(bursts) \in Seq(Tdt!Days)
<1> DEFINE m == Len(bursts)
           V == Seq(Tdt!Days)
           burst(n) == [t \in 1 .. bursts[n].period |-> bursts[n].start_time + t - 1]
           step == [n \in 1 .. m |-> [v \in V |-> v \o burst(n)]]
           none == <<>>
           Is(it) == it = [n \in 0 .. m |-> IF n = 0 THEN none ELSE it[n - 1] \o burst(n)]
<1>1. m \in Nat /\ DOMAIN bursts = 1 .. m
  BY BurstsAssumption
<1>2. ASSUME NEW n \in 1 .. m PROVE burst(n) \in V
  <2>1. /\ bursts[n].start_time \in 1 .. MaxDay /\ bursts[n].period \in Nat
        /\ bursts[n].start_time + bursts[n].period - 1 <= MaxDay
    <3>1. bursts \in Seq([start_time : 1 .. MaxDay, period : Nat])
      BY BurstsAssumption
    <3>2. bursts[n] \in [start_time : 1 .. MaxDay, period : Nat]
      <4> DEFINE R == [start_time : 1 .. MaxDay, period : Nat]
      <4>1. \A b \in Seq(R) : \A i \in 1 .. Len(b) : b[i] \in R
        <5> HIDE DEF R
        <5> QED OBVIOUS
      <4> QED BY <1>1, <3>1, <4>1
    <3> QED BY <1>1, <3>2, BurstsAssumption
  <2>2. burst(n) \in [1 .. bursts[n].period -> Tdt!Days]
    <3> SUFFICES ASSUME NEW t \in 1 .. bursts[n].period
                 PROVE  bursts[n].start_time + t - 1 \in 1 .. MaxDay
      BY DEF Tdt!Days
    <3> DEFINE day == bursts[n].start_time
               days == bursts[n].period
    <3>1. day \in 1 .. MaxDay /\ days \in Nat /\ day + days - 1 <= MaxDay /\ t \in 1 .. days
      BY <2>1
    <3>2. MaxDay \in Nat
      BY BurstsAssumption
    <3> HIDE DEF day, days
    <3>3. day + t - 1 \in 1 .. MaxDay
      BY <3>1, <3>2
    <3> QED BY <3>3 DEF day
  <2>3. \A b \in Nat : \A v : v \in [1 .. b -> Tdt!Days] => v \in V
    OBVIOUS
  <2> HIDE DEF V, burst
  <2> QED BY <2>1, <2>2, <2>3
<1>3. none \in V /\ \A v, w \in V : v \o w \in V
  OBVIOUS
<1>4. \E it : Is(it)
  <2>1. step \in [1 .. m -> [V -> V]]
    <3> HIDE DEF V, burst, m
    <3> QED BY <1>2, <1>3
  <2>2. PICK it \in [0 .. m -> V] : IsRecursion(it, m, none, step)
    <3> HIDE DEF V, step, m, none
    <3> QED BY <1>1, <1>3, <2>1, RecursionExists
  <2>3. \A n \in 0 .. m : n # 0 => n \in 1 .. m /\ n - 1 \in 0 .. m
    BY <1>1
  <2>4. ASSUME NEW n \in 0 .. m, n # 0 PROVE step[n][it[n - 1]] = it[n - 1] \o burst(n)
    <3> HIDE DEF V, burst, m
    <3> QED BY <2>2, <2>3, <2>4
  <2>5. Is(it)
    <3> HIDE DEF V, burst, m, step
    <3> QED BY <2>2, <2>4 DEF IsRecursion
  <2> QED BY <2>5
<1>5. ASSUME NEW it, Is(it) PROVE it[m] \in V
  <2> DEFINE T == {n \in 0 .. m : it[n] \in V}
  <2>1. 0 \in T
    BY <1>1, <1>3, <1>5
  <2>2. ASSUME NEW n \in 1 .. m, n - 1 \in T PROVE n \in T
    <3>1. n \in 0 .. m /\ n # 0
      BY <1>1
    <3>2. it[n] = it[n - 1] \o burst(n)
      <4> HIDE DEF V, burst, m
      <4> QED BY <1>5, <3>1
    <3> HIDE DEF V, burst, m
    <3> QED BY <1>2, <1>3, <2>2, <3>1, <3>2
  <2>3. 0 .. m \subseteq T
    <3> HIDE DEF T, m
    <3> QED BY <1>1, <2>1, <2>2, UpToInduction
  <2> QED BY <1>1, <2>3
<1>6. PICK it : Is(it) /\ Tdt!DaysOf(bursts) = it[m]
  BY <1>4 DEF Tdt!DaysOf
<1> QED BY <1>5, <1>6

Has(days, d, topic) == \E n \in DOMAIN days[d] : days[d][n] = topic

(* The containers have what they should.                                   *)
StoresOK ==
  /\ DOMAIN topics_container_ \subseteq Topic
  /\ \A t \in DOMAIN topics_container_ : topics_container_[t] \in Bursts
  /\ time2topics_container_ \in [Tdt!Days -> Seq(Topic)]
  /\ \A d \in Tdt!Days : \A n \in DOMAIN time2topics_container_[d] :
       time2topics_container_[d][n] \in DOMAIN topics_container_

(* The topic being added is known, and no other is.                        *)
AddingOK ==
  /\ adding \subseteq DOMAIN topics_container_ /\ \A s, t \in adding : s = t
  /\ left \in Seq(Tdt!Days)
  /\ whole \subseteq DOMAIN topics_container_ \ adding

(* Where the topics are, and where the one being added is or will be.      *)
WholeOK ==
  \A t \in whole : \A n \in DOMAIN Tdt!DaysOf(topics_container_[t]) :
    Has(time2topics_container_, Tdt!DaysOf(topics_container_[t])[n], t)

PartlyOK ==
  \A t \in adding : \A n \in DOMAIN Tdt!DaysOf(topics_container_[t]) :
    \/ Has(time2topics_container_, Tdt!DaysOf(topics_container_[t])[n], t)
    \/ \E m \in DOMAIN left : left[m] = Tdt!DaysOf(topics_container_[t])[n]

TopicsInv == StoresOK /\ AddingOK /\ WholeOK /\ PartlyOK

-----------------------------------------------------------------------------
(* What is known of a topic is replaced, and of no other.                  *)
LEMMA AddKeepsInv ==
  ASSUME TopicsInv, NEW topic \in Topic, NEW bursts \in Bursts,
         Tdt!Add(topic, bursts)
  PROVE  TopicsInv'
<1>1. /\ DOMAIN topics_container_' = DOMAIN topics_container_ \cup {topic}
      /\ topics_container_'[topic] = bursts
      /\ \A t \in DOMAIN topics_container_ \ {topic} :
           topics_container_'[t] = topics_container_[t]
  BY DEF Tdt!Add
<1>2. /\ adding' = {topic} /\ left' = Tdt!DaysOf(bursts) /\ whole' = whole \ {topic}
      /\ time2topics_container_' = time2topics_container_
  BY DEF Tdt!Add
<1>3. StoresOK'
  BY <1>1, <1>2 DEF TopicsInv, StoresOK
<1>4. AddingOK'
  BY <1>1, <1>2, DaysAreInTime DEF TopicsInv, AddingOK
<1>5. WholeOK'
  <2> SUFFICES ASSUME NEW t \in whole',
                      NEW n \in DOMAIN Tdt!DaysOf(topics_container_'[t])
               PROVE  Has(time2topics_container_', Tdt!DaysOf(topics_container_'[t])[n], t)
    BY DEF WholeOK
  <2>1. t \in whole /\ topics_container_'[t] = topics_container_[t]
    BY <1>1, <1>2 DEF TopicsInv, AddingOK
  <2>2. Has(time2topics_container_, Tdt!DaysOf(topics_container_[t])[n], t)
    BY <2>1 DEF TopicsInv, WholeOK
  <2> QED BY <1>2, <2>1, <2>2
<1>6. PartlyOK'
  <2> SUFFICES ASSUME NEW t \in adding', NEW n \in DOMAIN Tdt!DaysOf(topics_container_'[t])
               PROVE  \E m \in DOMAIN left' : left'[m] = Tdt!DaysOf(topics_container_'[t])[n]
    BY DEF PartlyOK
  <2>1. left' = Tdt!DaysOf(topics_container_'[t])
    BY <1>1, <1>2
  <2> QED BY <2>1
<1> QED BY <1>3, <1>4, <1>5, <1>6 DEF TopicsInv

(* The next day has the topic in place of its being still to go.           *)
LEMMA AddTimeTopicKeepsInv ==
  ASSUME TopicsInv, Tdt!AddTimeTopic_
  PROVE  TopicsInv'
<1> DEFINE day == Head(left)
<1>1. PICK topic \in adding :
        time2topics_container_' = [time2topics_container_ EXCEPT ![day] = Append(@, topic)]
  BY DEF Tdt!AddTimeTopic_
<1>2. /\ left # <<>> /\ left' = Tail(left)
      /\ UNCHANGED <<topics_container_, adding, whole>>
  BY DEF Tdt!AddTimeTopic_
<1>3. day \in Tdt!Days /\ left' \in Seq(Tdt!Days)
  BY <1>2 DEF TopicsInv, AddingOK
<1>4. \A m \in DOMAIN left : left[m] = day \/ \E i \in DOMAIN left' : left'[i] = left[m]
  <2> SUFFICES ASSUME NEW m \in DOMAIN left, left[m] # day
               PROVE  \E i \in DOMAIN left' : left'[i] = left[m]
    OBVIOUS
  <2>1. left \in Seq(Tdt!Days)
    BY DEF TopicsInv, AddingOK
  <2>2. m \in 2 .. Len(left)
    BY <2>1, <1>2
  <2>3. m - 1 \in DOMAIN left' /\ left'[m - 1] = left[m]
    BY <2>1, <2>2, <1>2
  <2> QED BY <2>3
<1>5. /\ time2topics_container_' \in [Tdt!Days -> Seq(Topic)]
      /\ \A d \in Tdt!Days \ {day} : time2topics_container_'[d] = time2topics_container_[d]
      /\ time2topics_container_'[day] = Append(time2topics_container_[day], topic)
      /\ topic \in Topic
  BY <1>1, <1>3 DEF TopicsInv, StoresOK, AddingOK
<1>6. /\ DOMAIN time2topics_container_'[day] =
           DOMAIN time2topics_container_[day] \cup {Len(time2topics_container_[day]) + 1}
      /\ time2topics_container_'[day][Len(time2topics_container_[day]) + 1] = topic
      /\ \A n \in DOMAIN time2topics_container_[day] :
           time2topics_container_'[day][n] = time2topics_container_[day][n]
  <2>1. time2topics_container_[day] \in Seq(Topic)
    BY <1>3 DEF TopicsInv, StoresOK
  <2> QED BY <1>5, <2>1
<1>7. Has(time2topics_container_', day, topic)
  BY <1>6 DEF Has
<1>8. ASSUME NEW t, NEW d \in Tdt!Days, Has(time2topics_container_, d, t)
      PROVE  Has(time2topics_container_', d, t)
  <2>1. CASE d = day
    BY <1>6, <1>8, <2>1 DEF Has
  <2>2. CASE d # day
    BY <1>5, <1>8, <2>2 DEF Has
  <2> QED BY <2>1, <2>2
<1>9. StoresOK'
  <2>1. topic \in DOMAIN topics_container_
    BY DEF TopicsInv, AddingOK
  <2>2. \A d \in Tdt!Days : \A n \in DOMAIN time2topics_container_'[d] :
          time2topics_container_'[d][n] \in DOMAIN topics_container_
    BY <1>5, <1>6, <2>1 DEF TopicsInv, StoresOK
  <2> QED BY <1>2, <1>5, <2>2 DEF TopicsInv, StoresOK
<1>10. AddingOK'
  BY <1>2, <1>3 DEF TopicsInv, AddingOK
<1>11. \A t \in DOMAIN topics_container_ : \A n \in DOMAIN Tdt!DaysOf(topics_container_[t]) :
         Tdt!DaysOf(topics_container_[t])[n] \in Tdt!Days
  <2> SUFFICES ASSUME NEW t \in DOMAIN topics_container_
               PROVE  \A n \in DOMAIN Tdt!DaysOf(topics_container_[t]) :
                        Tdt!DaysOf(topics_container_[t])[n] \in Tdt!Days
    OBVIOUS
  <2>1. Tdt!DaysOf(topics_container_[t]) \in Seq(Tdt!Days)
    BY DaysAreInTime DEF TopicsInv, StoresOK
  <2> QED BY <2>1
<1>12. WholeOK'
  <2> SUFFICES ASSUME NEW t \in whole, NEW n \in DOMAIN Tdt!DaysOf(topics_container_[t])
               PROVE  Has(time2topics_container_', Tdt!DaysOf(topics_container_[t])[n], t)
    BY <1>2 DEF WholeOK
  <2>1. Has(time2topics_container_, Tdt!DaysOf(topics_container_[t])[n], t)
    BY DEF TopicsInv, WholeOK
  <2>2. Tdt!DaysOf(topics_container_[t])[n] \in Tdt!Days
    BY <1>11 DEF TopicsInv, AddingOK
  <2> QED BY <1>8, <2>1, <2>2
<1>13. PartlyOK'
  <2> SUFFICES ASSUME NEW t \in adding, NEW n \in DOMAIN Tdt!DaysOf(topics_container_[t])
               PROVE  \/ Has(time2topics_container_', Tdt!DaysOf(topics_container_[t])[n], t)
                      \/ \E m \in DOMAIN left' : left'[m] = Tdt!DaysOf(topics_container_[t])[n]
    BY <1>2 DEF PartlyOK
  <2> DEFINE d == Tdt!DaysOf(topics_container_[t])[n]
  <2>1. t = topic /\ d \in Tdt!Days
    BY <1>11 DEF TopicsInv, AddingOK
  <2>2. CASE Has(time2topics_container_, d, t)
    <3>1. Has(time2topics_container_', d, t)
      BY <1>8, <2>1, <2>2
    <3> QED BY <3>1
  <2>3. CASE \E m \in DOMAIN left : left[m] = d
    <3>1. PICK m \in DOMAIN left : left[m] = d
      BY <2>3
    <3>2. CASE left[m] = day
      BY <1>7, <2>1, <3>1, <3>2
    <3>3. CASE \E i \in DOMAIN left' : left'[i] = left[m]
      BY <3>1, <3>3
    <3> QED BY <1>4, <3>2, <3>3
  <2> QED BY <2>2, <2>3 DEF TopicsInv, PartlyOK
<1> QED BY <1>9, <1>10, <1>12, <1>13 DEF TopicsInv

(* All days have the topic when none is still to go.                       *)
LEMMA AddedKeepsInv ==
  ASSUME TopicsInv, Tdt!Added
  PROVE  TopicsInv'
<1>1. StoresOK'
  BY DEF TopicsInv, StoresOK, Tdt!Added
<1>2. AddingOK'
  BY DEF TopicsInv, AddingOK, Tdt!Added
<1>3. WholeOK'
  BY DEF TopicsInv, WholeOK, PartlyOK, Tdt!Added
<1>4. PartlyOK'
  BY DEF PartlyOK, Tdt!Added
<1> QED BY <1>1, <1>2, <1>3, <1>4 DEF TopicsInv

(* A topic whose addition was stopped is not whole.                        *)
LEMMA StopKeepsInv ==
  ASSUME TopicsInv, Tdt!Stop
  PROVE  TopicsInv'
<1>1. StoresOK'
  BY DEF TopicsInv, StoresOK, Tdt!Stop
<1>2. AddingOK'
  BY DEF TopicsInv, AddingOK, Tdt!Stop
<1>3. WholeOK'
  BY DEF TopicsInv, WholeOK, Tdt!Stop
<1>4. PartlyOK'
  BY DEF PartlyOK, Tdt!Stop
<1> QED BY <1>1, <1>2, <1>3, <1>4 DEF TopicsInv

LEMMA InvGivesRanges ==
  ASSUME TopicsInv
  PROVE  Tdt!RangesAgreeWithTopics
<1> SUFFICES ASSUME NEW start \in Tdt!Days, NEW end \in Tdt!Days
             PROVE  LET found == Tdt!GetTopicsInTimeRange(start, end)
                    IN  /\ \A topic \in whole :
                             (\E n \in DOMAIN Tdt!DaysOf(topics_container_[topic]) :
                                Tdt!DaysOf(topics_container_[topic])[n] \in start .. end - 1)
                                  => topic \in found
                        /\ found \subseteq DOMAIN topics_container_
  BY DEF Tdt!RangesAgreeWithTopics
<1>1. start .. end - 1 \subseteq Tdt!Days
  BY BurstsAssumption DEF Tdt!Days
<1>2. ASSUME NEW topic \in whole, NEW n \in DOMAIN Tdt!DaysOf(topics_container_[topic]),
             Tdt!DaysOf(topics_container_[topic])[n] \in start .. end - 1
      PROVE  topic \in Tdt!GetTopicsInTimeRange(start, end)
  <2>1. Has(time2topics_container_, Tdt!DaysOf(topics_container_[topic])[n], topic)
    BY DEF TopicsInv, WholeOK
  <2> QED BY <1>2, <2>1 DEF Has, Tdt!GetTopicsInTimeRange
<1>3. Tdt!GetTopicsInTimeRange(start, end) \subseteq DOMAIN topics_container_
  BY <1>1 DEF Tdt!GetTopicsInTimeRange, TopicsInv, StoresOK
<1> QED BY <1>2, <1>3

LEMMA PartsRunTopics == PartsSpec => Tdt!Spec
<1>1. PartsInit => Tdt!Init BY DEF PartsInit
<1>2. [PartsNext]_partsVars => [Tdt!Next]_(Tdt!vars)
  BY DEF PartsNext, partsVars, tdtVars, Tdt!vars
<1> QED BY <1>1, <1>2, PTL DEF PartsSpec, Tdt!Spec

(* A range of days has all topics whose last Add went through and that     *)
(* were in the news on one of them, and none that is unknown, over any     *)
(* additions and stops (Add, GetTopicsInTimeRange).                        *)
THEOREM RangesHaveTheirTopics == PartsSpec => []RangesAgreeWithTopics
<1>1. Tdt!Init => TopicsInv
  BY DEF Tdt!Init, TopicsInv, StoresOK, AddingOK, WholeOK, PartlyOK
<1>2. TopicsInv /\ [Tdt!Next]_(Tdt!vars) => TopicsInv'
  <2> SUFFICES ASSUME TopicsInv, [Tdt!Next]_(Tdt!vars) PROVE TopicsInv'
    OBVIOUS
  <2>1. CASE \E topic \in Topic, bursts \in Bursts : Tdt!Add(topic, bursts)
    BY <2>1, AddKeepsInv
  <2>2. CASE Tdt!AddTimeTopic_
    BY <2>2, AddTimeTopicKeepsInv
  <2>3. CASE Tdt!Added
    BY <2>3, AddedKeepsInv
  <2>4. CASE Tdt!Stop
    BY <2>4, StopKeepsInv
  <2>5. CASE UNCHANGED Tdt!vars
    BY <2>5 DEF Tdt!vars, TopicsInv, StoresOK, AddingOK, WholeOK, PartlyOK
  <2> QED BY <2>1, <2>2, <2>3, <2>4, <2>5 DEF Tdt!Next
<1>3. TopicsInv => RangesAgreeWithTopics
  BY InvGivesRanges DEF RangesAgreeWithTopics
<1> QED BY <1>1, <1>2, <1>3, PartsRunTopics, PTL DEF Tdt!Spec

-----------------------------------------------------------------------------
(* Words and blocks.                                                       *)
LEMMA Quotients ==
  ASSUME NEW a \in Nat, NEW b \in Nat \ {0}
  PROVE  /\ a \div b \in Nat /\ a % b \in Nat /\ a % b < b
         /\ a = b * (a \div b) + (a % b)
OBVIOUS

LEMMA WordsInOrder ==
  ASSUME NEW a \in Nat, NEW b \in Nat, NEW w \in Nat
  PROVE  /\ a < b => a * w + w <= b * w
         /\ a <= b => a * w <= b * w
<1>1. ASSUME a < b PROVE a * w + w <= b * w
  <2>1. PICK d \in Nat : b = a + 1 + d
    <3>1. b - a - 1 \in Nat /\ b = a + 1 + (b - a - 1)
      BY <1>1
    <3> QED BY <3>1
  <2>2. (a + 1 + d) * w = a * w + w + d * w
    OBVIOUS
  <2>3. d * w \in Nat /\ a * w \in Nat
    OBVIOUS
  <2> QED BY <2>1, <2>2, <2>3
<1>2. ASSUME a <= b PROVE a * w <= b * w
  <2>1. PICK d \in Nat : b = a + d
    <3>1. b - a \in Nat /\ b = a + (b - a)
      BY <1>2
    <3> QED BY <3>1
  <2>2. (a + d) * w = a * w + d * w
    OBVIOUS
  <2>3. d * w \in Nat /\ a * w \in Nat
    OBVIOUS
  <2> QED BY <2>1, <2>2, <2>3
<1> QED BY <1>1, <1>2

(* The mask of a block, made word by word, has the bits from its start to  *)
(* its end.                                                                *)
LEMMA MaskOfBlock ==
  ASSUME NEW start \in Nat, NEW finish \in Nat, start <= finish
  PROVE  Gen!MaskBlock(start, finish) = start .. (finish - 1)
<1> DEFINE W == WordSize
           sw == start \div W
           sb == start % W
           fw == finish \div W
           fb == finish % W
<1>1. /\ W \in Nat \ {0} /\ sw \in Nat /\ sb \in Nat /\ sb < W /\ fw \in Nat /\ fb \in Nat /\ fb < W
      /\ start = sw * W + sb /\ finish = fw * W + fb
  BY TablesAssumption, Quotients
<1>2. Gen!MaskBlock(start, finish) =
        IF sw = fw
        THEN {sw * W + b : b \in {b + sb : b \in 0 .. (finish - start - 1)} \cap (0 .. W - 1)}
        ELSE {sw * W + b : b \in {b \in 0 .. W - 1 : b >= sb}}
               \cup (UNION {{w * W + b : b \in 0 .. W - 1} : w \in (sw + 1) .. (fw - 1)})
               \cup {fw * W + b : b \in 0 .. (fb - 1)}
  BY DEF Gen!MaskBlock, Gen!InWord, Gen!ShiftLeft, Gen!LowBits, Gen!FromBit, Gen!WordBits
<1> HIDE DEF W, sw, sb, fw, fb
<1>3. CASE sw = fw
  <2> DEFINE B == {b + sb : b \in 0 .. (finish - start - 1)} \cap (0 .. W - 1)
  <2>1. sw * W \in Nat
    BY <1>1
  <2>2. B = sb .. (fb - 1)
    <3>1. ASSUME NEW x \in B PROVE x \in sb .. (fb - 1)
      BY <1>1, <1>3, <2>1
    <3>2. ASSUME NEW x \in sb .. (fb - 1) PROVE x \in B
      <4>1. x - sb \in 0 .. (finish - start - 1) /\ x \in 0 .. W - 1 /\ x = (x - sb) + sb
        BY <1>1, <1>3, <2>1
      <4> QED BY <4>1
    <3> QED BY <3>1, <3>2
  <2> HIDE DEF B
  <2>3. {sw * W + b : b \in B} = start .. (finish - 1)
    <3>1. ASSUME NEW b \in B PROVE sw * W + b \in start .. (finish - 1)
      BY <1>1, <1>3, <2>1, <2>2
    <3>2. ASSUME NEW x \in start .. (finish - 1) PROVE x \in {sw * W + b : b \in B}
      <4>1. x - sw * W \in B /\ x = sw * W + (x - sw * W)
        BY <1>1, <1>3, <2>1, <2>2
      <4> QED BY <4>1
    <3> QED BY <3>1, <3>2
  <2> QED BY <1>2, <1>3, <2>3 DEF B
<1>4. CASE sw # fw
  <2>1. sw < fw
    <3>1. fw < sw => fw * W + W <= sw * W
      BY <1>1, WordsInOrder
    <3>2. fw * W \in Nat /\ sw * W \in Nat
      BY <1>1
    <3> QED BY <1>1, <1>4, <3>1, <3>2
  <2>2. sw * W \in Nat /\ fw * W \in Nat /\ sw * W + W <= fw * W
    BY <1>1, <2>1, WordsInOrder
  <2> DEFINE A == {sw * W + b : b \in {b \in 0 .. W - 1 : b >= sb}}
             M == UNION {{w * W + b : b \in 0 .. W - 1} : w \in (sw + 1) .. (fw - 1)}
             C == {fw * W + b : b \in 0 .. (fb - 1)}
  <2>3. A \subseteq start .. (finish - 1)
    BY <1>1, <2>2
  <2>4. C \subseteq start .. (finish - 1)
    BY <1>1, <2>2
  <2>5. M \subseteq start .. (finish - 1)
    <3> SUFFICES ASSUME NEW w \in (sw + 1) .. (fw - 1), NEW b \in 0 .. W - 1
                 PROVE  w * W + b \in start .. (finish - 1)
      OBVIOUS
    <3>1. w \in Nat /\ sw < w /\ w < fw
      BY <1>1
    <3>2. sw * W + W <= w * W /\ w * W + W <= fw * W /\ w * W \in Nat
      BY <1>1, <3>1, WordsInOrder
    <3> QED BY <1>1, <2>2, <3>2
  <2>6. ASSUME NEW x \in start .. (finish - 1) PROVE x \in A \cup M \cup C
    <3> DEFINE w == x \div W
               b == x % W
    <3>1. w \in Nat /\ b \in 0 .. W - 1 /\ x = w * W + b /\ x \in Nat
      <4>1. x \in Nat
        OBVIOUS
      <4> QED BY <1>1, <4>1, Quotients
    <3> HIDE DEF w, b
    <3>2. sw <= w
      <4>1. w < sw => w * W + W <= sw * W
        BY <1>1, <3>1, WordsInOrder
      <4>2. w * W \in Nat
        BY <1>1, <3>1
      <4> QED BY <1>1, <2>2, <3>1, <4>1, <4>2
    <3>3. w <= fw
      <4>1. fw < w => fw * W + W <= w * W
        BY <1>1, <3>1, WordsInOrder
      <4>2. w * W \in Nat
        BY <1>1, <3>1
      <4> QED BY <1>1, <2>2, <3>1, <4>1, <4>2
    <3>4. CASE w = sw
      <4>1. b >= sb
        BY <1>1, <2>2, <3>1, <3>4
      <4> QED BY <3>1, <3>4, <4>1
    <3>5. CASE w = fw
      <4>1. b \in 0 .. (fb - 1)
        BY <1>1, <2>2, <3>1, <3>5
      <4> QED BY <3>1, <3>5, <4>1
    <3>6. CASE w # sw /\ w # fw
      <4>1. w \in (sw + 1) .. (fw - 1)
        BY <1>1, <3>1, <3>2, <3>3, <3>6
      <4> QED BY <3>1, <4>1
    <3> QED BY <3>4, <3>5, <3>6
  <2>7. A \cup M \cup C = start .. (finish - 1)
    <3> HIDE DEF A, M, C
    <3> QED BY <2>3, <2>4, <2>5, <2>6
  <2> QED BY <1>2, <1>4, <2>7
<1> QED BY <1>3, <1>4

(* Where the blocks begin.                                                 *)
Size(bits, n, i) == bits \div n + (IF i <= bits % n THEN 1 ELSE 0)
Start(bits, n, i) == i * (bits \div n) + (IF i <= bits % n THEN i ELSE bits % n)
BlockOf(bits, n, i) == Start(bits, n, i - 1) .. (Start(bits, n, i) - 1)

LEMMA Starts ==
  ASSUME NEW bits \in Nat \ {0}, NEW n \in 1 .. bits
  PROVE  /\ Start(bits, n, 0) = 0 /\ Start(bits, n, n) = bits
         /\ \A i \in 0 .. n : Start(bits, n, i) \in Nat
         /\ \A i \in 1 .. n : /\ Size(bits, n, i) \in Nat \ {0}
                              /\ Start(bits, n, i) = Start(bits, n, i - 1) + Size(bits, n, i)
         /\ \A i, j \in 0 .. n : i <= j => Start(bits, n, i) <= Start(bits, n, j)
<1> DEFINE q == bits \div n
           r == bits % n
<1>1. q \in Nat /\ r \in Nat /\ r < n /\ bits = n * q + r /\ n \in Nat \ {0}
  BY Quotients
<1>2. q # 0
  BY <1>1
<1>3. /\ \A i : Start(bits, n, i) = i * q + (IF i <= r THEN i ELSE r)
      /\ \A i : Size(bits, n, i) = q + (IF i <= r THEN 1 ELSE 0)
  BY DEF Start, Size
<1> HIDE DEF q, r
<1>4. Start(bits, n, 0) = 0 /\ Start(bits, n, n) = bits
  BY <1>1, <1>3
<1>5. ASSUME NEW i \in 0 .. n PROVE Start(bits, n, i) \in Nat
  <2>1. i * q \in Nat
    BY <1>1
  <2> QED BY <1>1, <1>3, <2>1
<1>6. ASSUME NEW i \in 1 .. n
      PROVE  Size(bits, n, i) \in Nat \ {0} /\ Start(bits, n, i) = Start(bits, n, i - 1) + Size(bits, n, i)
  <2>1. i * q = (i - 1) * q + q /\ (i - 1) * q \in Nat /\ i \in Nat /\ i - 1 \in Nat
    BY <1>1
  <2> QED BY <1>1, <1>2, <1>3, <2>1
<1>7. ASSUME NEW i \in 0 .. n, NEW j \in 0 .. n, i <= j PROVE Start(bits, n, i) <= Start(bits, n, j)
  <2>1. i * q <= j * q /\ i * q \in Nat /\ j * q \in Nat
    BY <1>1, <1>7, WordsInOrder
  <2> QED BY <1>1, <1>3, <1>7, <2>1
<1> QED BY <1>4, <1>5, <1>6, <1>7

(* The blocks share no bit and leave none out, and none is empty.          *)
LEMMA BlocksCover ==
  ASSUME NEW bits \in Nat \ {0}, NEW n \in 1 .. bits
  PROVE  /\ UNION {BlockOf(bits, n, i) : i \in 1 .. n} = 0 .. (bits - 1)
         /\ \A i, j \in 1 .. n : i # j => BlockOf(bits, n, i) \cap BlockOf(bits, n, j) = {}
         /\ \A i \in 1 .. n : BlockOf(bits, n, i) # {}
<1> DEFINE s(i) == Start(bits, n, i)
<1>1. /\ s(0) = 0 /\ s(n) = bits /\ n \in Nat \ {0}
      /\ \A i \in 0 .. n : s(i) \in Nat
      /\ \A i \in 1 .. n : s(i - 1) < s(i)
      /\ \A i, j \in 0 .. n : i <= j => s(i) <= s(j)
  <2>1. \A i \in 1 .. n : i - 1 \in 0 .. n
    OBVIOUS
  <2> QED BY <2>1, Starts
<1>2. \A i : BlockOf(bits, n, i) = s(i - 1) .. (s(i) - 1)
  BY DEF BlockOf
<1> HIDE DEF s
<1>3. ASSUME NEW b \in 0 .. (bits - 1) PROVE \E i \in 1 .. n : b \in BlockOf(bits, n, i)
  <2> DEFINE T == {i \in 1 .. n : b < s(i)}
  <2>1. T \in SUBSET Nat /\ n \in T
    BY <1>1
  <2>2. PICK i \in T : \A j \in T : i <= j
    <3> HIDE DEF T
    <3> QED BY <2>1, MinNat
  <2>3. ~(b < s(i - 1))
    <3>1. CASE i = 1
      BY <1>1, <3>1
    <3>2. CASE i # 1
      BY <2>2, <3>2
    <3> QED BY <3>1, <3>2
  <2>4. s(i) \in Nat /\ s(i - 1) \in Nat
    BY <1>1
  <2> QED BY <1>2, <2>2, <2>3, <2>4
<1>4. ASSUME NEW i \in 1 .. n PROVE BlockOf(bits, n, i) \subseteq 0 .. (bits - 1) /\ BlockOf(bits, n, i) # {}
  <2>1. i \in 0 .. n /\ i - 1 \in 0 .. n /\ n \in 0 .. n /\ i <= n
    OBVIOUS
  <2>2. s(i) \in Nat /\ s(i - 1) \in Nat /\ s(i) <= bits /\ s(i - 1) < s(i)
    BY <1>1, <2>1
  <2> DEFINE lo == s(i - 1)
             hi == s(i)
  <2>3. BlockOf(bits, n, i) = lo .. (hi - 1)
    BY <1>2, Zenon
  <2>4. lo \in Nat /\ hi \in Nat /\ hi <= bits /\ lo < hi
    BY <2>2
  <2> HIDE DEF lo, hi
  <2>5. lo \in lo .. (hi - 1) /\ lo .. (hi - 1) \subseteq 0 .. (bits - 1)
    BY <2>4
  <2> QED BY <2>3, <2>5
<1>5. ASSUME NEW i \in 1 .. n, NEW j \in 1 .. n, i < j
      PROVE  BlockOf(bits, n, i) \cap BlockOf(bits, n, j) = {}
  <2>1. i \in 0 .. n /\ i - 1 \in 0 .. n /\ j \in 0 .. n /\ j - 1 \in 0 .. n /\ i <= j - 1
    BY <1>5
  <2>2. s(i) <= s(j - 1) /\ s(i) \in Nat /\ s(j - 1) \in Nat /\ s(j) \in Nat /\ s(i - 1) \in Nat
    BY <1>1, <2>1
  <2> DEFINE a == s(i - 1)
             b == s(i)
             c == s(j - 1)
             d == s(j)
  <2>3. BlockOf(bits, n, i) = a .. (b - 1) /\ BlockOf(bits, n, j) = c .. (d - 1)
    BY <1>2, Zenon
  <2>4. a \in Nat /\ b \in Nat /\ c \in Nat /\ d \in Nat /\ b <= c
    BY <2>2
  <2> HIDE DEF a, b, c, d
  <2> QED BY <2>3, <2>4
<1>6. ASSUME NEW i \in 1 .. n, NEW j \in 1 .. n, i # j
      PROVE  BlockOf(bits, n, i) \cap BlockOf(bits, n, j) = {}
  <2>1. i < j \/ j < i
    BY <1>6
  <2> QED BY <1>5, <2>1
<1>7. UNION {BlockOf(bits, n, i) : i \in 1 .. n} = 0 .. (bits - 1)
  BY <1>3, <1>4
<1> QED BY <1>4, <1>6, <1>7

-----------------------------------------------------------------------------
(* Choices of m of n blocks, in ascending order, and the order permutate_  *)
(* goes through them.                                                      *)
Picks(m, n) == {v \in [1 .. m -> 1 .. n] : \A i, j \in 1 .. m : i < j => v[i] < v[j]}
Lex(u, v, m) == \E i \in 1 .. m : u[i] < v[i] /\ \A j \in 1 .. i - 1 : u[j] = v[j]

LEMMA PickGap ==
  ASSUME NEW m \in Nat, NEW n \in Nat, NEW v \in Picks(m, n), NEW i \in 1 .. m, NEW j \in 1 .. m, i <= j
  PROVE  v[j] - v[i] >= j - i
<1>1. v \in [1 .. m -> 1 .. n] /\ \A a, b \in 1 .. m : a < b => v[a] < v[b]
  BY DEF Picks
<1> DEFINE T == {d \in Nat : i + d <= m => v[i + d] - v[i] >= d}
<1>2. 0 \in T
  BY <1>1
<1>3. ASSUME NEW d \in 1 .. m, d - 1 \in T PROVE d \in T
  <2> SUFFICES ASSUME i + d <= m PROVE v[i + d] - v[i] >= d
    OBVIOUS
  <2>1. v[i + (d - 1)] - v[i] >= d - 1
    BY <1>3
  <2>2. i + (d - 1) \in 1 .. m /\ i + d \in 1 .. m /\ i + (d - 1) < i + d
    OBVIOUS
  <2>3. v[i + (d - 1)] < v[i + d]
    BY <1>1, <2>2
  <2>4. v[i] \in Nat /\ v[i + d] \in Nat /\ v[i + (d - 1)] \in Nat
    BY <1>1, <2>2
  <2> QED BY <2>1, <2>3, <2>4
<1>4. 0 .. m \subseteq T
  <2> HIDE DEF T
  <2> QED BY <1>2, <1>3, UpToInduction
<1>5. j - i \in T /\ i + (j - i) = j
  BY <1>4
<1> QED BY <1>5

LEMMA PickBounds ==
  ASSUME NEW m \in Nat, NEW n \in Nat, NEW v \in Picks(m, n), NEW i \in 1 .. m
  PROVE  v[i] \in Nat /\ i <= v[i] /\ v[i] <= n - (m - i)
<1>1. v \in [1 .. m -> 1 .. n]
  BY DEF Picks
<1>2. 1 \in 1 .. m /\ m \in 1 .. m /\ 1 <= i /\ i <= m
  OBVIOUS
<1>3. v[i] - v[1] >= i - 1 /\ v[m] - v[i] >= m - i
  BY <1>2, PickGap
<1>4. v[i] \in 1 .. n /\ v[1] \in 1 .. n /\ v[m] \in 1 .. n
  BY <1>1, <1>2
<1> QED BY <1>3, <1>4

LEMMA LexIsOrder ==
  ASSUME NEW m \in Nat, NEW n \in Nat, NEW u \in Picks(m, n), NEW v \in Picks(m, n)
  PROVE  /\ u # v => Lex(u, v, m) \/ Lex(v, u, m)
         /\ ~(Lex(u, v, m) /\ Lex(v, u, m))
         /\ \A w \in Picks(m, n) : Lex(u, v, m) /\ Lex(v, w, m) => Lex(u, w, m)
<1>0. \A w \in Picks(m, n) : w \in [1 .. m -> 1 .. n] /\ \A i \in 1 .. m : w[i] \in Nat
  BY DEF Picks
<1>1. ASSUME u # v PROVE Lex(u, v, m) \/ Lex(v, u, m)
  <2> DEFINE T == {i \in 1 .. m : u[i] # v[i]}
  <2>1. T \in SUBSET Nat /\ T # {}
    BY <1>0, <1>1
  <2>2. PICK i \in T : \A j \in T : i <= j
    <3> HIDE DEF T
    <3> QED BY <2>1, MinNat
  <2>3. \A j \in 1 .. i - 1 : u[j] = v[j]
    BY <2>2
  <2>4. u[i] < v[i] \/ v[i] < u[i]
    BY <1>0, <2>2
  <2> QED BY <2>2, <2>3, <2>4 DEF Lex
<1>2. ASSUME Lex(u, v, m), Lex(v, u, m) PROVE FALSE
  <2>1. PICK i \in 1 .. m : u[i] < v[i] /\ \A l \in 1 .. i - 1 : u[l] = v[l]
    BY <1>2 DEF Lex
  <2>2. PICK j \in 1 .. m : v[j] < u[j] /\ \A l \in 1 .. j - 1 : v[l] = u[l]
    BY <1>2 DEF Lex
  <2>3. i < j \/ j < i \/ i = j
    OBVIOUS
  <2> QED BY <1>0, <2>1, <2>2, <2>3
<1>3. ASSUME NEW w \in Picks(m, n), Lex(u, v, m), Lex(v, w, m) PROVE Lex(u, w, m)
  <2>1. PICK i \in 1 .. m : u[i] < v[i] /\ \A l \in 1 .. i - 1 : u[l] = v[l]
    BY <1>3 DEF Lex
  <2>2. PICK j \in 1 .. m : v[j] < w[j] /\ \A l \in 1 .. j - 1 : v[l] = w[l]
    BY <1>3 DEF Lex
  <2>3. CASE i <= j
    <3>1. u[i] < w[i]
      <4>1. u[i] \in Nat /\ v[i] \in Nat /\ w[i] \in Nat
        BY <1>0, <1>3
      <4>2. CASE i < j
        <5>1. v[i] = w[i]
          BY <2>2, <4>2
        <5> QED BY <2>1, <5>1
      <4>3. CASE i = j
        BY <2>1, <2>2, <4>1, <4>3
      <4> QED BY <2>3, <4>2, <4>3
    <3>2. \A l \in 1 .. i - 1 : u[l] = w[l]
      BY <2>1, <2>2, <2>3
    <3> QED BY <3>1, <3>2 DEF Lex
  <2>4. CASE j < i
    <3>1. u[j] < w[j] /\ \A l \in 1 .. j - 1 : u[l] = w[l]
      BY <1>0, <2>1, <2>2, <2>4
    <3> QED BY <3>1 DEF Lex
  <2> QED BY <2>3, <2>4
<1> QED BY <1>1, <1>2, <1>3

(* The places that can move, and the choice that comes next.               *)
Movers(v, m, n) == {i \in 1 .. m : v[i] # n - (m - i)}
Moved(v, m, x) == [i \in 1 .. m |-> IF i < x THEN v[i] ELSE v[x] + 1 + (i - x)]

LEMMA NextPick ==
  ASSUME NEW m \in Nat, NEW n \in Nat, NEW v \in Picks(m, n),
         NEW x \in Movers(v, m, n), \A y \in Movers(v, m, n) : y <= x
  PROVE  /\ Moved(v, m, x) \in Picks(m, n)
         /\ \A u \in Picks(m, n) : Lex(u, Moved(v, m, x), m) <=> Lex(u, v, m) \/ u = v
<1> DEFINE w == Moved(v, m, x)
<1>0. x \in 1 .. m /\ v[x] # n - (m - x)
  BY DEF Movers
<1>1. /\ \A i \in 1 .. m : v[i] \in Nat /\ i <= v[i] /\ v[i] <= n - (m - i)
      /\ \A i, j \in 1 .. m : i < j => v[i] < v[j]
  BY PickBounds DEF Picks
<1>2. v[x] < n - (m - x)
  BY <1>0, <1>1
<1>3. /\ DOMAIN w = 1 .. m
      /\ \A i \in 1 .. m : w[i] = IF i < x THEN v[i] ELSE v[x] + 1 + (i - x)
      /\ w = [i \in 1 .. m |-> w[i]]
  BY DEF Moved
<1> HIDE DEF w
<1>4. \A i \in 1 .. m : w[i] \in 1 .. n
  <2> SUFFICES ASSUME NEW i \in 1 .. m PROVE w[i] \in 1 .. n
    OBVIOUS
  <2>1. v[i] \in Nat /\ i <= v[i] /\ v[i] <= n - (m - i) /\ v[x] \in Nat
    BY <1>0, <1>1
  <2> QED BY <1>0, <1>2, <1>3, <2>1
<1>5. \A i, j \in 1 .. m : i < j => w[i] < w[j]
  <2> SUFFICES ASSUME NEW i \in 1 .. m, NEW j \in 1 .. m, i < j PROVE w[i] < w[j]
    OBVIOUS
  <2>1. v[i] \in Nat /\ v[j] \in Nat /\ v[x] \in Nat /\ v[i] < v[j]
    BY <1>0, <1>1
  <2>2. i < x => v[i] < v[x]
    BY <1>0, <1>1
  <2> QED BY <1>0, <1>3, <2>1, <2>2
<1>6. w \in Picks(m, n)
  BY <1>3, <1>4, <1>5 DEF Picks
<1>7. Lex(v, w, m)
  <2>1. v[x] < w[x] /\ \A j \in 1 .. x - 1 : v[j] = w[j]
    BY <1>0, <1>1, <1>3
  <2> QED BY <1>0, <2>1 DEF Lex
<1>8. ASSUME NEW u \in Picks(m, n), Lex(u, w, m), u # v PROVE Lex(u, v, m)
  <2> SUFFICES ASSUME Lex(v, u, m) PROVE FALSE
    BY <1>8, LexIsOrder
  <2>1. PICK i \in 1 .. m : v[i] < u[i] /\ \A j \in 1 .. i - 1 : v[j] = u[j]
    BY DEF Lex
  <2>2. u[i] <= n - (m - i) /\ u[i] \in Nat /\ v[i] \in Nat
    BY <1>1, PickBounds
  <2>3. i \in Movers(v, m, n)
    BY <2>1, <2>2 DEF Movers
  <2>4. i <= x
    BY <2>3
  <2>5. CASE i < x
    <3>1. w[i] < u[i] /\ \A j \in 1 .. i - 1 : w[j] = u[j]
      BY <1>0, <1>3, <2>1, <2>5
    <3>2. Lex(w, u, m)
      BY <3>1 DEF Lex
    <3> QED BY <1>6, <1>8, <3>2, LexIsOrder
  <2>6. CASE i = x
    <3>1. PICK l \in 1 .. m : u[l] < w[l] /\ \A j \in 1 .. l - 1 : u[j] = w[j]
      BY <1>8 DEF Lex
    <3>2. u[l] \in Nat /\ u[x] \in Nat /\ v[x] \in Nat /\ v[x] < u[x]
      BY <1>0, <1>1, <2>1, <2>6, PickBounds
    <3>3. CASE l < x
      <4>1. u[l] = v[l] /\ w[l] = v[l]
        BY <1>0, <1>3, <2>1, <2>6, <3>3
      <4> QED BY <3>1, <3>2, <4>1
    <3>4. CASE x <= l
      <4>1. u[l] - u[x] >= l - x
        BY <1>0, <3>4, PickGap
      <4>2. w[l] = v[x] + 1 + (l - x)
        BY <1>0, <1>3, <3>4
      <4> QED BY <1>0, <3>1, <3>2, <4>1, <4>2
    <3> QED BY <1>0, <3>3, <3>4
  <2> QED BY <1>0, <2>4, <2>5, <2>6
<1>9. ASSUME NEW u \in Picks(m, n), Lex(u, v, m) \/ u = v PROVE Lex(u, w, m)
  BY <1>6, <1>7, <1>9, LexIsOrder
<1> QED BY <1>6, <1>8, <1>9 DEF w

LEMMA FirstPick ==
  ASSUME NEW m \in Nat, NEW n \in Nat, m <= n
  PROVE  /\ [i \in 1 .. m |-> i] \in Picks(m, n)
         /\ \A u \in Picks(m, n) : ~Lex(u, [i \in 1 .. m |-> i], m)
<1>1. [i \in 1 .. m |-> i] \in Picks(m, n)
  BY DEF Picks
<1>2. ASSUME NEW u \in Picks(m, n), Lex(u, [i \in 1 .. m |-> i], m) PROVE FALSE
  <2>1. PICK i \in 1 .. m : u[i] < i
    BY <1>2 DEF Lex
  <2> QED BY <2>1, PickBounds
<1> QED BY <1>1, <1>2

LEMMA LastPick ==
  ASSUME NEW m \in Nat, NEW n \in Nat, NEW v \in Picks(m, n), Movers(v, m, n) = {}
  PROVE  \A u \in Picks(m, n) : Lex(u, v, m) \/ u = v
<1> SUFFICES ASSUME NEW u \in Picks(m, n), Lex(v, u, m) PROVE FALSE
  BY LexIsOrder
<1>1. PICK i \in 1 .. m : v[i] < u[i]
  BY DEF Lex
<1>2. u[i] <= n - (m - i) /\ v[i] = n - (m - i) /\ u[i] \in Nat
  BY PickBounds DEF Movers
<1> QED BY <1>1, <1>2

(* A choice as a set.                                                      *)
Picked(v, m) == {v[i] : i \in 1 .. m}

LEMMA PickSize ==
  ASSUME NEW m \in Nat, NEW n \in Nat, NEW v \in Picks(m, n)
  PROVE  Picked(v, m) \in SUBSET (1 .. n) /\ Cardinality(Picked(v, m)) = m
<1>1. v \in [1 .. m -> 1 .. n] /\ \A i, j \in 1 .. m : i < j => v[i] < v[j]
  BY DEF Picks
<1>2. \A i, j \in 1 .. m : v[i] = v[j] => i = j
  <2> SUFFICES ASSUME NEW i \in 1 .. m, NEW j \in 1 .. m, v[i] = v[j], i # j PROVE FALSE
    OBVIOUS
  <2>1. (i < j \/ j < i) /\ v[i] \in Nat /\ v[j] \in Nat
    BY <1>1
  <2> QED BY <1>1, <2>1
<1> DEFINE C == Picked(v, m)
<1>3. v \in [1 .. m -> C] /\ \A s \in C : \E i \in 1 .. m : v[i] = s
  BY <1>1 DEF Picked
<1> HIDE DEF C
<1>4. v \in Bijection(1 .. m, C)
  BY <1>2, <1>3 DEF Bijection, Injection, Surjection, IsInjective
<1>5. ExistsBijection(1 .. m, C)
  BY <1>4 DEF ExistsBijection
<1>6. Cardinality(C) = m
  BY <1>5, FS_CountingElements
<1> QED BY <1>1, <1>6 DEF C, Picked

(* Every set of m blocks is a choice.                                      *)
LEMMA EachIsPicked ==
  ASSUME NEW m \in Nat, NEW n \in Nat, NEW S \in SUBSET (1 .. n), Cardinality(S) = m
  PROVE  \E v \in Picks(m, n) : S = Picked(v, m)
<1> DEFINE T == {l \in Nat : \A R \in SUBSET (1 .. n) :
                   Cardinality(R) = l => \E v \in Picks(l, n) : R = Picked(v, l)}
<1>0. \A R \in SUBSET (1 .. n) : IsFiniteSet(R) /\ Cardinality(R) \in Nat
  <2>1. IsFiniteSet(1 .. n)
    BY FS_Interval
  <2> QED BY <2>1, FS_Subset, FS_CardinalityType
<1>1. 0 \in T
  <2> SUFFICES ASSUME NEW R \in SUBSET (1 .. n), Cardinality(R) = 0
               PROVE  \E v \in Picks(0, n) : R = Picked(v, 0)
    OBVIOUS
  <2>1. R = {}
    BY <1>0, FS_EmptySet
  <2>2. [i \in 1 .. 0 |-> 1] \in Picks(0, n) /\ Picked([i \in 1 .. 0 |-> 1], 0) = {}
    BY DEF Picks, Picked
  <2> QED BY <2>1, <2>2
<1>2. ASSUME NEW l \in 1 .. m, l - 1 \in T PROVE l \in T
  <2> SUFFICES ASSUME NEW R \in SUBSET (1 .. n), Cardinality(R) = l
               PROVE  \E v \in Picks(l, n) : R = Picked(v, l)
    OBVIOUS
  <2>1. R # {}
    BY FS_EmptySet
  <2>2. PICK x \in R : \A y \in R : y <= x
    BY <2>1, LastOfNumbers
  <2>3. R \ {x} \in SUBSET (1 .. n) /\ Cardinality(R \ {x}) = l - 1
    BY <1>0, FS_RemoveElement
  <2>4. PICK v \in Picks(l - 1, n) : R \ {x} = Picked(v, l - 1)
    BY <1>2, <2>3
  <2> DEFINE w == [i \in 1 .. l |-> IF i = l THEN x ELSE v[i]]
  <2>5. v \in [1 .. l - 1 -> 1 .. n] /\ \A i, j \in 1 .. l - 1 : i < j => v[i] < v[j]
    BY <2>4 DEF Picks
  <2>6. \A i \in 1 .. l - 1 : v[i] \in R /\ v[i] # x
    BY <2>4 DEF Picked
  <2>7. w \in [1 .. l -> 1 .. n]
    BY <2>5
  <2>8. \A i, j \in 1 .. l : i < j => w[i] < w[j]
    <3> SUFFICES ASSUME NEW i \in 1 .. l, NEW j \in 1 .. l, i < j PROVE w[i] < w[j]
      OBVIOUS
    <3>1. i \in 1 .. l - 1 /\ w[i] = v[i] /\ v[i] \in Nat /\ v[i] <= x /\ v[i] # x
      BY <2>2, <2>5, <2>6
    <3>2. CASE j = l
      BY <3>1, <3>2
    <3>3. CASE j # l
      BY <2>5, <3>1, <3>3
    <3> QED BY <3>2, <3>3
  <2>9. R = Picked(w, l)
    <3>1. \A y \in R \ {x} : \E i \in 1 .. l - 1 : y = v[i]
      BY <2>4 DEF Picked
    <3>2. \A y \in R \ {x} : \E i \in 1 .. l : y = w[i]
      BY <3>1
    <3>3. l \in 1 .. l /\ w[l] = x
      OBVIOUS
    <3>4. \A i \in 1 .. l : w[i] \in R
      BY <2>2, <2>6
    <3> HIDE DEF w
    <3> QED BY <3>2, <3>3, <3>4 DEF Picked
  <2> QED BY <2>7, <2>8, <2>9 DEF Picks
<1>3. 0 .. m \subseteq T
  <2> HIDE DEF T
  <2> QED BY <1>1, <1>2, UpToInduction
<1>4. m \in T
  BY <1>3
<1> QED BY <1>4

(* Different choices have different masks.                                 *)
MaskOf(blocks, v, m) == UNION {blocks[v[i]] : i \in 1 .. m}
Apart(blocks, n) ==
  \A i \in 1 .. n : blocks[i] # {} /\ \A j \in 1 .. n : i # j => blocks[i] \cap blocks[j] = {}

LEMMA MasksDiffer ==
  ASSUME NEW m \in Nat, NEW n \in Nat, NEW u \in Picks(m, n), NEW v \in Picks(m, n), Lex(u, v, m),
         NEW blocks, Apart(blocks, n)
  PROVE  MaskOf(blocks, u, m) # MaskOf(blocks, v, m)
<1>1. PICK i \in 1 .. m : u[i] < v[i] /\ \A j \in 1 .. i - 1 : u[j] = v[j]
  BY DEF Lex
<1>2. /\ u \in [1 .. m -> 1 .. n] /\ \A a, b \in 1 .. m : a < b => u[a] < u[b]
      /\ v \in [1 .. m -> 1 .. n] /\ \A a, b \in 1 .. m : a < b => v[a] < v[b]
  BY DEF Picks
<1>3. ASSUME NEW j \in 1 .. m PROVE v[j] # u[i]
  <2>0. u[i] \in Nat /\ v[i] \in Nat /\ v[j] \in Nat /\ u[j] \in Nat
    BY <1>2
  <2>1. CASE j < i
    BY <1>1, <1>2, <2>0, <2>1
  <2>2. CASE j = i
    BY <1>1, <2>0, <2>2
  <2>3. CASE i < j
    BY <1>1, <1>2, <2>0, <2>3
  <2> QED BY <2>1, <2>2, <2>3
<1>4. PICK b \in blocks[u[i]] : TRUE
  <2>1. blocks[u[i]] # {}
    BY <1>2 DEF Apart
  <2> QED BY <2>1
<1>5. b \in MaskOf(blocks, u, m)
  BY <1>4 DEF MaskOf
<1>6. b \notin MaskOf(blocks, v, m)
  <2> SUFFICES ASSUME NEW j \in 1 .. m, b \in blocks[v[j]] PROVE FALSE
    BY DEF MaskOf
  <2>1. u[i] \in 1 .. n /\ v[j] \in 1 .. n /\ u[i] # v[j]
    BY <1>2, <1>3
  <2> QED BY <1>4, <2>1 DEF Apart
<1> QED BY <1>5, <1>6

-----------------------------------------------------------------------------
(* The loops of GenTables: the blocks made so far begin where Start says,  *)
(* and the tables made so far are those of the choices before the present  *)
(* one.                                                                    *)
ArgsOK == f \in Nat \ {0} /\ partition_num \in 1 .. f /\ k \in 0 .. partition_num

BlocksOK ==
  /\ mask_blocks \in Seq(SUBSET Nat) /\ Len(mask_blocks) <= partition_num
  /\ count = Start(f, partition_num, Len(mask_blocks))
  /\ \A b \in 1 .. Len(mask_blocks) : mask_blocks[b] = BlockOf(f, partition_num, b)

Tables == {table_list[t] : t \in DOMAIN table_list}
TablesOf(us, m) == {MaskOf(mask_blocks, u, m) : u \in us}
Before(v, m, n) == {u \in Picks(m, n) : Lex(u, v, m)}

TablesOK ==
  /\ gen_pc \in {"blocks", "tables", "done"}
  /\ table_list \in Seq(SUBSET Nat)
  /\ \A t1, t2 \in DOMAIN table_list : table_list[t1] = table_list[t2] => t1 = t2
  /\ gen_pc = "blocks" => table_list = <<>>
  /\ gen_pc # "blocks" => /\ Len(mask_blocks) = partition_num
                          /\ vec \in Picks(partition_num - k, partition_num)
  /\ gen_pc = "tables" =>
       Tables = TablesOf(Before(vec, partition_num - k, partition_num), partition_num - k)
  /\ gen_pc = "done" =>
       Tables = TablesOf(Picks(partition_num - k, partition_num), partition_num - k)

GenInv == ArgsOK /\ BlocksOK /\ TablesOK

LEMMA PickLength ==
  ASSUME NEW m \in Nat, NEW S, NEW v \in [1 .. m -> S]
  PROVE  v \in Seq(S) /\ Len(v) = m
OBVIOUS

(* What the module computes is what was said above of choices.             *)
LEMMA TablesAre ==
  ASSUME ArgsOK, NEW v \in Picks(partition_num - k, partition_num)
  PROVE  /\ Gen!Movable(v) = Movers(v, partition_num - k, partition_num)
         /\ Gen!Mask(v) = MaskOf(mask_blocks, v, partition_num - k)
         /\ Gen!Movable(v) # {} =>
              \E x \in Movers(v, partition_num - k, partition_num) :
                /\ \A y \in Movers(v, partition_num - k, partition_num) : y <= x
                /\ Gen!Permutated(v) = Moved(v, partition_num - k, x)
<1> DEFINE m == partition_num - k
           n == partition_num
<1>1. m \in Nat /\ n \in Nat /\ v \in [1 .. m -> 1 .. n]
  BY DEF ArgsOK, Picks
<1>2. Len(v) = m
  <2> HIDE DEF m, n
  <2> QED BY <1>1, PickLength
<1>3. Gen!Movable(v) = Movers(v, m, n)
  BY <1>2 DEF Gen!Movable, Movers
<1>4. Gen!Mask(v) = MaskOf(mask_blocks, v, m)
  BY <1>2 DEF Gen!Mask, MaskOf
<1>5. ASSUME Movers(v, m, n) # {}
      PROVE  \E x \in Movers(v, m, n) : /\ \A y \in Movers(v, m, n) : y <= x
                                        /\ Gen!Permutated(v) = Moved(v, m, x)
  <2> DEFINE T == Movers(v, m, n)
             x == CHOOSE x \in T : \A y \in T : y <= x
  <2>1. T \in SUBSET (1 .. m)
    BY DEF Movers
  <2>2. \E l \in T : \A y \in T : y <= l
    <3> HIDE DEF T, m, n
    <3> QED BY <1>1, <1>5, <2>1, LastOfNumbers DEF T
  <2>3. x \in T /\ \A y \in T : y <= x
    <3> HIDE DEF T
    <3> QED BY <2>2
  <2>4. Gen!Permutated(v) = [i \in 1 .. m |-> IF i < x THEN v[i] ELSE v[x] + 1 + (i - x)]
    <3> HIDE DEF m
    <3> QED BY <1>2, <1>3 DEF Gen!Permutated
  <2>5. Gen!Permutated(v) = Moved(v, m, x)
    BY <2>4 DEF Moved
  <2> QED BY <2>3, <2>5
<1> QED BY <1>3, <1>4, <1>5

LEMMA BlocksApart ==
  ASSUME ArgsOK, BlocksOK, Len(mask_blocks) = partition_num
  PROVE  /\ Apart(mask_blocks, partition_num)
         /\ UNION {mask_blocks[b] : b \in 1 .. partition_num} = 0 .. (f - 1)
         /\ \A b \in 1 .. partition_num : mask_blocks[b] = BlockOf(f, partition_num, b)
<1>1. \A b \in 1 .. partition_num : mask_blocks[b] = BlockOf(f, partition_num, b)
  BY DEF BlocksOK
<1>2. /\ UNION {BlockOf(f, partition_num, b) : b \in 1 .. partition_num} = 0 .. (f - 1)
      /\ \A b1, b2 \in 1 .. partition_num :
           b1 # b2 => BlockOf(f, partition_num, b1) \cap BlockOf(f, partition_num, b2) = {}
      /\ \A b \in 1 .. partition_num : BlockOf(f, partition_num, b) # {}
  BY BlocksCover DEF ArgsOK
<1>3. {mask_blocks[b] : b \in 1 .. partition_num} = {BlockOf(f, partition_num, b) : b \in 1 .. partition_num}
  BY <1>1
<1> QED BY <1>1, <1>2, <1>3 DEF Apart

LEMMA AddBlockKeepsInv ==
  ASSUME GenInv, Gen!AddBlock
  PROVE  GenInv'
<1> DEFINE l == Len(mask_blocks) + 1
           finish == count + Gen!BlockSize(l)
<1>1. /\ gen_pc = "blocks" /\ Len(mask_blocks) < partition_num
      /\ mask_blocks' = Append(mask_blocks, Gen!MaskBlock(count, finish)) /\ count' = finish
      /\ UNCHANGED <<f, k, partition_num, vec, table_list, gen_pc>>
  BY DEF Gen!AddBlock, Gen!args
<1>2. ArgsOK'
  BY <1>1 DEF GenInv, ArgsOK
<1>3. /\ partition_num \in 1 .. f /\ f \in Nat \ {0}
      /\ mask_blocks \in Seq(SUBSET Nat) /\ Len(mask_blocks) \in Nat /\ l \in 1 .. partition_num
      /\ count = Start(f, partition_num, l - 1)
  BY <1>1 DEF GenInv, ArgsOK, BlocksOK
<1>4. Gen!BlockSize(l) = Size(f, partition_num, l)
  BY DEF Gen!BlockSize, Size
<1>5. /\ finish = Start(f, partition_num, l) /\ count \in Nat /\ finish \in Nat /\ count <= finish
  <2>1. l - 1 \in 0 .. partition_num /\ l \in 0 .. partition_num
    BY <1>3
  <2>2. /\ Start(f, partition_num, l) = Start(f, partition_num, l - 1) + Size(f, partition_num, l)
        /\ Size(f, partition_num, l) \in Nat /\ Start(f, partition_num, l - 1) \in Nat
    <3> HIDE DEF l
    <3> QED BY <1>3, <2>1, Starts
  <2> HIDE DEF l
  <2> QED BY <1>3, <1>4, <2>2
<1>6. Gen!MaskBlock(count, finish) = BlockOf(f, partition_num, l)
  <2>1. Gen!MaskBlock(count, finish) = count .. (finish - 1)
    <3> HIDE DEF finish
    <3> QED BY <1>5, MaskOfBlock
  <2> HIDE DEF l, finish
  <2> QED BY <1>3, <1>5, <2>1 DEF BlockOf
<1>7. BlockOf(f, partition_num, l) \in SUBSET Nat
  <2>1. count .. (finish - 1) \in SUBSET Nat
    BY <1>5
  <2> HIDE DEF l, finish
  <2> QED BY <1>3, <1>5, <2>1 DEF BlockOf
<1>8. BlocksOK'
  <2> DEFINE new == BlockOf(f, partition_num, l)
  <2>1. mask_blocks' = Append(mask_blocks, new) /\ new \in SUBSET Nat
    BY <1>1, <1>6, <1>7
  <2>2. /\ mask_blocks' \in Seq(SUBSET Nat) /\ Len(mask_blocks') = l
        /\ \A b \in 1 .. l : mask_blocks'[b] = IF b = l THEN new ELSE mask_blocks[b]
    <3> HIDE DEF new
    <3> QED BY <1>3, <2>1
  <2>3. \A b \in 1 .. Len(mask_blocks) : mask_blocks[b] = BlockOf(f, partition_num, b)
    BY DEF GenInv, BlocksOK
  <2>4. \A b \in 1 .. l : mask_blocks'[b] = BlockOf(f, partition_num, b)
    <3> SUFFICES ASSUME NEW b \in 1 .. l PROVE mask_blocks'[b] = BlockOf(f, partition_num, b)
      OBVIOUS
    <3>1. b # l => b \in 1 .. Len(mask_blocks)
      BY <1>3
    <3> HIDE DEF l
    <3> QED BY <2>2, <2>3, <3>1 DEF new
  <2>5. Len(mask_blocks') <= partition_num /\ count' = Start(f, partition_num, Len(mask_blocks'))
    <3> HIDE DEF l, new
    <3> QED BY <1>1, <1>3, <1>5, <2>2
  <2> HIDE DEF l, new
  <2>6. \A b \in 1 .. Len(mask_blocks') : mask_blocks'[b] = BlockOf(f, partition_num, b)
    BY <2>2, <2>4
  <2>7. f' = f /\ partition_num' = partition_num
    BY <1>1
  <2> QED BY <2>2, <2>5, <2>6, <2>7 DEF BlocksOK, BlockOf, Start
<1>9. TablesOK'
  <2>1. TablesOK /\ gen_pc = "blocks" /\ gen_pc' = gen_pc /\ table_list' = table_list
    BY <1>1 DEF GenInv
  <2> QED BY <2>1 DEF TablesOK
<1> QED BY <1>2, <1>8, <1>9 DEF GenInv

LEMMA FirstChoiceKeepsInv ==
  ASSUME GenInv, Gen!FirstChoice
  PROVE  GenInv'
<1> DEFINE m == partition_num - k
<1>1. /\ gen_pc = "blocks" /\ Len(mask_blocks) = partition_num
      /\ vec' = [i \in 1 .. m |-> i] /\ gen_pc' = "tables"
      /\ UNCHANGED <<f, k, partition_num, count, mask_blocks, table_list>>
  BY DEF Gen!FirstChoice, Gen!args, Gen!Len_
<1>2. ArgsOK' /\ BlocksOK'
  BY <1>1 DEF GenInv, ArgsOK, BlocksOK, BlockOf, Start
<1>3. m \in Nat /\ partition_num \in Nat /\ m <= partition_num
  BY DEF GenInv, ArgsOK
<1>4. vec' \in Picks(m, partition_num) /\ \A u \in Picks(m, partition_num) : ~Lex(u, vec', m)
  <2> DEFINE first == [i \in 1 .. m |-> i]
  <2>1. first \in Picks(m, partition_num) /\ \A u \in Picks(m, partition_num) : ~Lex(u, first, m)
    <3> HIDE DEF m
    <3> QED BY <1>3, FirstPick
  <2>2. vec' = first
    BY <1>1
  <2> HIDE DEF first, m
  <2> QED BY <2>1, <2>2
<1>5. table_list' = <<>>
  BY <1>1 DEF GenInv, TablesOK
<1>6. Tables' = {} /\ TablesOf(Before(vec, m, partition_num), m)' = {}
  <2>1. DOMAIN table_list' = {}
    BY <1>5
  <2>2. m' = m /\ partition_num' = partition_num
    BY <1>1
  <2>3. {u \in Picks(m, partition_num) : Lex(u, vec', m)} = {}
    BY <1>4
  <2> HIDE DEF m
  <2>4. Before(vec, m, partition_num)' = {}
    BY <2>2, <2>3 DEF Before, Picks, Lex
  <2> QED BY <2>1, <2>2, <2>4 DEF Tables, TablesOf
<1>7. table_list' \in Seq(SUBSET Nat) /\ DOMAIN table_list' = {}
  BY <1>5
<1>8. Len(mask_blocks') = partition_num' /\ (vec \in Picks(m, partition_num))'
  BY <1>1, <1>4 DEF Picks
<1> QED BY <1>1, <1>2, <1>6, <1>7, <1>8 DEF GenInv, TablesOK

LEMMA AddTableKeepsInv ==
  ASSUME GenInv, Gen!AddTable
  PROVE  GenInv'
<1> DEFINE m == partition_num - k
           n == partition_num
           new == MaskOf(mask_blocks, vec, m)
<1>1. /\ gen_pc = "tables" /\ table_list' = Append(table_list, Gen!Mask(vec))
      /\ \/ Gen!Movable(vec) # {} /\ vec' = Gen!Permutated(vec) /\ gen_pc' = gen_pc
         \/ Gen!Movable(vec) = {} /\ gen_pc' = "done" /\ vec' = vec
      /\ UNCHANGED <<f, k, partition_num, count, mask_blocks>>
  BY DEF Gen!AddTable, Gen!args
<1>2. ArgsOK' /\ BlocksOK'
  BY <1>1 DEF GenInv, ArgsOK, BlocksOK, BlockOf, Start
<1>3. /\ m \in Nat /\ n \in Nat /\ m <= n /\ vec \in Picks(m, n) /\ Len(mask_blocks) = n
      /\ table_list \in Seq(SUBSET Nat)
      /\ \A t1, t2 \in DOMAIN table_list : table_list[t1] = table_list[t2] => t1 = t2
      /\ Tables = TablesOf(Before(vec, m, n), m)
      /\ mask_blocks \in [1 .. n -> SUBSET Nat]
  BY <1>1 DEF GenInv, ArgsOK, BlocksOK, TablesOK
<1>4. Apart(mask_blocks, n)
  BY <1>3, BlocksApart DEF GenInv
<1>5. /\ Gen!Movable(vec) = Movers(vec, m, n) /\ table_list' = Append(table_list, new)
      /\ Gen!Movable(vec) # {} =>
           \E x \in Movers(vec, m, n) : /\ \A y \in Movers(vec, m, n) : y <= x
                                        /\ Gen!Permutated(vec) = Moved(vec, m, x)
  <2>1. ArgsOK
    BY DEF GenInv
  <2> QED BY <1>1, <1>3, <2>1, TablesAre
<1>6. new \in SUBSET Nat
  BY <1>3 DEF MaskOf, Picks
<1>7. \A t \in DOMAIN table_list : table_list[t] # new
  <2> SUFFICES ASSUME NEW t \in DOMAIN table_list, table_list[t] = new PROVE FALSE
    OBVIOUS
  <2>1. PICK u \in Picks(m, n) : Lex(u, vec, m) /\ new = MaskOf(mask_blocks, u, m)
    BY <1>3 DEF Tables, TablesOf, Before
  <2> HIDE DEF m, n
  <2> QED BY <1>3, <1>4, <2>1, MasksDiffer DEF new
<1>8. /\ table_list' \in Seq(SUBSET Nat)
      /\ DOMAIN table_list' = (DOMAIN table_list) \cup {Len(table_list) + 1}
      /\ Len(table_list) + 1 \notin DOMAIN table_list /\ table_list'[Len(table_list) + 1] = new
      /\ \A t \in DOMAIN table_list : table_list'[t] = table_list[t]
  <2> HIDE DEF new
  <2> QED BY <1>3, <1>5, <1>6
<1>9. \A t1, t2 \in DOMAIN table_list' : table_list'[t1] = table_list'[t2] => t1 = t2
  <2> HIDE DEF new
  <2> QED BY <1>3, <1>7, <1>8
<1>10. Tables' = Tables \cup {new}
  <2> HIDE DEF new
  <2> QED BY <1>8 DEF Tables
<1>11. \A us : TablesOf(us, m) \cup {new} = TablesOf(us \cup {vec}, m)
  BY DEF TablesOf
<1>12. m' = m /\ n' = n /\ mask_blocks' = mask_blocks
  BY <1>1
<1>13. CASE Movers(vec, m, n) # {}
  <2>1. PICK x \in Movers(vec, m, n) : (\A y \in Movers(vec, m, n) : y <= x) /\ vec' = Moved(vec, m, x)
    BY <1>1, <1>5, <1>13
  <2>2. /\ vec' \in Picks(m, n) /\ gen_pc' = "tables"
        /\ \A u \in Picks(m, n) : Lex(u, vec', m) <=> Lex(u, vec, m) \/ u = vec
    <3>1. gen_pc' = "tables"
      BY <1>1, <1>5, <1>13
    <3> DEFINE w == Moved(vec, m, x)
    <3>2. w \in Picks(m, n) /\ \A u \in Picks(m, n) : Lex(u, w, m) <=> Lex(u, vec, m) \/ u = vec
      <4> HIDE DEF m, n
      <4> QED BY <1>3, <2>1, NextPick
    <3>3. vec' = w
      BY <2>1
    <3> HIDE DEF w, m, n
    <3> QED BY <3>1, <3>2, <3>3
  <2>3. {u \in Picks(m, n) : Lex(u, vec', m)} = Before(vec, m, n) \cup {vec}
    BY <1>3, <2>2 DEF Before
  <2> HIDE DEF m, n
  <2>4. Before(vec, m, n)' = Before(vec, m, n) \cup {vec}
    BY <1>12, <2>3 DEF Before, Picks, Lex
  <2>5. TablesOf(Before(vec, m, n), m)' = TablesOf(Before(vec, m, n) \cup {vec}, m)
    BY <1>12, <2>4 DEF TablesOf, MaskOf
  <2>6. (vec \in Picks(m, n))'
    BY <1>12, <2>2 DEF Picks
  <2>7. Tables' = TablesOf(Before(vec, m, n), m)'
    BY <1>3, <1>10, <1>11, <2>5
  <2>8. TablesOK'
    <3>1. (Len(mask_blocks) = partition_num)'
      BY <1>3, <1>12 DEF n
    <3> QED BY <1>8, <1>9, <2>2, <2>6, <2>7, <3>1 DEF TablesOK, m, n
  <2> QED BY <1>2, <2>8 DEF GenInv
<1>14. CASE Movers(vec, m, n) = {}
  <2>1. gen_pc' = "done" /\ vec' = vec
    BY <1>1, <1>5, <1>14
  <2>2. \A u \in Picks(m, n) : Lex(u, vec, m) \/ u = vec
    <3> HIDE DEF m, n
    <3> QED BY <1>3, <1>14, LastPick
  <2>3. Picks(m, n) = Before(vec, m, n) \cup {vec}
    BY <1>3, <2>2 DEF Before
  <2> HIDE DEF m, n
  <2>4. Picks(m, n)' = Picks(m, n)
    BY <1>12 DEF Picks
  <2>5. TablesOf(Picks(m, n), m)' = TablesOf(Before(vec, m, n) \cup {vec}, m)
    BY <1>12, <2>3, <2>4 DEF TablesOf, MaskOf
  <2>6. (vec \in Picks(m, n))'
    BY <1>3, <2>1, <2>4
  <2>7. Tables' = TablesOf(Picks(m, n), m)'
    BY <1>3, <1>10, <1>11, <2>5
  <2>8. TablesOK'
    <3>1. (Len(mask_blocks) = partition_num)'
      BY <1>3, <1>12 DEF n
    <3> QED BY <1>8, <1>9, <2>1, <2>6, <2>7, <3>1 DEF TablesOK, m, n
  <2> QED BY <1>2, <2>8 DEF GenInv
<1> QED BY <1>13, <1>14

LEMMA PartsRunTables == PartsSpec => Gen!Spec
<1>1. PartsInit => Gen!Init BY DEF PartsInit
<1>2. [PartsNext]_partsVars => [Gen!Next]_(Gen!vars)
  BY DEF PartsNext, partsVars, genVars, Gen!vars
<1> QED BY <1>1, <1>2, PTL DEF PartsSpec, Gen!Spec

LEMMA TablesInv == Gen!Spec => []GenInv
<1>1. Gen!Init => GenInv
  <2> SUFFICES ASSUME Gen!Init PROVE GenInv
    OBVIOUS
  <2>1. ArgsOK
    BY TablesAssumption DEF Gen!Init, ArgsOK
  <2>2. mask_blocks = <<>> /\ table_list = <<>> /\ count = 0 /\ gen_pc = "blocks"
    BY DEF Gen!Init
  <2>3. Start(f, partition_num, 0) = 0 /\ partition_num \in Nat
    BY <2>1, Starts DEF ArgsOK
  <2>4. BlocksOK
    BY <2>2, <2>3 DEF BlocksOK
  <2>5. TablesOK
    BY <2>2 DEF TablesOK
  <2> QED BY <2>1, <2>4, <2>5 DEF GenInv
<1>2. GenInv /\ [Gen!Next]_(Gen!vars) => GenInv'
  <2>1. ASSUME GenInv, UNCHANGED Gen!vars PROVE GenInv'
    <3>1. ArgsOK'
      BY <2>1 DEF Gen!vars, Gen!args, GenInv, ArgsOK
    <3>2. BlocksOK'
      BY <2>1 DEF Gen!vars, Gen!args, GenInv, BlocksOK, BlockOf, Start
    <3>3. TablesOK'
      <4>1. /\ UNCHANGED <<table_list, gen_pc, vec>>
            /\ mask_blocks' = mask_blocks /\ k' = k /\ partition_num' = partition_num
        BY <2>1 DEF Gen!vars, Gen!args
      <4>2. TablesOK
        BY <2>1 DEF GenInv
      <4>3. Tables' = Tables
        BY <4>1 DEF Tables
      <4>4. Picks(partition_num - k, partition_num)' = Picks(partition_num - k, partition_num)
        BY <4>1 DEF Picks
      <4>5. Before(vec, partition_num - k, partition_num)' = Before(vec, partition_num - k, partition_num)
        BY <4>1 DEF Before, Picks, Lex
      <4>6. /\ TablesOf(Picks(partition_num - k, partition_num), partition_num - k)'
                 = TablesOf(Picks(partition_num - k, partition_num), partition_num - k)
            /\ TablesOf(Before(vec, partition_num - k, partition_num), partition_num - k)'
                 = TablesOf(Before(vec, partition_num - k, partition_num), partition_num - k)
        BY <4>1, <4>4, <4>5 DEF TablesOf, MaskOf
      <4> QED BY <4>1, <4>2, <4>3, <4>4, <4>6 DEF TablesOK
    <3> QED BY <3>1, <3>2, <3>3 DEF GenInv
  <2> QED BY <2>1, AddBlockKeepsInv, FirstChoiceKeepsInv, AddTableKeepsInv DEF Gen!Next
<1> QED BY <1>1, <1>2, PTL DEF Gen!Spec

LEMMA GenCounts == \A S : Gen!Cardinality(S) = Cardinality(S)
BY DEF Gen!Cardinality, Cardinality

(* No block is more than a bit wider than another.                         *)
LEMMA BlocksAreEven ==
  ASSUME NEW bits \in Nat \ {0}, NEW n \in 1 .. bits, NEW b1 \in 1 .. n, NEW b2 \in 1 .. n
  PROVE  Cardinality(BlockOf(bits, n, b1)) <= Cardinality(BlockOf(bits, n, b2)) + 1
<1>1. ASSUME NEW b \in 1 .. n PROVE Cardinality(BlockOf(bits, n, b)) = Size(bits, n, b)
  <2> DEFINE lo == Start(bits, n, b - 1)
             hi == Start(bits, n, b)
  <2>1. b - 1 \in 0 .. n /\ b \in 0 .. n
    OBVIOUS
  <2>2. lo \in Nat /\ hi = lo + Size(bits, n, b) /\ Size(bits, n, b) \in Nat \ {0}
    BY <2>1, Starts
  <2>3. BlockOf(bits, n, b) = lo .. (hi - 1)
    BY DEF BlockOf
  <2> HIDE DEF lo, hi
  <2>4. Cardinality(lo .. (hi - 1)) = IF lo > hi - 1 THEN 0 ELSE (hi - 1) - lo + 1
    <3>1. lo \in Int /\ hi - 1 \in Int
      BY <2>2
    <3> QED BY <3>1, FS_Interval
  <2> QED BY <2>2, <2>3, <2>4
<1>2. bits \div n \in Nat
  BY Quotients
<1>3. Size(bits, n, b1) <= Size(bits, n, b2) + 1
  BY <1>2 DEF Size
<1> QED BY <1>1, <1>3

(* Every choice of blocks of the right number is a pick, and the other way *)
(* round.                                                                  *)
OfSets(blocks, m, n) ==
  {UNION {blocks[b] : b \in S} : S \in {S \in SUBSET (1 .. n) : Cardinality(S) = m}}
OfPicks(blocks, m, n) == {MaskOf(blocks, u, m) : u \in Picks(m, n)}

LEMMA ChoicesArePicks ==
  ASSUME NEW m \in Nat, NEW n \in Nat, NEW blocks
  PROVE  OfSets(blocks, m, n) = OfPicks(blocks, m, n)
<1>1. ASSUME NEW u \in Picks(m, n)
      PROVE  /\ MaskOf(blocks, u, m) = UNION {blocks[b] : b \in Picked(u, m)}
             /\ Picked(u, m) \in SUBSET (1 .. n) /\ Cardinality(Picked(u, m)) = m
  <2>1. {blocks[u[i]] : i \in 1 .. m} = {blocks[b] : b \in Picked(u, m)}
    BY DEF Picked
  <2> QED BY <2>1, PickSize DEF MaskOf
<1>2. ASSUME NEW S \in SUBSET (1 .. n), Cardinality(S) = m
      PROVE  \E u \in Picks(m, n) : UNION {blocks[b] : b \in S} = MaskOf(blocks, u, m)
  <2>1. PICK u \in Picks(m, n) : S = Picked(u, m)
    BY <1>2, EachIsPicked
  <2> QED BY <1>1, <2>1
<1> QED BY <1>1, <1>2 DEF OfSets, OfPicks

(* There is one table for each choice of blocks, and one only; the blocks  *)
(* are all of the fingerprint, share no bit, and are of the same size but  *)
(* for one bit (GenTables, permutate_).                                    *)
THEOREM EachChoiceHasOneTable == PartsSpec => []EveryChoiceOnce
<1>1. ASSUME GenInv PROVE EveryChoiceOnce
  <2> DEFINE m == partition_num - k
             n == partition_num
  <2>1. ArgsOK /\ BlocksOK /\ TablesOK /\ m \in Nat /\ n \in Nat
    BY <1>1 DEF GenInv, ArgsOK
  <2>2. \A t1, t2 \in DOMAIN table_list : table_list[t1] = table_list[t2] => t1 = t2
    BY <2>1 DEF TablesOK
  <2>3. ASSUME gen_pc = "done"
        PROVE  {table_list[t] : t \in DOMAIN table_list} = {Gen!MaskOf(S) : S \in Gen!Choices}
    <3>1. {table_list[t] : t \in DOMAIN table_list} = OfPicks(mask_blocks, m, n)
      BY <2>1, <2>3 DEF TablesOK, Tables, TablesOf, OfPicks
    <3>2. OfSets(mask_blocks, m, n) = OfPicks(mask_blocks, m, n)
      <4> HIDE DEF m, n
      <4> QED BY <2>1, ChoicesArePicks
    <3>3. Gen!Choices = {S \in SUBSET (1 .. n) : Cardinality(S) = m}
      BY GenCounts DEF Gen!Choices, Gen!Len_
    <3>4. \A S : Gen!MaskOf(S) = UNION {mask_blocks[b] : b \in S}
      BY DEF Gen!MaskOf
    <3> HIDE DEF m, n
    <3>5. {Gen!MaskOf(S) : S \in Gen!Choices} = OfSets(mask_blocks, m, n)
      BY <3>3, <3>4 DEF OfSets
    <3> QED BY <3>1, <3>2, <3>5
  <2>4. ASSUME gen_pc # "blocks"
        PROVE  /\ Gen!MaskOf(1 .. partition_num) = Gen!Bits
               /\ \A b1, b2 \in 1 .. partition_num :
                    /\ b1 # b2 => mask_blocks[b1] \cap mask_blocks[b2] = {}
                    /\ Gen!Cardinality(mask_blocks[b1]) <= Gen!Cardinality(mask_blocks[b2]) + 1
    <3>1. Len(mask_blocks) = partition_num
      BY <2>1, <2>4 DEF TablesOK
    <3>2. /\ Apart(mask_blocks, partition_num)
          /\ UNION {mask_blocks[b] : b \in 1 .. partition_num} = 0 .. (f - 1)
          /\ \A b \in 1 .. partition_num : mask_blocks[b] = BlockOf(f, partition_num, b)
      BY <2>1, <3>1, BlocksApart
    <3>3. Gen!MaskOf(1 .. partition_num) = Gen!Bits
      BY <3>2 DEF Gen!MaskOf, Gen!Bits
    <3>4. \A b1, b2 \in 1 .. partition_num : b1 # b2 => mask_blocks[b1] \cap mask_blocks[b2] = {}
      BY <3>2 DEF Apart
    <3>5. \A b1, b2 \in 1 .. partition_num :
            Cardinality(mask_blocks[b1]) <= Cardinality(mask_blocks[b2]) + 1
      BY <2>1, <3>2, BlocksAreEven DEF ArgsOK
    <3> QED BY <3>3, <3>4, <3>5, GenCounts
  <2> QED BY <2>2, <2>3, <2>4 DEF EveryChoiceOnce, Gen!EveryChoiceOnce
<1> QED BY <1>1, PartsRunTables, TablesInv, PTL

(* At most as many blocks as bits differ have one of the bits.             *)
LEMMA BlocksHit ==
  ASSUME NEW n \in Nat, NEW blocks, Apart(blocks, n), NEW D, IsFiniteSet(D)
  PROVE  Cardinality({b \in 1 .. n : blocks[b] \cap D # {}}) <= Cardinality(D)
<1> DEFINE H == {b \in 1 .. n : blocks[b] \cap D # {}}
           bit == [b \in H |-> CHOOSE d \in D : d \in blocks[b]]
<1>1. ASSUME NEW b \in H PROVE bit[b] \in D /\ bit[b] \in blocks[b]
  <2>1. \E d \in D : d \in blocks[b]
    OBVIOUS
  <2> QED BY <2>1
<1>2. \A b1, b2 \in H : bit[b1] = bit[b2] => b1 = b2
  <2> SUFFICES ASSUME NEW b1 \in H, NEW b2 \in H, bit[b1] = bit[b2], b1 # b2 PROVE FALSE
    OBVIOUS
  <2>1. bit[b1] \in blocks[b1] \cap blocks[b2]
    BY <1>1
  <2>2. b1 \in 1 .. n /\ b2 \in 1 .. n
    OBVIOUS
  <2> QED BY <2>1, <2>2 DEF Apart
<1>3. bit \in [H -> D]
  BY <1>1
<1> HIDE DEF bit, H
<1>4. bit \in Injection(H, D)
  BY <1>2, <1>3 DEF Injection, IsInjective
<1>5. Cardinality(H) <= Cardinality(D)
  BY <1>4, FS_Injection
<1> QED BY <1>5 DEF H

(* Some choice of m blocks avoids a set of n - m bits or fewer.            *)
LEMMA SomePickAvoids ==
  ASSUME NEW m \in Nat, NEW n \in Nat, NEW blocks, Apart(blocks, n), NEW D, IsFiniteSet(D),
         Cardinality(D) <= n - m
  PROVE  \E u \in Picks(m, n) : MaskOf(blocks, u, m) \cap D = {}
<1> DEFINE H == {b \in 1 .. n : blocks[b] \cap D # {}}
           F == (1 .. n) \ H
           q == Cardinality(F)
<1>1. IsFiniteSet(1 .. n) /\ Cardinality(1 .. n) = n
  BY FS_Interval
<1>2. Cardinality(H) <= Cardinality(D) /\ H \in SUBSET (1 .. n)
  BY BlocksHit
<1>3. IsFiniteSet(H) /\ Cardinality(H) \in Nat /\ Cardinality(D) \in Nat
  BY <1>1, <1>2, FS_Subset, FS_CardinalityType
<1>4. q \in Nat /\ q >= m
  <2>1. q = Cardinality(1 .. n) - Cardinality((1 .. n) \cap H)
    <3> HIDE DEF H
    <3> QED BY <1>1, FS_Difference
  <2>2. Cardinality((1 .. n) \cap H) = Cardinality(H)
    <3>1. (1 .. n) \cap H = H
      BY <1>2
    <3> QED BY <3>1, Zenon
  <2> HIDE DEF q, H
  <2> QED BY <1>1, <1>2, <1>3, <2>1, <2>2
<1>5. PICK v \in Picks(q, n) : F = Picked(v, q)
  <2>1. F \in SUBSET (1 .. n)
    OBVIOUS
  <2> HIDE DEF F
  <2> QED BY <1>4, <2>1, EachIsPicked
<1> DEFINE u == [i \in 1 .. m |-> v[i]]
<1>6. v \in [1 .. q -> 1 .. n] /\ (\A i, j \in 1 .. q : i < j => v[i] < v[j]) /\ \A i \in 1 .. q : v[i] \in F
  <2> HIDE DEF F, q
  <2> QED BY <1>5 DEF Picks, Picked
<1>7. \A i \in 1 .. m : i \in 1 .. q
  <2> HIDE DEF q
  <2> QED BY <1>4
<1>8. u \in Picks(m, n) /\ \A i \in 1 .. m : u[i] \in F
  <2> HIDE DEF F, q
  <2> QED BY <1>6, <1>7 DEF Picks
<1>9. MaskOf(blocks, u, m) \cap D = {}
  <2>1. \A b \in F : blocks[b] \cap D = {}
    OBVIOUS
  <2> HIDE DEF F, u
  <2> QED BY <1>8, <2>1 DEF MaskOf
<1> QED BY <1>8, <1>9

(* Two fingerprints that differ in at most k bits agree on the bits of     *)
(* some table, so that the comparison of those that agree on a table finds *)
(* every near pair (GenTables).                                            *)
THEOREM NearPairsShareATable == PartsSpec => []NearPairsMeet
<1>1. ASSUME GenInv PROVE NearPairsMeet
  <2> SUFFICES ASSUME gen_pc = "done", NEW differ \in SUBSET Gen!Bits, Gen!Cardinality(differ) <= k
               PROVE  \E t \in DOMAIN table_list : table_list[t] \cap differ = {}
    BY DEF NearPairsMeet, Gen!NearPairsMeet
  <2> DEFINE m == partition_num - k
             n == partition_num
  <2>1. ArgsOK /\ BlocksOK /\ TablesOK /\ m \in Nat /\ n \in Nat /\ f \in Nat /\ k \in Nat
    BY <1>1 DEF GenInv, ArgsOK
  <2>2. Apart(mask_blocks, n)
    BY <2>1, BlocksApart DEF TablesOK
  <2>3. IsFiniteSet(differ) /\ Cardinality(differ) <= n - m
    <3>1. IsFiniteSet(0 .. (f - 1))
      BY <2>1, FS_Interval
    <3>2. IsFiniteSet(differ)
      BY <3>1, FS_Subset DEF Gen!Bits
    <3>3. Cardinality(differ) <= k
      BY GenCounts
    <3>4. n - m = k
      BY <2>1
    <3> QED BY <3>2, <3>3, <3>4
  <2>4. PICK u \in Picks(m, n) : MaskOf(mask_blocks, u, m) \cap differ = {}
    <3> HIDE DEF m, n
    <3> QED BY <2>1, <2>2, <2>3, SomePickAvoids
  <2>5. MaskOf(mask_blocks, u, m) \in Tables
    BY <2>1 DEF TablesOK, TablesOf
  <2> QED BY <2>4, <2>5 DEF Tables
<1> QED BY <1>1, PartsRunTables, TablesInv, PTL

-----------------------------------------------------------------------------
(* The reminders.  The counts of terms are sums over the queries.          *)
OccursIn(q, t) == Remind!Cardinality({n \in DOMAIN q : q[n] = t})
Share(cnt, t) == [q \in Query |-> cnt[q] * OccursIn(q, t)]
Total(cnt, t) ==
  Remind!FoldSet(LAMBDA q, sum :
    sum + cnt[q] * Remind!Cardinality({n \in DOMAIN q : q[n] = t}), 0, Query)

LEMMA OccursType == ASSUME NEW q \in Query, NEW t PROVE OccursIn(q, t) \in Nat
<1> DEFINE S == {n \in DOMAIN q : q[n] = t}
<1>1. DOMAIN q = 1 .. Len(q) /\ Len(q) \in Nat
  BY QueriesAssumption
<1>2. IsFiniteSet(1 .. Len(q)) /\ S \in SUBSET (1 .. Len(q))
  BY <1>1, FS_Interval
<1> HIDE DEF S
<1>3. Cardinality(S) \in Nat
  BY <1>2, FS_Subset, FS_CardinalityType
<1>4. Remind!Cardinality(S) = Cardinality(S)
  BY DEF Remind!Cardinality, Cardinality
<1> QED BY <1>3, <1>4 DEF OccursIn, S

LEMMA ShareType ==
  ASSUME NEW cnt \in [Query -> Nat], NEW t
  PROVE  \A q \in Query : Share(cnt, t)[q] \in Int /\ Share(cnt, t)[q] = cnt[q] * OccursIn(q, t)
<1> SUFFICES ASSUME NEW q \in Query PROVE cnt[q] * OccursIn(q, t) \in Int
  BY DEF Share
<1>1. cnt[q] \in Nat /\ OccursIn(q, t) \in Nat
  BY OccursType
<1> QED BY <1>1

LEMMA TotalIsSum ==
  ASSUME NEW cnt \in [Query -> Nat], NEW t
  PROVE  Total(cnt, t) = SumOver(Query, Share(cnt, t))
<1> DEFINE D == Query
           w == Share(cnt, t)
           Satisfies(it) == it = [s \in SUBSET D |->
             IF s = {} THEN 0
             ELSE it[s \ {CHOOSE x \in s : TRUE}]
                    + cnt[CHOOSE x \in s : TRUE]
                        * Remind!Cardinality({n \in DOMAIN (CHOOSE x \in s : TRUE) : (CHOOSE x \in s : TRUE)[n] = t})]
           it0 == CHOOSE it : Satisfies(it)
<1>1. Total(cnt, t) = it0[D]
  BY DEF Total, Remind!FoldSet, Remind!MapThenFoldSet
<1>2. \A x \in D : w[x] \in Int /\ w[x] = cnt[x] * Remind!Cardinality({n \in DOMAIN x : x[n] = t})
  BY ShareType DEF OccursIn
<1>3. \A s \in SUBSET D : s # {} => (CHOOSE x \in s : TRUE) \in D
  OBVIOUS
<1>4. ASSUME NEW it PROVE Satisfies(it) <=> IsSumR(it, D, w)
  <2> DEFINE last(s) == CHOOSE x \in s : TRUE
             lhs(s) == IF s = {} THEN 0
                       ELSE it[s \ {last(s)}]
                              + cnt[last(s)] * Remind!Cardinality({n \in DOMAIN last(s) : last(s)[n] = t})
             rhs(s) == IF s = {} THEN 0 ELSE it[s \ {last(s)}] + w[last(s)]
  <2>1. ASSUME NEW s \in SUBSET D PROVE lhs(s) = rhs(s)
    <3>1. s # {} => last(s) \in D
      BY <1>3
    <3> HIDE DEF w, last
    <3> QED BY <1>2, <3>1
  <2>2. Satisfies(it) <=> it = [s \in SUBSET D |-> lhs(s)]
    OBVIOUS
  <2>3. IsSumR(it, D, w) <=> it = [s \in SUBSET D |-> rhs(s)]
    BY DEF IsSumR
  <2> HIDE DEF lhs, rhs, Satisfies
  <2>4. [s \in SUBSET D |-> lhs(s)] = [s \in SUBSET D |-> rhs(s)]
    BY <2>1
  <2> QED BY <2>2, <2>3, <2>4
<1>5. IsFiniteSet(D) /\ \A x \in D : w[x] \in Int
  BY <1>2, QueriesAssumption
<1> HIDE DEF D, w, Satisfies
<1>6. (\E it : IsSumR(it, D, w)) /\ \A it : IsSumR(it, D, w) => it[D] = SumOver(D, w)
  BY <1>5, SumFromRight
<1>7. Satisfies(it0)
  BY <1>4, <1>6
<1>8. it0[D] = SumOver(D, w)
  BY <1>4, <1>6, <1>7
<1> QED BY <1>1, <1>8 DEF D, w

CountsOK ==
  /\ periodCount_ \in [Query -> Nat] /\ latestSliceCount_ \in [Query -> Nat]
  /\ ~stopped =>
       \A t \in Remind!Term \cap Chinese :
         /\ periodLangModel_[t] = SumOver(Query, Share(periodCount_, t))
         /\ latestSliceLangModel_[t] = SumOver(Query, Share(latestSliceCount_, t))

LEMMA NothingCounted ==
  /\ Remind!NoQueries \in [Query -> Nat]
  /\ \A t \in Remind!Term \cap Chinese :
       Remind!NoTerms[t] = SumOver(Query, Share(Remind!NoQueries, t))
<1>1. Remind!NoQueries \in [Query -> Nat] /\ \A q \in Query : Remind!NoQueries[q] = 0
  BY DEF Remind!NoQueries
<1>2. ASSUME NEW t \in Remind!Term \cap Chinese
      PROVE  Remind!NoTerms[t] = SumOver(Query, Share(Remind!NoQueries, t))
  <2>1. \A q \in Query : Share(Remind!NoQueries, t)[q] = 0
    <3> SUFFICES ASSUME NEW q \in Query PROVE Share(Remind!NoQueries, t)[q] = 0
      OBVIOUS
    <3>1. Share(Remind!NoQueries, t)[q] = 0 * OccursIn(q, t) /\ OccursIn(q, t) \in Nat
      BY <1>1, ShareType, OccursType
    <3> QED BY <3>1
  <2>2. SumOver(Query, Share(Remind!NoQueries, t)) = 0
    BY <2>1, QueriesAssumption, SumOfZeros
  <2> QED BY <2>2 DEF Remind!NoTerms
<1> QED BY <1>1, <1>2

IsCountOf(model, cnt, t) == model[t] = SumOver(Query, Share(cnt, t))

LEMMA OneMoreItem ==
  ASSUME NEW cnt \in [Query -> Nat], NEW q \in Query, NEW freq \in Nat, NEW model, NEW t,
         t \in Remind!Term \cap Chinese, IsCountOf(model, cnt, t),
         NEW more, more = [cnt EXCEPT ![q] = @ + freq]
  PROVE  IsCountOf(Remind!CountTerms(model, q, freq), more, t)
<1> DEFINE d == freq * OccursIn(q, t)
<1>1. Remind!CountTerms(model, q, freq)[t] = model[t] + d
  BY DEF Remind!CountTerms, OccursIn
<1>2. d \in Int /\ OccursIn(q, t) \in Nat
  BY OccursType
<1>3. more \in [Query -> Nat] /\ more[q] = cnt[q] + freq /\ \A r \in Query \ {q} : more[r] = cnt[r]
  OBVIOUS
<1>4. \A r \in Query : Share(cnt, t)[r] \in Int /\ Share(cnt, t)[r] = cnt[r] * OccursIn(r, t)
  BY ShareType
<1>5. \A r \in Query : Share(more, t)[r] \in Int /\ Share(more, t)[r] = more[r] * OccursIn(r, t)
  BY <1>3, ShareType
<1>6. Share(more, t)[q] = Share(cnt, t)[q] + d
  <2>1. Share(more, t)[q] = (cnt[q] + freq) * OccursIn(q, t)
    BY <1>3, <1>5
  <2>2. cnt[q] \in Nat
    OBVIOUS
  <2>3. (cnt[q] + freq) * OccursIn(q, t) = cnt[q] * OccursIn(q, t) + freq * OccursIn(q, t)
    BY <1>2, <2>2
  <2> QED BY <1>4, <2>1, <2>3
<1>7. \A r \in Query \ {q} : Share(more, t)[r] = Share(cnt, t)[r]
  BY <1>3, <1>4, <1>5
<1> HIDE DEF d
<1>8. SumOver(Query, Share(more, t)) = SumOver(Query, Share(cnt, t)) + d
  <2> DEFINE w == Share(cnt, t)
             u == Share(more, t)
  <2>1. RaisedAt(u, w, Query, q, d) /\ IsFiniteSet(Query)
    BY <1>2, <1>4, <1>6, <1>7, QueriesAssumption DEF RaisedAt
  <2> HIDE DEF w, u
  <2>2. SumOver(Query, u) = SumOver(Query, w) + d
    BY <2>1, SumRaised
  <2> QED BY <2>2 DEF w, u
<1> QED BY <1>1, <1>8 DEF IsCountOf

LEMMA CountsKept ==
  ASSUME CountsOK, [Remind!Next]_(Remind!vars)
  PROVE  CountsOK'
<1>1. ASSUME NEW q \in Query, NEW freq \in 1 .. 2, NEW isLatestTimeId \in BOOLEAN,
             Remind!IndexItem(q, freq, isLatestTimeId)
      PROVE  CountsOK'
  <2>0. stopped' = stopped /\ freq \in Nat
    BY <1>1 DEF Remind!IndexItem
  <2>1. CASE isLatestTimeId
    <3>1. /\ latestSliceLangModel_' = Remind!CountTerms(latestSliceLangModel_, q, freq)
          /\ latestSliceCount_' = [latestSliceCount_ EXCEPT ![q] = @ + freq]
          /\ periodLangModel_' = periodLangModel_ /\ periodCount_' = periodCount_
      BY <1>1, <2>1 DEF Remind!IndexItem
    <3>2. latestSliceCount_' \in [Query -> Nat] /\ latestSliceCount_ \in [Query -> Nat]
      BY <2>0, <3>1 DEF CountsOK
    <3>3. ASSUME ~stopped, NEW t \in Remind!Term \cap Chinese
          PROVE  latestSliceLangModel_'[t] = SumOver(Query, Share(latestSliceCount_, t))'
      <4>1. latestSliceLangModel_[t] = SumOver(Query, Share(latestSliceCount_, t))
        BY <3>3 DEF CountsOK
      <4> DEFINE more == latestSliceCount_'
      <4>2. IsCountOf(Remind!CountTerms(latestSliceLangModel_, q, freq), more, t)
        <5>1. more = [latestSliceCount_ EXCEPT ![q] = @ + freq] /\ IsCountOf(latestSliceLangModel_, latestSliceCount_, t)
          BY <3>1, <4>1 DEF IsCountOf
        <5> HIDE DEF more
        <5> QED BY <2>0, <3>2, <3>3, <5>1, OneMoreItem
      <4>3. SumOver(Query, Share(latestSliceCount_, t))' = SumOver(Query, Share(more, t))
        BY DEF Share, OccursIn
      <4> QED BY <3>1, <4>2, <4>3 DEF IsCountOf
    <3> QED
      <4>1. \A t : SumOver(Query, Share(periodCount_, t))' = SumOver(Query, Share(periodCount_, t))
        BY <3>1 DEF Share, OccursIn
      <4> QED BY <2>0, <3>1, <3>2, <3>3, <4>1 DEF CountsOK
  <2>2. CASE ~isLatestTimeId
    <3>1. /\ periodLangModel_' = Remind!CountTerms(periodLangModel_, q, freq)
          /\ periodCount_' = [periodCount_ EXCEPT ![q] = @ + freq]
          /\ latestSliceLangModel_' = latestSliceLangModel_ /\ latestSliceCount_' = latestSliceCount_
      BY <1>1, <2>2 DEF Remind!IndexItem
    <3>2. periodCount_' \in [Query -> Nat] /\ periodCount_ \in [Query -> Nat]
      BY <2>0, <3>1 DEF CountsOK
    <3>3. ASSUME ~stopped, NEW t \in Remind!Term \cap Chinese
          PROVE  periodLangModel_'[t] = SumOver(Query, Share(periodCount_, t))'
      <4>1. periodLangModel_[t] = SumOver(Query, Share(periodCount_, t))
        BY <3>3 DEF CountsOK
      <4> DEFINE more == periodCount_'
      <4>2. IsCountOf(Remind!CountTerms(periodLangModel_, q, freq), more, t)
        <5>1. more = [periodCount_ EXCEPT ![q] = @ + freq] /\ IsCountOf(periodLangModel_, periodCount_, t)
          BY <3>1, <4>1 DEF IsCountOf
        <5> HIDE DEF more
        <5> QED BY <2>0, <3>2, <3>3, <5>1, OneMoreItem
      <4>3. SumOver(Query, Share(periodCount_, t))' = SumOver(Query, Share(more, t))
        BY DEF Share, OccursIn
      <4> QED BY <3>1, <4>2, <4>3 DEF IsCountOf
    <3> QED
      <4>1. \A t : SumOver(Query, Share(latestSliceCount_, t))' = SumOver(Query, Share(latestSliceCount_, t))
        BY <3>1 DEF Share, OccursIn
      <4> QED BY <2>0, <3>1, <3>2, <3>3, <4>1 DEF CountsOK
  <2> QED BY <2>1, <2>2
<1>2. ASSUME UNCHANGED <<periodCount_, latestSliceCount_>>,
             UNCHANGED <<periodLangModel_, latestSliceLangModel_, stopped>> \/ stopped'
      PROVE  CountsOK'
  <2>1. \A t : /\ SumOver(Query, Share(periodCount_, t))' = SumOver(Query, Share(periodCount_, t))
               /\ SumOver(Query, Share(latestSliceCount_, t))' = SumOver(Query, Share(latestSliceCount_, t))
    BY <1>2 DEF Share, OccursIn
  <2> QED BY <1>2, <2>1 DEF CountsOK
<1>3. ASSUME Remind!cleanData PROVE CountsOK'
  <2>1. /\ periodCount_' = Remind!NoQueries /\ latestSliceCount_' = Remind!NoQueries
        /\ periodLangModel_' = Remind!NoTerms /\ latestSliceLangModel_' = Remind!NoTerms
    BY <1>3 DEF Remind!cleanData
  <2>2. \A t : /\ SumOver(Query, Share(periodCount_, t))' = SumOver(Query, Share(Remind!NoQueries, t))
               /\ SumOver(Query, Share(latestSliceCount_, t))' = SumOver(Query, Share(Remind!NoQueries, t))
    BY <2>1 DEF Share, OccursIn
  <2> QED BY <2>1, <2>2, NothingCounted DEF CountsOK
<1>4. CASE Remind!indexPopularQuery \/ Remind!indexRealTimeQuery
  BY <1>2, <1>4 DEF Remind!indexPopularQuery, Remind!indexRealTimeQuery, Remind!counts
<1>5. CASE Remind!FlushAndClean \/ Remind!Restart
  BY <1>3, <1>5 DEF Remind!FlushAndClean, Remind!Restart
<1>6. CASE Remind!Crash
  BY <1>2, <1>6 DEF Remind!Crash
<1>7. CASE UNCHANGED Remind!vars
  BY <1>2, <1>7 DEF Remind!vars, Remind!counts
<1> QED BY <1>1, <1>4, <1>5, <1>6, <1>7 DEF Remind!Next

LEMMA PartsRunReminder == PartsSpec => Remind!Spec
<1>1. PartsInit => Remind!Init BY DEF PartsInit
<1>2. [PartsNext]_partsVars => [Remind!Next]_(Remind!vars)
  BY DEF PartsNext, partsVars, remindVars, Remind!vars, Remind!counts
<1> QED BY <1>1, <1>2, PTL DEF PartsSpec, Remind!Spec

(* As long as no stop has kept the destructor from running, the terms in   *)
(* memory are counted as the queries in the databases are, over any logs,  *)
(* rankings and restarts (indexQueryLog, cleanData).                       *)
THEOREM TermsAreCountedAlike == PartsSpec => []TermsHaveCountsOfQueries
<1>1. Remind!Init => CountsOK
  <2> SUFFICES ASSUME Remind!Init PROVE CountsOK
    OBVIOUS
  <2> QED BY NothingCounted DEF Remind!Init, CountsOK
<1>2. CountsOK => TermsHaveCountsOfQueries
  <2> SUFFICES ASSUME CountsOK, ~stopped, NEW t \in Remind!Term \cap Chinese
               PROVE  /\ periodLangModel_[t] = Total(periodCount_, t)
                      /\ latestSliceLangModel_[t] = Total(latestSliceCount_, t)
    BY DEF TermsHaveCountsOfQueries, Remind!TermsHaveCountsOfQueries, Total
  <2> QED BY TotalIsSum DEF CountsOK
<1> QED BY <1>1, <1>2, CountsKept, PartsRunReminder, PTL DEF Remind!Spec

-----------------------------------------------------------------------------
(* The queries kept of a list of candidates, as far as it was gone         *)
(* through: pick[i] is the place of the i-th of them.                      *)
Related(q, r) == Remind!ToSet(q) \cap Remind!ToSet(r) # {}

KeptAs(sel, pick, order, num, l) ==
  /\ pick \in Picks(Len(sel), l)
  /\ \A i \in 1 .. Len(sel) : sel[i] = order[pick[i]]
  /\ \A i, j \in 1 .. Len(sel) : i # j => ~Related(sel[i], sel[j])
  /\ \A n \in 1 .. l :
       \/ \E i \in 1 .. Len(sel) : pick[i] = n
       \/ \E i \in 1 .. Len(sel) : pick[i] < n /\ Related(order[n], sel[i])
       \/ Len(sel) = num /\ \A i \in 1 .. Len(sel) : pick[i] < n

BestOf(sel, order, num, l) ==
  sel \in Seq(Query) /\ Len(sel) <= num /\ \E pick : KeptAs(sel, pick, order, num, l)

Step(sel, q, num) ==
  IF Len(sel) < num /\ ~Remind!isDuplicate(q, sel) THEN Append(sel, q) ELSE sel

LEMMA StepKeepsBest ==
  ASSUME NEW num \in Nat, NEW l \in Nat \ {0}, NEW order, order[l] \in Query,
         NEW sel, BestOf(sel, order, num, l - 1)
  PROVE  BestOf(Step(sel, order[l], num), order, num, l)
<1> DEFINE m == Len(sel)
           q == order[l]
<1>0. sel \in Seq(Query) /\ m \in Nat /\ m <= num
  BY DEF BestOf
<1>1. PICK pick : KeptAs(sel, pick, order, num, l - 1)
  BY DEF BestOf
<1>2. /\ pick \in [1 .. m -> 1 .. l - 1] /\ \A i, j \in 1 .. m : i < j => pick[i] < pick[j]
      /\ \A i \in 1 .. m : sel[i] = order[pick[i]]
      /\ \A i, j \in 1 .. m : i # j => ~Related(sel[i], sel[j])
      /\ \A n \in 1 .. l - 1 :
           \/ \E i \in 1 .. m : pick[i] = n
           \/ \E i \in 1 .. m : pick[i] < n /\ Related(order[n], sel[i])
           \/ m = num /\ \A i \in 1 .. m : pick[i] < n
  BY <1>1 DEF KeptAs, Picks
<1>3. Remind!isDuplicate(q, sel) <=> \E i \in 1 .. m : Related(q, sel[i])
  BY <1>0 DEF Remind!isDuplicate, Related
<1>4. \A i \in 1 .. m : pick[i] \in Nat /\ pick[i] < l /\ pick[i] \in 1 .. l
  BY <1>2
<1>5. CASE m < num /\ ~Remind!isDuplicate(q, sel)
  <2> DEFINE new == Append(sel, q)
             more == [i \in 1 .. m + 1 |-> IF i = m + 1 THEN l ELSE pick[i]]
  <2>1. /\ new \in Seq(Query) /\ Len(new) = m + 1 /\ new[m + 1] = q /\ \A i \in 1 .. m : new[i] = sel[i]
    BY <1>0
  <2>2. /\ more \in [1 .. m + 1 -> 1 .. l] /\ more[m + 1] = l /\ \A i \in 1 .. m : more[i] = pick[i]
    BY <1>0, <1>4
  <2>3. \A i \in 1 .. m + 1 : i = m + 1 \/ i \in 1 .. m
    BY <1>0
  <2>4. m + 1 \in 1 .. m + 1 /\ m + 1 \notin 1 .. m /\ \A i \in 1 .. m : i \in 1 .. m + 1 /\ i < m + 1
    BY <1>0
  <2> HIDE DEF new, more, m
  <2>5. \A i, j \in 1 .. m + 1 : i < j => more[i] < more[j]
    <3> SUFFICES ASSUME NEW i \in 1 .. m + 1, NEW j \in 1 .. m + 1, i < j PROVE more[i] < more[j]
      OBVIOUS
    <3>1. i \in 1 .. m
      BY <1>0
    <3>2. CASE j = m + 1
      BY <1>4, <2>2, <3>1, <3>2
    <3>3. CASE j \in 1 .. m
      BY <1>2, <2>2, <3>1, <3>3
    <3> QED BY <2>3, <3>2, <3>3
  <2>6. \A i \in 1 .. m + 1 : new[i] = order[more[i]]
    BY <1>2, <2>1, <2>2, <2>3
  <2>7. \A i, j \in 1 .. m + 1 : i # j => ~Related(new[i], new[j])
    <3> SUFFICES ASSUME NEW i \in 1 .. m + 1, NEW j \in 1 .. m + 1, i # j PROVE ~Related(new[i], new[j])
      OBVIOUS
    <3>1. \A r : Related(r, q) <=> Related(q, r)
      BY DEF Related
    <3>2. \A x \in 1 .. m : ~Related(q, sel[x])
      BY <1>3, <1>5
    <3> HIDE DEF q
    <3> QED BY <1>2, <2>1, <2>3, <3>1, <3>2
  <2>8. ASSUME NEW n \in 1 .. l
        PROVE  \/ \E i \in 1 .. m + 1 : more[i] = n
               \/ \E i \in 1 .. m + 1 : more[i] < n /\ Related(order[n], new[i])
    <3>1. CASE n = l
      BY <2>2, <2>4, <3>1
    <3>2. CASE n # l
      <4>1. n \in 1 .. l - 1
        BY <3>2
      <4>2. \/ \E i \in 1 .. m : pick[i] = n
            \/ \E i \in 1 .. m : pick[i] < n /\ Related(order[n], sel[i])
        BY <1>2, <1>5, <4>1
      <4> QED BY <2>1, <2>2, <2>4, <4>2
    <3> QED BY <3>1, <3>2
  <2>9. KeptAs(new, more, order, num, l)
    BY <2>1, <2>2, <2>5, <2>6, <2>7, <2>8 DEF KeptAs, Picks
  <2>10. BestOf(new, order, num, l)
    BY <1>0, <1>5, <2>1, <2>9 DEF BestOf
  <2> QED BY <1>5, <2>10 DEF Step, new, m
<1>6. CASE ~(m < num /\ ~Remind!isDuplicate(q, sel))
  <2>1. ASSUME NEW n \in 1 .. l
        PROVE  \/ \E i \in 1 .. m : pick[i] = n
               \/ \E i \in 1 .. m : pick[i] < n /\ Related(order[n], sel[i])
               \/ m = num /\ \A i \in 1 .. m : pick[i] < n
    <3>1. CASE n = l
      <4>1. CASE Remind!isDuplicate(q, sel)
        BY <1>3, <1>4, <3>1, <4>1
      <4>2. CASE m = num
        BY <1>4, <3>1, <4>2
      <4> QED BY <1>0, <1>6, <4>1, <4>2
    <3>2. CASE n # l
      <4>1. n \in 1 .. l - 1
        BY <3>2
      <4> QED BY <1>2, <4>1
    <3> QED BY <3>1, <3>2
  <2>2. pick \in [1 .. m -> 1 .. l]
    BY <1>2, <1>4
  <2>3. KeptAs(sel, pick, order, num, l)
    BY <1>2, <2>1, <2>2 DEF KeptAs, Picks
  <2> QED BY <1>0, <1>6, <2>3 DEF BestOf, Step
<1> QED BY <1>5, <1>6

(* Candidates is the beginning of the order.                               *)
LEMMA CandidatesAre ==
  ASSUME NEW order \in Seq(Query), NEW num \in Nat
  PROVE  \E l \in 0 .. Len(order) :
           /\ l = Remind!Min({Len(order), num})
           /\ Remind!Candidates(order, num) = [i \in 1 .. l |-> order[i]]
<1> DEFINE l == Remind!Min({Len(order), num})
<1>1. l = Len(order) \/ l = num
  <2>1. \E x \in {Len(order), num} : \A y \in {Len(order), num} : x <= y
    OBVIOUS
  <2>2. l \in {Len(order), num}
    BY <2>1 DEF Remind!Min
  <2> QED BY <2>2
<1>2. l <= Len(order)
  <2>1. \E x \in {Len(order), num} : \A y \in {Len(order), num} : x <= y
    OBVIOUS
  <2> QED BY <2>1 DEF Remind!Min
<1>3. l \in 0 .. Len(order)
  BY <1>1, <1>2
<1>4. Remind!Candidates(order, num) = Remind!Reverse(Remind!Reverse(SubSeq(order, 1, l)))
  BY DEF Remind!Candidates
<1> HIDE DEF l
<1> DEFINE s == [i \in 1 .. l |-> order[i]]
<1>5. SubSeq(order, 1, l) = s
  BY <1>3
<1>6. s \in [1 .. l -> Query] /\ s \in Seq(Query) /\ Len(s) = l /\ \A i \in 1 .. l : s[i] = order[i]
  BY <1>3
<1> HIDE DEF s
<1> DEFINE r == Remind!Reverse(s)
<1>7. r = [i \in 1 .. l |-> s[(l - i) + 1]]
  BY <1>6 DEF Remind!Reverse
<1>8. r \in [1 .. l -> Query]
  BY <1>3, <1>6, <1>7
<1>9. Len(r) = l
  <2> HIDE DEF r
  <2> QED BY <1>3, <1>8
<1>10. Remind!Reverse(r) = [i \in 1 .. l |-> r[(l - i) + 1]]
  <2> HIDE DEF r
  <2> QED BY <1>9 DEF Remind!Reverse
<1>11. \A i \in 1 .. l : r[(l - i) + 1] = s[i]
  <2> SUFFICES ASSUME NEW i \in 1 .. l PROVE r[(l - i) + 1] = s[i]
    OBVIOUS
  <2>1. (l - i) + 1 \in 1 .. l /\ (l - ((l - i) + 1)) + 1 = i
    BY <1>3
  <2> HIDE DEF r
  <2> QED BY <1>7, <2>1
<1>12. [i \in 1 .. l |-> r[(l - i) + 1]] = s
  <2> HIDE DEF r
  <2> QED BY <1>6, <1>11
<1> QED BY <1>3, <1>4, <1>5, <1>10, <1>12 DEF l, s

(* deduplicate keeps the best.                                             *)
LEMMA DeduplicateKeepsBest ==
  ASSUME NEW order \in Seq(Query), NEW num \in Nat, NEW l \in 0 .. Len(order)
  PROVE  BestOf(Remind!deduplicate([i \in 1 .. l |-> order[i]], num), order, num, l)
<1> DEFINE D == 1 .. l
           cand == [i \in D |-> order[i]]
           Satisfies(it) == it = [s \in SUBSET D |->
             IF s = {} THEN <<>>
             ELSE LET x == Remind!Max(s)
                  IN  IF Len(it[s \ {x}]) < num /\ ~Remind!isDuplicate(cand[x], it[s \ {x}])
                      THEN Append(it[s \ {x}], cand[x]) ELSE it[s \ {x}]]
           fold == CHOOSE it : Satisfies(it)
           V == Seq(Query)
           z == <<>>
           c == LastOf(l)
           step == [x \in D |-> [sel \in V |-> Step(sel, order[x], num)]]
<1>1. Remind!deduplicate(cand, num) = fold[D]
  <2>1. DOMAIN cand = D
    OBVIOUS
  <2> HIDE DEF cand, D
  <2> QED BY <2>1 DEF Remind!deduplicate, Remind!FoldLeft, Remind!MapThenFoldSet
<1>2. \A x \in D : order[x] \in Query /\ cand[x] = order[x]
  OBVIOUS
<1>3. \A x \in D, sel \in V : Step(sel, order[x], num) \in V /\ step[x][sel] = Step(sel, order[x], num)
  BY <1>2 DEF Step
<1>4. FoldData(D, V, z, step, c)
  <2>1. IsFiniteSet(D) /\ IsChoice(c, D)
    BY FS_Interval, LastIsChoice
  <2>2. step \in [D -> [V -> V]]
    BY <1>3
  <2>3. z \in V
    OBVIOUS
  <2> HIDE DEF D, V, z, c, step
  <2> QED BY <2>1, <2>2, <2>3 DEF FoldData
<1>5. \A s \in SUBSET D : s # {} => c[s] = Remind!Max(s) /\ c[s] \in D
  <2>1. IsChoice(c, D)
    BY LastIsChoice
  <2>2. \A s \in SUBSET D : c[s] = Remind!Max(s)
    BY DEF LastOf, Remind!Max
  <2> HIDE DEF c, D
  <2> QED BY <2>1, <2>2 DEF IsChoice
<1> HIDE DEF cand, c, step
<1>6. \E it : Satisfies(it)
  <2>1. PICK it \in [SUBSET D -> V] : IsFold(it, D, z, step, c)
    <3> HIDE DEF D, V, z
    <3> QED BY <1>4, FoldExists
  <2>2. ASSUME NEW s \in SUBSET D, s # {}
        PROVE  it[s] = LET x == Remind!Max(s)
                       IN  IF Len(it[s \ {x}]) < num /\ ~Remind!isDuplicate(cand[x], it[s \ {x}])
                           THEN Append(it[s \ {x}], cand[x]) ELSE it[s \ {x}]
    <3> DEFINE x == Remind!Max(s)
    <3>1. x = c[s] /\ x \in D /\ it[s \ {x}] \in V
      BY <1>5, <2>1, <2>2
    <3>2. it[s] = step[x][it[s \ {x}]]
      BY <2>1, <2>2, <3>1 DEF IsFold
    <3> HIDE DEF x, D, V
    <3> QED BY <1>2, <1>3, <3>1, <3>2 DEF Step, x
  <2>3. it[{}] = z
    BY <2>1 DEF IsFold
  <2>4. it = [s \in SUBSET D |-> it[s]]
    OBVIOUS
  <2> HIDE DEF D
  <2>5. Satisfies(it)
    BY <2>2, <2>3, <2>4
  <2> QED BY <2>5
<1>7. Satisfies(fold)
  <2> HIDE DEF Satisfies
  <2> QED BY <1>6
<1>8. fold[{}] = <<>>
  BY <1>7
<1>9. ASSUME NEW n \in 1 .. l
      PROVE  fold[1 .. n] = Step(fold[1 .. n - 1], order[n], num)
  <2>1. /\ 1 .. n \in SUBSET D /\ 1 .. n # {} /\ Remind!Max(1 .. n) = n /\ (1 .. n) \ {n} = 1 .. n - 1
        /\ n \in D /\ n \in 1 .. n
    <3>1. l \in Nat
      OBVIOUS
    <3>2. Remind!Max(1 .. n) = n
      BY <3>1, LastIsChoice DEF LastOf, Remind!Max
    <3>3. n \in Nat /\ 1 <= n /\ n <= l
      BY <3>1
    <3>4. 1 .. n \in SUBSET (1 .. l) /\ n \in 1 .. n /\ n \in 1 .. l /\ (1 .. n) \ {n} = 1 .. n - 1
      BY <3>1, <3>3
    <3> QED BY <3>2, <3>4
  <2> DEFINE s == 1 .. n
  <2>2. fold[s] = LET x == Remind!Max(s)
               IN  IF Len(fold[s \ {x}]) < num /\ ~Remind!isDuplicate(cand[x], fold[s \ {x}])
                   THEN Append(fold[s \ {x}], cand[x]) ELSE fold[s \ {x}]
    <3>1. s \in SUBSET D /\ s # {}
      BY <2>1
    <3> HIDE DEF s, fold
    <3> QED BY <1>7, <3>1
  <2>3. s \ {Remind!Max(s)} = 1 .. n - 1 /\ Remind!Max(s) = n /\ cand[n] = order[n]
    BY <1>2, <2>1
  <2> HIDE DEF fold, s
  <2>4. fold[s \ {Remind!Max(s)}] = fold[1 .. n - 1]
    BY <2>3, Zenon
  <2> QED BY <2>2, <2>3, <2>4 DEF Step, s
<1> DEFINE T == {n \in 0 .. l : BestOf(fold[1 .. n], order, num, n)}
<1>10. 0 \in T
  <2>1. 1 .. 0 = {}
    OBVIOUS
  <2>2. fold[1 .. 0] = <<>>
    <3> HIDE DEF fold
    <3> QED BY <1>8, <2>1, Zenon
  <2>3. BestOf(<<>>, order, num, 0)
    <3>1. KeptAs(<<>>, <<>>, order, num, 0)
      BY DEF KeptAs, Picks
    <3> QED BY <3>1 DEF BestOf
  <2> HIDE DEF fold
  <2> QED BY <2>2, <2>3
<1>11. ASSUME NEW n \in 1 .. l, n - 1 \in T PROVE n \in T
  <2> HIDE DEF fold
  <2>1. BestOf(fold[1 .. n - 1], order, num, n - 1)
    BY <1>11
  <2>2. n \in Nat \ {0} /\ order[n] \in Query /\ n \in 0 .. l
    BY <1>2
  <2>3. BestOf(Step(fold[1 .. n - 1], order[n], num), order, num, n)
    BY <2>1, <2>2, StepKeepsBest
  <2> QED BY <1>9, <2>2, <2>3
<1>12. 0 .. l \subseteq T
  <2> HIDE DEF T
  <2> QED BY <1>10, <1>11, UpToInduction
<1>13. BestOf(fold[D], order, num, l)
  <2> HIDE DEF fold
  <2>1. l \in T
    BY <1>12
  <2> QED BY <2>1
<1> HIDE DEF fold
<1> QED BY <1>1, <1>13 DEF cand

-----------------------------------------------------------------------------
(* An order has each query once.                                           *)
Rank(order, q) == CHOOSE n \in DOMAIN order : order[n] = q

LEMMA OrderRanks ==
  ASSUME NEW S \in SUBSET Query, NEW order \in Remind!Orders(S)
  PROVE  /\ order \in Seq(Query)
         /\ \A n \in 1 .. Len(order) : Rank(order, order[n]) = n
<1>0. Remind!Cardinality(S) = Cardinality(S)
  BY DEF Remind!Cardinality, Cardinality
<1>1. IsFiniteSet(S)
  BY QueriesAssumption, FS_Subset
<1> DEFINE N == Cardinality(S)
<1>2. N \in Nat
  BY <1>1, FS_CardinalityType
<1>3. order \in [1 .. N -> S] /\ \A q \in S : \E n \in 1 .. N : order[n] = q
  BY <1>0 DEF Remind!Orders, Remind!ToSet
<1> HIDE DEF N
<1>4. order \in Surjection(1 .. N, S)
  BY <1>3 DEF Surjection
<1>5. IsFiniteSet(1 .. N) /\ Cardinality(1 .. N) = N
  BY <1>2, FS_Interval
<1>6. Cardinality(1 .. N) = Cardinality(S)
  BY <1>5 DEF N
<1>7. order \in Injection(1 .. N, S)
  BY <1>4, <1>5, <1>6, FS_SurjSameCardinalityImpliesInj
<1>8. \A a, b \in 1 .. N : order[a] = order[b] => a = b
  BY <1>3, <1>7 DEF Injection, IsInjective
<1>9. order \in Seq(Query) /\ Len(order) = N /\ DOMAIN order = 1 .. N
  BY <1>2, <1>3
<1>10. ASSUME NEW n \in 1 .. N PROVE Rank(order, order[n]) = n
  <2>1. \E x \in DOMAIN order : order[x] = order[n]
    BY <1>9
  <2>2. Rank(order, order[n]) \in DOMAIN order /\ order[Rank(order, order[n])] = order[n]
    BY <2>1 DEF Rank
  <2> QED BY <1>8, <1>9, <2>2
<1> QED BY <1>9, <1>10

IsBest(sel, order, num, factor) ==
  /\ \A a, b \in DOMAIN sel : a < b =>
       Rank(order, sel[a]) < Rank(order, sel[b]) /\ ~Related(sel[a], sel[b])
  /\ \A n \in 1 .. Remind!Min({Len(order), num * factor}) :
       LET better == {r \in Remind!ToSet(sel) : Rank(order, r) < Rank(order, order[n])}
       IN  \/ order[n] \in Remind!ToSet(sel)
           \/ Remind!Cardinality(better) = num
           \/ \E r \in better : Related(order[n], r)

LEMMA RankedIsBest ==
  ASSUME NEW cnt, NEW num \in Nat, NEW factor \in Nat,
         NEW ranked \in Remind!Ranked(cnt, num, factor)
  PROVE  Remind!BestUnrelated(ranked, num, factor)
<1> DEFINE S == {q \in Query : cnt[q] > 0}
<1>1. PICK order \in Remind!Orders(S) :
        ranked = [queries |-> Remind!deduplicate(Remind!Candidates(order, num * factor), num), order |-> order]
  BY DEF Remind!Ranked
<1>2. order \in Seq(Query) /\ \A n \in 1 .. Len(order) : Rank(order, order[n]) = n
  <2>1. S \in SUBSET Query
    OBVIOUS
  <2> HIDE DEF S
  <2> QED BY <2>1, OrderRanks
<1>3. num * factor \in Nat
  OBVIOUS
<1>4. PICK l \in 0 .. Len(order) :
        /\ l = Remind!Min({Len(order), num * factor})
        /\ Remind!Candidates(order, num * factor) = [i \in 1 .. l |-> order[i]]
  <2> DEFINE most == num * factor
  <2>1. \E l \in 0 .. Len(order) :
          /\ l = Remind!Min({Len(order), most})
          /\ Remind!Candidates(order, most) = [i \in 1 .. l |-> order[i]]
    <3> HIDE DEF most
    <3> QED BY <1>2, <1>3, CandidatesAre DEF most
  <2> QED BY <2>1
<1> DEFINE sel == Remind!deduplicate([i \in 1 .. l |-> order[i]], num)
<1>5. BestOf(sel, order, num, l)
  BY <1>2, DeduplicateKeepsBest
<1>6. ranked.queries = sel /\ ranked.order = order
  BY <1>1, <1>4
<1> HIDE DEF sel
<1> DEFINE m == Len(sel)
<1>7. sel \in Seq(Query) /\ m \in Nat /\ m <= num /\ DOMAIN sel = 1 .. m
  BY <1>5 DEF BestOf
<1>8. PICK pick : KeptAs(sel, pick, order, num, l)
  BY <1>5 DEF BestOf
<1>9. /\ pick \in Picks(m, l) /\ pick \in [1 .. m -> 1 .. l]
      /\ \A i, j \in 1 .. m : i < j => pick[i] < pick[j]
      /\ \A i \in 1 .. m : sel[i] = order[pick[i]]
      /\ \A i, j \in 1 .. m : i # j => ~Related(sel[i], sel[j])
      /\ \A n \in 1 .. l :
           \/ \E i \in 1 .. m : pick[i] = n
           \/ \E i \in 1 .. m : pick[i] < n /\ Related(order[n], sel[i])
           \/ m = num /\ \A i \in 1 .. m : pick[i] < n
  BY <1>8 DEF KeptAs, Picks
<1>10. \A i \in 1 .. m : Rank(order, sel[i]) = pick[i]
  <2>1. \A i \in 1 .. m : pick[i] \in 1 .. Len(order)
    BY <1>9
  <2> QED BY <1>2, <1>9, <2>1
<1>11. ASSUME NEW a \in 1 .. m, NEW b \in 1 .. m, a < b
       PROVE  Rank(order, sel[a]) < Rank(order, sel[b]) /\ ~Related(sel[a], sel[b])
  BY <1>9, <1>10, <1>11
<1> DEFINE chosen == Remind!ToSet(sel)
           better(q) == {r \in chosen : Rank(order, r) < Rank(order, q)}
<1>12. chosen = {sel[i] : i \in 1 .. m}
  BY <1>7 DEF Remind!ToSet
<1>13. ASSUME NEW n \in 1 .. l
       PROVE  \/ order[n] \in chosen
              \/ Remind!Cardinality(better(order[n])) = num
              \/ \E r \in better(order[n]) : Related(order[n], r)
  <2>0. Rank(order, order[n]) = n
    BY <1>2
  <2>1. CASE \E i \in 1 .. m : pick[i] = n
    <3>1. PICK i \in 1 .. m : pick[i] = n
      BY <2>1
    <3>2. order[n] = sel[i]
      BY <1>9, <3>1
    <3> QED BY <1>12, <3>2
  <2>2. CASE \E i \in 1 .. m : pick[i] < n /\ Related(order[n], sel[i])
    <3>1. PICK i \in 1 .. m : pick[i] < n /\ Related(order[n], sel[i])
      BY <2>2
    <3>2. sel[i] \in better(order[n])
      BY <1>10, <1>12, <2>0, <3>1
    <3> QED BY <3>1, <3>2
  <2>3. CASE m = num /\ \A i \in 1 .. m : pick[i] < n
    <3>1. better(order[n]) = chosen
      <4>1. \A i \in 1 .. m : Rank(order, sel[i]) < n
        BY <1>10, <2>3
      <4> QED BY <1>12, <2>0, <4>1
    <3>2. Cardinality(chosen) = m
      <4>1. \A a, b \in 1 .. m : sel[a] = sel[b] => a = b
        <5> SUFFICES ASSUME NEW a \in 1 .. m, NEW b \in 1 .. m, sel[a] = sel[b], a # b PROVE FALSE
          OBVIOUS
        <5>1. pick[a] = pick[b]
          BY <1>10
        <5>2. (a < b \/ b < a) /\ pick[a] \in Nat /\ pick[b] \in Nat
          BY <1>9
        <5> QED BY <1>9, <5>1, <5>2
      <4>2. sel \in [1 .. m -> chosen]
        <5>1. sel = [i \in 1 .. m |-> sel[i]]
          BY <1>7
        <5> HIDE DEF m
        <5> QED BY <1>12, <5>1
      <4>3. \A s \in chosen : \E i \in 1 .. m : sel[i] = s
        BY <1>12
      <4> HIDE DEF chosen, m
      <4>4. sel \in Bijection(1 .. m, chosen)
        BY <4>1, <4>2, <4>3 DEF Bijection, Injection, Surjection, IsInjective
      <4>5. ExistsBijection(1 .. m, chosen)
        BY <4>4 DEF ExistsBijection
      <4> QED BY <1>7, <4>5, FS_CountingElements
    <3>3. Remind!Cardinality(chosen) = Cardinality(chosen)
      BY DEF Remind!Cardinality, Cardinality
    <3> HIDE DEF better, chosen
    <3> QED BY <2>3, <3>1, <3>2, <3>3
  <2> HIDE DEF better, chosen
  <2> QED BY <1>9, <2>1, <2>2, <2>3
<1> HIDE DEF m
<1>14. \A a, b \in DOMAIN sel : a < b =>
         Rank(order, sel[a]) < Rank(order, sel[b]) /\ ~Related(sel[a], sel[b])
  BY <1>7, <1>11
<1>15. \A n \in 1 .. Remind!Min({Len(order), num * factor}) :
         \/ order[n] \in chosen
         \/ Remind!Cardinality(better(order[n])) = num
         \/ \E r \in better(order[n]) : Related(order[n], r)
  <2> HIDE DEF chosen, better
  <2> QED BY <1>4, <1>13
<1>16. IsBest(sel, order, num, factor)
  BY <1>14, <1>15 DEF IsBest
<1>17. IsBest(ranked.queries, ranked.order, num, factor) => Remind!BestUnrelated(ranked, num, factor)
  BY DEF IsBest, Remind!BestUnrelated, Related, Rank
<1>18. IsBest(ranked.queries, ranked.order, num, factor)
  BY <1>6, <1>16, Zenon
<1> QED BY <1>17, <1>18

BestIndex(index) ==
  /\ index = [popular |-> index.popular, realtime |-> index.realtime]
  /\ Remind!BestUnrelated(index.popular, popularNum_, PopularFactor)
  /\ Remind!BestUnrelated(index.realtime, realTimeNum_, RealTimeFactor)

RemindInv == BestIndex(remindQueryIndex_) /\ BestIndex(committed)

LEMMA NoneIsBest == BestIndex(Remind!NoReminders)
<1> DEFINE none == [queries |-> <<>>, order |-> <<>>]
<1>1. ASSUME NEW num \in Nat, NEW factor \in Nat PROVE Remind!BestUnrelated(none, num, factor)
  <2> DEFINE most == num * factor
  <2>1. most \in Nat /\ <<>> \in Seq(Query) /\ Len(<<>>) = 0
    OBVIOUS
  <2>2. \E l \in 0 .. Len(<<>>) :
          /\ l = Remind!Min({Len(<<>>), most})
          /\ Remind!Candidates(<<>>, most) = [i \in 1 .. l |-> <<>>[i]]
    <3> HIDE DEF most
    <3> QED BY <2>1, CandidatesAre
  <2>3. Remind!Min({Len(<<>>), most}) = 0
    <3> HIDE DEF most
    <3> QED BY <2>1, <2>2
  <2>4. none.queries = <<>> /\ none.order = <<>>
    OBVIOUS
  <2>5. (\A n \in 1 .. 0 : FALSE) /\ DOMAIN <<>> = {}
    OBVIOUS
  <2>6. IsBest(<<>>, <<>>, num, factor)
    BY <2>3, <2>5 DEF IsBest
  <2>7. IsBest(none.queries, none.order, num, factor)
    <3> HIDE DEF none
    <3> QED BY <2>4, <2>6, Zenon
  <2>8. IsBest(none.queries, none.order, num, factor) => Remind!BestUnrelated(none, num, factor)
    BY DEF IsBest, Remind!BestUnrelated, Related, Rank
  <2> QED BY <2>7, <2>8
<1>2. Remind!NoReminders = [popular |-> none, realtime |-> none]
  BY DEF Remind!NoReminders
<1> HIDE DEF none
<1>3. Remind!NoReminders.popular = none /\ Remind!NoReminders.realtime = none
  BY <1>2
<1> QED BY <1>1, <1>2, <1>3, QueriesAssumption DEF BestIndex

LEMMA RemindersKept ==
  ASSUME RemindInv, [Remind!Next]_(Remind!vars)
  PROVE  RemindInv'
<1>0. \A index : BestIndex(index) <=>
        /\ index = [popular |-> index.popular, realtime |-> index.realtime]
        /\ Remind!BestUnrelated(index.popular, popularNum_, PopularFactor)
        /\ Remind!BestUnrelated(index.realtime, realTimeNum_, RealTimeFactor)
  BY DEF BestIndex
<1>1. BestIndex(remindQueryIndex_) /\ BestIndex(committed)
  BY DEF RemindInv
<1>2. RemindInv' <=> BestIndex(remindQueryIndex_') /\ BestIndex(committed')
  BY DEF RemindInv, BestIndex, Remind!BestUnrelated
<1>3. CASE Remind!indexPopularQuery
  <2>1. PICK ranked \in Remind!Ranked(periodCount_, popularNum_, PopularFactor) :
          remindQueryIndex_' = [remindQueryIndex_ EXCEPT !.popular = ranked]
    BY <1>3 DEF Remind!indexPopularQuery
  <2>2. committed' = committed
    BY <1>3 DEF Remind!indexPopularQuery
  <2>3. Remind!BestUnrelated(ranked, popularNum_, PopularFactor)
    BY QueriesAssumption, RankedIsBest
  <2> DEFINE old == remindQueryIndex_.realtime
             new == remindQueryIndex_'
  <2>4. new = [popular |-> ranked, realtime |-> old]
    BY <1>0, <1>1, <2>1
  <2> HIDE DEF new
  <2>5. new.popular = ranked /\ new.realtime = old
    BY <2>4
  <2>6. BestIndex(new)
    BY <1>0, <1>1, <2>3, <2>4, <2>5
  <2> QED BY <1>1, <1>2, <2>2, <2>6 DEF new
<1>4. CASE Remind!indexRealTimeQuery
  <2>1. PICK ranked \in Remind!Ranked(latestSliceCount_, realTimeNum_, RealTimeFactor) :
          remindQueryIndex_' = [remindQueryIndex_ EXCEPT !.realtime = ranked]
    BY <1>4 DEF Remind!indexRealTimeQuery
  <2>2. committed' = committed
    BY <1>4 DEF Remind!indexRealTimeQuery
  <2>3. Remind!BestUnrelated(ranked, realTimeNum_, RealTimeFactor)
    BY QueriesAssumption, RankedIsBest
  <2> DEFINE old == remindQueryIndex_.popular
             new == remindQueryIndex_'
  <2>4. new = [popular |-> old, realtime |-> ranked]
    BY <1>0, <1>1, <2>1
  <2> HIDE DEF new
  <2>5. new.realtime = ranked /\ new.popular = old
    BY <2>4
  <2>6. BestIndex(new)
    BY <1>0, <1>1, <2>3, <2>4, <2>5
  <2> QED BY <1>1, <1>2, <2>2, <2>6 DEF new
<1>5. CASE Remind!Crash
  <2>1. PICK popular \in {remindQueryIndex_.popular, committed.popular},
             realtime \in {remindQueryIndex_.realtime, committed.realtime} :
          remindQueryIndex_' = [popular |-> popular, realtime |-> realtime]
    BY <1>5 DEF Remind!Crash
  <2>2. committed' = remindQueryIndex_'
    BY <1>5 DEF Remind!Crash
  <2> DEFINE new == remindQueryIndex_'
  <2>3. new = [popular |-> popular, realtime |-> realtime]
    BY <2>1
  <2> HIDE DEF new
  <2>4. new.popular = popular /\ new.realtime = realtime
    BY <2>3
  <2>5. /\ Remind!BestUnrelated(popular, popularNum_, PopularFactor)
        /\ Remind!BestUnrelated(realtime, realTimeNum_, RealTimeFactor)
    BY <1>0, <1>1, <2>1
  <2>6. BestIndex(new)
    BY <1>0, <2>3, <2>4, <2>5
  <2> QED BY <1>2, <2>2, <2>6 DEF new
<1>6. CASE Remind!FlushAndClean \/ Remind!Restart
  <2>1. committed' = remindQueryIndex_ /\ remindQueryIndex_' = remindQueryIndex_
    BY <1>6 DEF Remind!FlushAndClean, Remind!Restart
  <2> QED BY <1>1, <1>2, <2>1
<1>7. ASSUME NEW q \in Query, NEW freq \in 1 .. 2, NEW isLatestTimeId \in BOOLEAN,
             Remind!IndexItem(q, freq, isLatestTimeId)
      PROVE  RemindInv'
  <2>1. committed' = committed /\ remindQueryIndex_' = remindQueryIndex_
    BY <1>7 DEF Remind!IndexItem
  <2> QED BY <1>1, <1>2, <2>1
<1>8. CASE UNCHANGED Remind!vars
  <2>1. committed' = committed /\ remindQueryIndex_' = remindQueryIndex_
    BY <1>8 DEF Remind!vars
  <2> QED BY <1>1, <1>2, <2>1
<1> QED BY <1>3, <1>4, <1>5, <1>6, <1>7, <1>8 DEF Remind!Next

(* The reminders are in descending order of score, share no term, and of   *)
(* the best queries none is left out but for better ones, through rankings *)
(* that are interrupted and restarts (indexPopularQuery,                   *)
(* indexRealTimeQuery, deduplicate).                                       *)
THEOREM RemindersAreTheBest == PartsSpec => []RemindersAreBest
<1>1. Remind!Init => RemindInv
  BY NoneIsBest DEF Remind!Init, RemindInv
<1>2. RemindInv => RemindersAreBest
  BY DEF RemindInv, BestIndex, RemindersAreBest, Remind!RemindersAreBest
<1> QED BY <1>1, <1>2, RemindersKept, PartsRunReminder, PTL DEF Remind!Spec
=============================================================================
