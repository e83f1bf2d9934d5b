----------------------------- MODULE RecentsProofs -----------------------------
(***************************************************************************)
(* Theorems about Recents, for any number of processes, specs and hand     *)
(* edits, any cap, and without regard to the bound.                        *)
(*                                                                         *)
(* What should be listed is not any part of the list but its front: that   *)
(* is what survives a cap that pushes entries off the other end.  What has *)
(* been forgotten is in neither the file nor the memory of who forgot it,  *)
(* so that it cannot come back from either.                                *)
(***************************************************************************)
EXTENDS Recents, RecentsListFacts

\* What is read of the file, whatever it holds.
LEMMA ReadFileFacts ==
    ASSUME file \in Seq(Specs) \cup {Unreadable}
    PROVE  /\ ReadFile \in Seq(Specs) /\ NoRepeats(ReadFile)
           /\ Entries(ReadFile) = IF file = Unreadable THEN {} ELSE Entries(file)
PROOF
<1>1. CASE file = Unreadable
  <2>1. <<>> \in Seq(Specs) /\ NoRepeats(<<>>) /\ Entries(<<>>) = {}
    BY DEF NoRepeats, Entries
  <2> QED
    BY <1>1, <2>1 DEF ReadFile
<1>2. CASE file # Unreadable
  BY <1>2, DeduplicatedFacts DEF ReadFile
<1> QED
  BY <1>1, <1>2

LEMMA ListFacts ==
    ASSUME TypeOK, NEW p \in Processes
    PROVE  List(p) \in Seq(Specs) /\ NoRepeats(List(p))
PROOF
<1>1. specs[p] \in Seq(Specs) /\ NoRepeats(specs[p]) /\ file \in Seq(Specs) \cup {Unreadable}
  BY DEF TypeOK
<1> QED
  BY <1>1, ReadFileFacts DEF List

(***************************************************************************)
(* Types.                                                                  *)
(***************************************************************************)

LEMMA TypeInit == Init => TypeOK
PROOF
<1> SUFFICES ASSUME Init PROVE TypeOK
  OBVIOUS
<1>1. file \in Seq(Specs) \cup {Unreadable}
  BY EditedAssumption DEF Init
<1>2. kept \subseteq Specs
  BY <1>1, ElementOfSeq DEF Init, Entries
<1>3. <<>> \in Seq(Specs) /\ NoRepeats(<<>>)
  BY DEF NoRepeats
<1>4. /\ specs \in [Processes -> Seq(Specs)] /\ \A p \in Processes : NoRepeats(specs[p])
      /\ emptied \in [Processes -> BOOLEAN] /\ forgotten \in [Processes -> SUBSET Specs]
  BY <1>3 DEF Init
<1>5. /\ doing \in [Processes -> Changes \cup {None}]
      /\ pc \in [Processes -> {"down", "idle", "saving", "writing"}]
      /\ \A p \in Processes : doing[p] # None <=> pc[p] \in {"saving", "writing"}
  BY DEF Init
<1>6. ops \in 0..MaxOps
  BY OpsAssumption DEF Init
<1>7. overlapped \in BOOLEAN
  BY DEF Init
<1> QED
  BY <1>1, <1>2, <1>4, <1>5, <1>6, <1>7 DEF TypeOK

\* A change is begun from a list like any other.
LEMMA BeginKeepsType ==
    ASSUME TypeOK, NEW p \in Processes, NEW change \in Changes, NEW list \in Seq(Specs),
           NoRepeats(list), Begin(p, change, list),
           emptied' \in [Processes -> BOOLEAN], forgotten' \in [Processes -> SUBSET Specs]
    PROVE  TypeOK'
PROOF
<1>1. /\ specs' = [specs EXCEPT ![p] = list] /\ pc' = [pc EXCEPT ![p] = "saving"]
      /\ doing' = [doing EXCEPT ![p] = change] /\ file' = file /\ kept' = kept
      /\ ops < MaxOps /\ ops' = ops + 1
  BY DEF Begin, Counted
<1>2. overlapped' \in BOOLEAN
  BY DEF Begin, Amid, TypeOK
<1>3. /\ specs' \in [Processes -> Seq(Specs)]
      /\ \A q \in Processes : NoRepeats(specs'[q])
  BY <1>1 DEF TypeOK
<1>4. /\ pc' \in [Processes -> {"down", "idle", "saving", "writing"}]
      /\ doing' \in [Processes -> Changes \cup {None}]
      /\ \A q \in Processes : doing'[q] # None <=> pc'[q] \in {"saving", "writing"}
  BY <1>1, MarkersAssumption DEF TypeOK
<1>5. ops' \in 0..MaxOps
  BY <1>1, OpsAssumption DEF TypeOK
<1> QED
  BY <1>1, <1>2, <1>3, <1>4, <1>5 DEF TypeOK

LEMMA TypeStep == TypeOK /\ [Next]_vars => TypeOK'
PROOF
<1> SUFFICES ASSUME TypeOK, [Next]_vars PROVE TypeOK'
  OBVIOUS
<1>0. /\ file \in Seq(Specs) \cup {Unreadable} /\ ops \in 0..MaxOps /\ MaxOps \in Nat
      /\ specs \in [Processes -> Seq(Specs)] /\ forgotten \in [Processes -> SUBSET Specs]
      /\ pc \in [Processes -> {"down", "idle", "saving", "writing"}]
      /\ doing \in [Processes -> Changes \cup {None}] /\ emptied \in [Processes -> BOOLEAN]
      /\ \A q \in Processes : doing[q] # None <=> pc[q] \in {"saving", "writing"}
      /\ \A q \in Processes : NoRepeats(specs[q])
      /\ kept \subseteq Specs /\ overlapped \in BOOLEAN
  BY OpsAssumption DEF TypeOK
<1>1. ASSUME NEW p \in Processes, Start(p) PROVE TypeOK'
  <2>1. specs' \in [Processes -> Seq(Specs)] /\ \A q \in Processes : NoRepeats(specs'[q])
    <3>1. ReadFile \in Seq(Specs) /\ NoRepeats(ReadFile)
      BY <1>0, ReadFileFacts
    <3> QED
      BY <1>0, <1>1, <3>1 DEF Start
  <2>2. /\ pc' \in [Processes -> {"down", "idle", "saving", "writing"}]
        /\ \A q \in Processes : doing'[q] # None <=> pc'[q] \in {"saving", "writing"}
    BY <1>0, <1>1 DEF Start
  <2>3. emptied' \in [Processes -> BOOLEAN] /\ overlapped' \in BOOLEAN
    BY <1>0, <1>1 DEF Start, Amid
  <2> QED
    BY <1>0, <1>1, <2>1, <2>2, <2>3 DEF Start, Counted, TypeOK
<1>2. ASSUME NEW p \in Processes, Stop(p) PROVE TypeOK'
  <2>1. specs' \in [Processes -> Seq(Specs)] /\ \A q \in Processes : NoRepeats(specs'[q])
    <3>1. <<>> \in Seq(Specs) /\ NoRepeats(<<>>)
      BY DEF NoRepeats
    <3> QED
      BY <1>0, <1>2, <3>1 DEF Stop
  <2>2. /\ pc' \in [Processes -> {"down", "idle", "saving", "writing"}]
        /\ doing' \in [Processes -> Changes \cup {None}]
        /\ \A q \in Processes : doing'[q] # None <=> pc'[q] \in {"saving", "writing"}
    BY <1>0, <1>2 DEF Stop
  <2>3. emptied' \in [Processes -> BOOLEAN] /\ kept' \subseteq Specs
    BY <1>0, <1>2 DEF Stop
  <2> QED
    BY <1>0, <1>2, <2>1, <2>2, <2>3 DEF Stop, TypeOK
<1>3. ASSUME NEW p \in Processes, NEW s \in Specs, Record(p, s) PROVE TypeOK'
  <2>1. /\ Recorded(List(p), s, Cap) \in Seq(Specs)
        /\ NoRepeats(Recorded(List(p), s, Cap))
    BY ListFacts, RecordedFacts, CapAssumption
  <2>2. [op |-> "record", spec |-> s] \in Changes
    BY DEF Changes
  <2>3. forgotten' \in [Processes -> SUBSET Specs] /\ emptied' \in [Processes -> BOOLEAN]
    BY <1>0, <1>3 DEF Record
  <2> QED
    BY <1>3, <2>1, <2>2, <2>3, BeginKeepsType DEF Record
<1>4. ASSUME NEW p \in Processes, NEW s \in Specs, Forget(p, s) PROVE TypeOK'
  <2>1. Without(List(p), s) \in Seq(Specs) /\ NoRepeats(Without(List(p), s))
    BY ListFacts, WithoutFacts
  <2>2. [op |-> "forget", spec |-> s] \in Changes
    BY DEF Changes
  <2>3. forgotten' \in [Processes -> SUBSET Specs] /\ emptied' \in [Processes -> BOOLEAN]
    BY <1>0, <1>4 DEF Forget
  <2> QED
    BY <1>4, <2>1, <2>2, <2>3, BeginKeepsType DEF Forget
<1>5. ASSUME NEW p \in Processes, Truncate(p) PROVE TypeOK'
  <2>1. <<>> \in Seq(Specs)
    OBVIOUS
  <2>2. /\ pc' \in [Processes -> {"down", "idle", "saving", "writing"}]
        /\ \A q \in Processes : doing'[q] # None <=> pc'[q] \in {"saving", "writing"}
    BY <1>0, <1>5 DEF Truncate
  <2> QED
    BY <1>0, <1>5, <2>1, <2>2 DEF Truncate, TypeOK
<1>6. ASSUME NEW p \in Processes, Write(p) \/ SaveFails(p) PROVE TypeOK'
  <2>1. /\ pc' \in [Processes -> {"down", "idle", "saving", "writing"}]
        /\ doing' \in [Processes -> Changes \cup {None}]
        /\ \A q \in Processes : doing'[q] # None <=> pc'[q] \in {"saving", "writing"}
        /\ UNCHANGED <<specs, emptied, ops, overlapped>>
    BY <1>0, <1>6 DEF Write, SaveFails, Finish
  <2>2. file' \in Seq(Specs) \cup {Unreadable}
    BY <1>0, <1>6 DEF Write, SaveFails
  <2>3. Write(p) => doing[p] \in Changes
    BY <1>0 DEF Write
  <2>4. Write(p) => doing[p].spec \in Specs
    BY <2>3 DEF Changes
  <2>5. kept' \subseteq Specs
    BY <1>0, <1>6, <2>4 DEF Write, SaveFails, KeptWith
  <2>6. forgotten' \in [Processes -> SUBSET Specs]
    <3>1. PutBack(specs[p]) \in [Processes -> SUBSET Specs] /\ forgotten[p] \in SUBSET Specs
      BY <1>0 DEF PutBack
    <3>2. CASE Write(p)
      BY <2>4, <3>1, <3>2 DEF Write
    <3>3. CASE SaveFails(p)
      BY <1>0, <3>3 DEF SaveFails
    <3> QED
      BY <1>6, <3>2, <3>3
  <2> QED
    BY <1>0, <2>1, <2>2, <2>5, <2>6 DEF TypeOK
<1>7. CASE HandEdit \/ FileLost
  <2>1. file' \in Seq(Specs) \cup {Unreadable}
    BY <1>7, EditedAssumption DEF HandEdit, FileLost
  <2>2. kept' \subseteq Specs
    <3>1. \A l \in Edited : Entries(l) \subseteq Specs
      BY EditedAssumption, ElementOfSeq DEF Entries
    <3> QED
      BY <1>7, <3>1 DEF HandEdit, FileLost
  <2>3. forgotten' \in [Processes -> SUBSET Specs]
    BY <1>0, <1>7 DEF HandEdit, FileLost, PutBack
  <2>4. ops' \in 0..MaxOps
    BY <1>0, <1>7 DEF HandEdit, FileLost, Counted
  <2>5. overlapped' \in BOOLEAN
    BY <1>0, <1>7 DEF HandEdit, FileLost, Amid
  <2> QED
    BY <1>0, <1>7, <2>1, <2>2, <2>3, <2>4, <2>5 DEF HandEdit, FileLost, TypeOK
<1>8. CASE UNCHANGED vars
  BY <1>0, <1>8 DEF vars, TypeOK
<1> QED
  BY <1>1, <1>2, <1>3, <1>4, <1>5, <1>6, <1>7, <1>8 DEF Next

\* Whatever the processes, the hand edits and the failures do, the file and
\* what each process remembers keep their types, and no list repeats a spec.
THEOREM TypeCorrect == Spec => []TypeOK
PROOF
  BY TypeInit, TypeStep, PTL DEF Spec

(***************************************************************************)
(* What has been forgotten.                                                *)
(***************************************************************************)

\* It is in neither place a list is made of, and the save that will forget an
\* entry does not write it.
Gone ==
    \A p \in Processes :
        /\ forgotten[p] \cap Entries(ReadFile) = {}
        /\ forgotten[p] \cap Entries(specs[p]) = {}
        /\ InASave(p) /\ doing[p].op = "forget" => doing[p].spec \notin Entries(specs[p])

\* Where the change is begun, its list has lost what it is to lose.
LEMMA BeginKeepsGone ==
    ASSUME TypeOK, Gone, NEW p \in Processes, NEW change \in Changes, NEW list,
           Begin(p, change, list),
           \A q \in Processes : q # p => forgotten'[q] = forgotten[q],
           forgotten'[p] \subseteq forgotten[p],
           forgotten'[p] \cap Entries(list) = {},
           change.op = "forget" => change.spec \notin Entries(list)
    PROVE  Gone'
PROOF
<1>1. file' = file /\ specs' = [specs EXCEPT ![p] = list]
      /\ pc' = [pc EXCEPT ![p] = "saving"] /\ doing' = [doing EXCEPT ![p] = change]
  BY DEF Begin
<1>2. ReadFile' = ReadFile
  BY <1>1 DEF ReadFile
<1>3. ASSUME NEW q \in Processes
      PROVE  /\ forgotten'[q] \cap Entries(ReadFile) = {}
             /\ forgotten'[q] \cap Entries(specs'[q]) = {}
             /\ InASave(q)' /\ doing'[q].op = "forget" => doing'[q].spec \notin Entries(specs'[q])
  <2>1. CASE q = p
    <3>1. specs'[q] = list /\ doing'[q] = change
      BY <1>1, <2>1 DEF TypeOK
    <3> QED
      BY <2>1, <3>1 DEF Gone
  <2>2. CASE q # p
    <3>1. specs'[q] = specs[q] /\ doing'[q] = doing[q] /\ pc'[q] = pc[q]
          /\ forgotten'[q] = forgotten[q]
      BY <1>1, <2>2 DEF TypeOK
    <3> QED
      BY <3>1 DEF Gone, InASave
  <2> QED
    BY <2>1, <2>2
<1> QED
  BY <1>2, <1>3 DEF Gone

\* Whatever else happens to a process that makes no change, nothing comes back.
LEMMA GoneStays ==
    ASSUME Gone, NEW q \in Processes, forgotten'[q] \subseteq forgotten[q],
           forgotten'[q] \cap Entries(ReadFile') = {},
           specs'[q] \in {specs[q], <<>>} \/ specs'[q] = ReadFile,
           InASave(q)' => InASave(q) /\ doing'[q] = doing[q] /\ specs'[q] = specs[q]
    PROVE  /\ forgotten'[q] \cap Entries(ReadFile') = {}
           /\ forgotten'[q] \cap Entries(specs'[q]) = {}
           /\ InASave(q)' /\ doing'[q].op = "forget" => doing'[q].spec \notin Entries(specs'[q])
PROOF
<1>1. Entries(<<>>) = {}
  BY DEF Entries
<1> QED
  BY <1>1 DEF Gone

LEMMA GoneInit == Init => Gone
PROOF
<1> SUFFICES ASSUME Init, NEW p \in Processes
             PROVE  forgotten[p] = {} /\ ~ InASave(p)
  BY DEF Gone
<1> QED
  BY DEF Init, InASave

LEMMA GoneStep == TypeOK /\ Gone /\ [Next]_vars => Gone'
PROOF
<1> SUFFICES ASSUME TypeOK, Gone, [Next]_vars PROVE Gone'
  OBVIOUS
<1>0. /\ file \in Seq(Specs) \cup {Unreadable}
      /\ specs \in [Processes -> Seq(Specs)] /\ forgotten \in [Processes -> SUBSET Specs]
      /\ pc \in [Processes -> {"down", "idle", "saving", "writing"}]
      /\ doing \in [Processes -> Changes \cup {None}]
      /\ \A q \in Processes : doing[q] # None <=> pc[q] \in {"saving", "writing"}
      /\ \A q \in Processes : NoRepeats(specs[q])
  BY DEF TypeOK
<1>a. \A p \in Processes : forgotten[p] \cap Entries(List(p)) = {}
  BY DEF List, Gone
<1>b. ASSUME UNCHANGED <<file, forgotten>>,
             \A q \in Processes :
                /\ specs'[q] \in {specs[q], <<>>} \/ specs'[q] = ReadFile
                /\ InASave(q)' => InASave(q) /\ doing'[q] = doing[q] /\ specs'[q] = specs[q]
      PROVE  Gone'
  <2>1. ReadFile' = ReadFile
    BY <1>b DEF ReadFile
  <2>2. \A q \in Processes : forgotten'[q] \cap Entries(ReadFile') = {}
    BY <1>b, <2>1 DEF Gone
  <2>3. \A q \in Processes : forgotten'[q] \subseteq forgotten[q]
    BY <1>b
  <2> QED
    BY <1>b, <2>2, <2>3, GoneStays DEF Gone
<1>1. ASSUME NEW p \in Processes, Start(p) PROVE Gone'
  <2>1. ASSUME NEW q \in Processes
        PROVE  /\ specs'[q] \in {specs[q], <<>>} \/ specs'[q] = ReadFile
               /\ InASave(q)' => InASave(q) /\ doing'[q] = doing[q] /\ specs'[q] = specs[q]
    BY <1>0, <1>1 DEF Start, InASave
  <2> QED
    BY <1>1, <1>b, <2>1 DEF Start
<1>2. ASSUME NEW p \in Processes, Stop(p) PROVE Gone'
  <2>1. ASSUME NEW q \in Processes
        PROVE  /\ specs'[q] \in {specs[q], <<>>} \/ specs'[q] = ReadFile
               /\ InASave(q)' => InASave(q) /\ doing'[q] = doing[q] /\ specs'[q] = specs[q]
    BY <1>0, <1>2 DEF Stop, InASave
  <2> QED
    BY <1>2, <1>b, <2>1 DEF Stop
<1>3. ASSUME NEW p \in Processes, NEW s \in Specs, Record(p, s) PROVE Gone'
  <2> DEFINE list == Recorded(List(p), s, Cap)
             change == [op |-> "record", spec |-> s]
  <2>1. Entries(list) \subseteq Entries(List(p)) \cup {s}
    BY ListFacts, RecordedFacts, CapAssumption
  <2>2. change \in Changes /\ change.op # "forget"
    BY DEF Changes
  <2>3. Begin(p, change, list)
    BY <1>3 DEF Record
  <2>4. /\ forgotten'[p] = forgotten[p] \ {s}
        /\ \A q \in Processes : q # p => forgotten'[q] = forgotten[q]
    BY <1>0, <1>3 DEF Record
  <2> HIDE DEF list, change
  <2>5. forgotten'[p] \cap Entries(list) = {}
    BY <1>a, <2>1, <2>4
  <2> QED
    BY <2>2, <2>3, <2>4, <2>5, BeginKeepsGone
<1>4. ASSUME NEW p \in Processes, NEW s \in Specs, Forget(p, s) PROVE Gone'
  <2> DEFINE list == Without(List(p), s)
             change == [op |-> "forget", spec |-> s]
  <2>1. Entries(list) = Entries(List(p)) \ {s}
    BY ListFacts, WithoutFacts
  <2>2. change \in Changes /\ change.spec = s
    BY DEF Changes
  <2>3. Begin(p, change, list) /\ forgotten' = forgotten
    BY <1>4 DEF Forget
  <2> HIDE DEF list, change
  <2>4. forgotten'[p] \cap Entries(list) = {} /\ change.spec \notin Entries(list)
    BY <1>a, <2>1, <2>2, <2>3
  <2> QED
    BY <2>2, <2>3, <2>4, BeginKeepsGone
<1>5. ASSUME NEW p \in Processes, Truncate(p) PROVE Gone'
  <2>1. file' \in Seq(Specs) \cup {Unreadable} /\ file' = <<>>
    BY <1>5 DEF Truncate
  <2>2. Entries(ReadFile)' = {}
    <3>1. Entries(<<>>) = {}
      BY DEF Entries
    <3>2. Entries(Deduplicated(<<>>)) = {}
      <4>1. <<>> \in Seq(Specs)
        OBVIOUS
      <4> QED
        BY <3>1, <4>1, DeduplicatedFacts
    <3> QED
      BY <2>1, <3>1, <3>2 DEF ReadFile
  <2>3. ASSUME NEW q \in Processes
        PROVE  InASave(q)' => InASave(q) /\ doing'[q] = doing[q] /\ specs'[q] = specs[q]
    BY <1>0, <1>5 DEF Truncate, InASave
  <2>4. UNCHANGED <<specs, forgotten>>
    BY <1>5 DEF Truncate
  <2> QED
    BY <2>2, <2>3, <2>4, GoneStays DEF Gone
<1>6. ASSUME NEW p \in Processes, Write(p) PROVE Gone'
  <2>1. /\ pc[p] = "writing" /\ doing[p] \in Changes /\ UNCHANGED specs
        /\ file' \in {specs[p], Unreadable}
    BY <1>0, <1>6 DEF Write, Finish
  <2>2. Entries(ReadFile)' \subseteq Entries(specs[p])
    <3>1. file' \in Seq(Specs) \cup {Unreadable}
      BY <1>0, <2>1
    <3>2. CASE file' = Unreadable
      BY <3>2 DEF ReadFile, Entries
    <3>3. CASE file' # Unreadable
      <4>1. ReadFile' = Deduplicated(specs[p])
        BY <2>1, <3>3 DEF ReadFile
      <4>2. specs[p] \in Seq(Specs)
        BY <1>0
      <4> QED
        BY <4>1, <4>2, DeduplicatedFacts
    <3> QED
      BY <3>2, <3>3
  <2>3. /\ \A q \in Processes \ {p} : forgotten'[q] = forgotten[q] \ Entries(specs[p])
        /\ doing[p].op = "forget" => forgotten'[p] = forgotten[p] \cup {doing[p].spec}
        /\ doing[p].op # "forget" => forgotten'[p] = forgotten[p]
    <3>1. PutBack(specs[p]) = [q \in Processes |-> forgotten[q] \ Entries(specs[p])]
      BY DEF PutBack
    <3> QED
      BY <1>6, <3>1 DEF Write
  <2>4. forgotten'[p] \cap Entries(specs[p]) = {}
    BY <2>1, <2>3 DEF Gone, InASave
  <2>5. ASSUME NEW q \in Processes
        PROVE  /\ forgotten'[q] \cap Entries(ReadFile)' = {}
               /\ forgotten'[q] \cap Entries(specs'[q]) = {}
               /\ InASave(q)' /\ doing'[q].op = "forget" => doing'[q].spec \notin Entries(specs'[q])
    <3>1. CASE q = p
      <4>1. ~ InASave(p)'
        BY <1>0, <1>6 DEF Write, Finish, InASave
      <4> QED
        BY <2>1, <2>2, <2>4, <3>1, <4>1
    <3>2. CASE q # p
      <4>1. doing'[q] = doing[q] /\ pc'[q] = pc[q]
        BY <1>0, <1>6, <3>2 DEF Write, Finish
      <4>2. forgotten'[q] \subseteq forgotten[q] /\ forgotten'[q] \cap Entries(specs[p]) = {}
        BY <2>3, <3>2
      <4> QED
        BY <2>1, <2>2, <4>1, <4>2 DEF Gone, InASave
    <3> QED
      BY <3>1, <3>2
  <2> QED
    BY <2>5 DEF Gone
<1>7. ASSUME NEW p \in Processes, SaveFails(p) PROVE Gone'
  <2>1. UNCHANGED <<specs, forgotten>> /\ (file' = file \/ file' = Unreadable)
    BY <1>7 DEF SaveFails, Finish
  <2>2. Entries(ReadFile)' \subseteq Entries(ReadFile)
    BY <2>1 DEF ReadFile, Entries
  <2>3. ASSUME NEW q \in Processes
        PROVE  InASave(q)' => InASave(q) /\ doing'[q] = doing[q] /\ specs'[q] = specs[q]
    BY <1>0, <1>7 DEF SaveFails, Finish, InASave
  <2>4. \A q \in Processes : forgotten'[q] \cap Entries(ReadFile') = {}
    BY <2>1, <2>2 DEF Gone
  <2> QED
    BY <2>1, <2>3, <2>4, GoneStays DEF Gone
<1>8. CASE HandEdit \/ FileLost
  <2>1. UNCHANGED <<specs, doing, pc>>
    BY <1>8 DEF HandEdit, FileLost
  <2>2. \A q \in Processes : forgotten'[q] \subseteq forgotten[q]
                             /\ forgotten'[q] \cap Entries(ReadFile') = {}
    <3>1. CASE FileLost
      <4>1. ReadFile' = <<>> /\ forgotten' = forgotten
        BY <3>1 DEF FileLost, ReadFile
      <4> QED
        BY <4>1 DEF Entries
    <3>2. CASE HandEdit
      <4>1. PICK l \in Edited : file' = l /\ forgotten' = PutBack(l)
        BY <3>2 DEF HandEdit
      <4>2. l \in Seq(Specs) /\ l # Unreadable
        BY EditedAssumption, MarkersAssumption
      <4>3. ReadFile' = Deduplicated(l)
        BY <4>1, <4>2 DEF ReadFile
      <4>4. Entries(ReadFile') = Entries(l)
        BY <4>2, <4>3, DeduplicatedFacts
      <4>5. \A q \in Processes : forgotten'[q] = forgotten[q] \ Entries(l)
        BY <4>1 DEF PutBack
      <4> QED
        BY <4>4, <4>5
    <3> QED
      BY <1>8, <3>1, <3>2
  <2> QED
    BY <2>1, <2>2, GoneStays DEF Gone, InASave
<1>9. CASE UNCHANGED vars
  <2>1. UNCHANGED <<file, specs, doing, pc, forgotten>>
    BY <1>9 DEF vars
  <2> QED
    BY <2>1, <1>b DEF InASave
<1> QED
  BY <1>1, <1>2, <1>3, <1>4, <1>5, <1>6, <1>7, <1>8, <1>9 DEF Next

\* What a process has forgotten it does not offer again: not from the file nor
\* from memory, until it is opened again or written into the file.
THEOREM ForgettingLasts == Spec => []ForgottenStaysForgotten
PROOF
<1>1. Init => TypeOK /\ Gone
  BY TypeInit, GoneInit
<1>2. TypeOK /\ Gone /\ [Next]_vars => (TypeOK /\ Gone)'
  BY TypeStep, GoneStep
<1>3. Gone => ForgottenStaysForgotten
  BY DEF Gone, List, ForgottenStaysForgotten
<1> QED
  BY <1>1, <1>2, <1>3, PTL DEF Spec

(***************************************************************************)
(* What survives.                                                          *)
(***************************************************************************)

\* What should be listed once the save a process is in has ended.
KeptAfter(p) ==
    IF doing[p].op = "record" THEN KeptWith(doing[p].spec) ELSE kept \ {doing[p].spec}

\* While nothing has fallen into a save there is one at most; the file has what
\* should be listed at its front until it is truncated, and what is being saved
\* has what should be listed afterwards.
Listed ==
    ~ overlapped =>
        /\ \A p, q \in Processes : InASave(p) /\ InASave(q) => p = q
        /\ (\A p \in Processes : pc[p] # "writing") => Front(kept, ReadFile)
        /\ \A p \in Processes : InASave(p) => Front(KeptAfter(p), specs[p])
        /\ \A p \in Processes : pc[p] = "writing" => file = <<>>

LEMMA ListedInit == Init => Listed
PROOF
<1> SUFFICES ASSUME Init PROVE Listed
  OBVIOUS
<1>1. \A p \in Processes : pc[p] = "down"
  BY DEF Init
<1>2. file \in Seq(Specs) \cup {Unreadable} /\ Entries(ReadFile) = kept
  BY EditedAssumption, ReadFileFacts DEF Init
<1>3. Front(kept, ReadFile)
  BY <1>2, ReadFileFacts, WholeIsFront
<1> QED
  BY <1>1, <1>3 DEF Listed, InASave

\* What is kept is at the front of what a process lists.
LEMMA KeptIsFront ==
    ASSUME TypeOK, NEW p \in Processes, Front(kept, ReadFile)
    PROVE  Front(kept, List(p))
PROOF
<1>1. CASE List(p) = ReadFile
  BY <1>1
<1>2. CASE List(p) # ReadFile
  <2>1. ReadFile = <<>> /\ List(p) = specs[p]
    BY <1>2 DEF List
  <2>2. kept = {}
    BY <2>1 DEF Front, UpFront
  <2>3. specs[p] \in Seq(Specs)
    BY DEF TypeOK
  <2> QED
    BY <2>1, <2>2, <2>3, WholeIsFront
<1> QED
  BY <1>1, <1>2

\* A change that begins while nobody saves.
LEMMA BeginKeepsListed ==
    ASSUME TypeOK, Listed, NEW p \in Processes, NEW change \in Changes, NEW list,
           Begin(p, change, list),
           Front(kept, ReadFile) =>
              Front(IF change.op = "record" THEN KeptWith(change.spec)
                                            ELSE kept \ {change.spec}, list)
    PROVE  Listed'
PROOF
<1>1. /\ file' = file /\ kept' = kept /\ specs' = [specs EXCEPT ![p] = list]
      /\ pc' = [pc EXCEPT ![p] = "saving"] /\ doing' = [doing EXCEPT ![p] = change]
      /\ overlapped' = (overlapped \/ \E q \in Processes : InASave(q))
  BY DEF Begin, Amid
<1>2. SUFFICES ASSUME ~ overlapped, \A q \in Processes : ~ InASave(q)
               PROVE  Listed'
  BY <1>1 DEF Listed
<1>3. ReadFile' = ReadFile
  BY <1>1 DEF ReadFile
<1>4. Front(kept, ReadFile)
  BY <1>2 DEF Listed, InASave
<1>5. /\ pc'[p] = "saving" /\ specs'[p] = list /\ doing'[p] = change
      /\ \A q \in Processes \ {p} : pc'[q] = pc[q]
  BY <1>1 DEF TypeOK
<1>6. \A q \in Processes : (InASave(q)' => q = p) /\ pc'[q] # "writing"
  BY <1>2, <1>5 DEF InASave
<1>7. KeptAfter(p)' = IF change.op = "record" THEN KeptWith(change.spec) ELSE kept \ {change.spec}
  BY <1>1, <1>5 DEF KeptAfter, KeptWith
<1> QED
  BY <1>1, <1>3, <1>4, <1>5, <1>6, <1>7 DEF Listed

LEMMA ListedStep == TypeOK /\ Listed /\ [Next]_vars => Listed'
PROOF
<1> SUFFICES ASSUME TypeOK, Listed, [Next]_vars PROVE Listed'
  OBVIOUS
<1>0. /\ file \in Seq(Specs) \cup {Unreadable}
      /\ specs \in [Processes -> Seq(Specs)]
      /\ pc \in [Processes -> {"down", "idle", "saving", "writing"}]
      /\ doing \in [Processes -> Changes \cup {None}]
      /\ \A q \in Processes : doing[q] # None <=> pc[q] \in {"saving", "writing"}
      /\ \A q \in Processes : NoRepeats(specs[q])
  BY DEF TypeOK
<1>1. ASSUME NEW p \in Processes, Start(p) PROVE Listed'
  <2>1. /\ UNCHANGED <<file, kept>> /\ pc[p] = "down" /\ pc' = [pc EXCEPT ![p] = "idle"]
        /\ overlapped' = (overlapped \/ \E q \in Processes : InASave(q))
    BY <1>1 DEF Start, Amid
  <2>2. SUFFICES ASSUME ~ overlapped, \A q \in Processes : ~ InASave(q) PROVE Listed'
    BY <2>1 DEF Listed
  <2>3. \A q \in Processes : ~ InASave(q)' /\ pc'[q] # "writing" /\ pc[q] # "writing"
    BY <1>0, <2>1, <2>2 DEF InASave
  <2>4. ReadFile' = ReadFile
    BY <2>1 DEF ReadFile
  <2> QED
    BY <2>1, <2>2, <2>3, <2>4 DEF Listed
<1>2. ASSUME NEW p \in Processes, Stop(p) PROVE Listed'
  <2>1. /\ file' = file /\ overlapped' = overlapped
        /\ kept' = IF pc[p] = "writing" THEN {} ELSE kept
    BY <1>2 DEF Stop
  <2>2. /\ pc'[p] = "down"
        /\ \A q \in Processes \ {p} : pc'[q] = pc[q] /\ doing'[q] = doing[q] /\ specs'[q] = specs[q]
    BY <1>0, <1>2 DEF Stop
  <2>3. SUFFICES ASSUME ~ overlapped PROVE Listed'
    BY <2>1 DEF Listed
  <2>4. ReadFile' = ReadFile
    BY <2>1 DEF ReadFile
  <2>5. CASE pc[p] = "writing"
    <3>1. kept' = {} /\ Front(kept', ReadFile)
      BY <1>0, <2>1, <2>5, ReadFileFacts, WholeIsFront
    <3>2. \A q \in Processes : ~ InASave(q)'
      BY <2>2, <2>3, <2>5 DEF Listed, InASave
    <3> QED
      BY <2>4, <3>1, <3>2 DEF Listed, InASave
  <2>6. CASE pc[p] # "writing"
    <3>1. kept' = kept
      BY <2>1, <2>6
    <3>2. \A q \in Processes : InASave(q)' => q # p /\ InASave(q) /\ KeptAfter(q)' = KeptAfter(q)
      BY <2>2, <3>1 DEF InASave, KeptAfter, KeptWith
    <3>3. (\A q \in Processes : pc'[q] # "writing") => Front(kept, ReadFile)
      BY <2>2, <2>3, <2>6 DEF Listed
    <3>4. \A q \in Processes : pc'[q] = "writing" => q # p /\ pc[q] = "writing"
      BY <2>2
    <3> QED
      BY <2>1, <2>2, <2>3, <2>4, <3>1, <3>2, <3>3, <3>4 DEF Listed
  <2> QED
    BY <2>5, <2>6
<1>3. ASSUME NEW p \in Processes, NEW s \in Specs, Record(p, s) PROVE Listed'
  <2> DEFINE list == Recorded(List(p), s, Cap)
             change == [op |-> "record", spec |-> s]
  <2>1. change \in Changes /\ change.op = "record" /\ change.spec = s
    BY DEF Changes
  <2>2. Begin(p, change, list)
    BY <1>3 DEF Record
  <2>3. Front(kept, ReadFile) => Front(KeptWith(s), list)
    BY KeptIsFront, ListFacts, FrontRecorded, CapAssumption DEF KeptWith
  <2> HIDE DEF list, change
  <2> QED
    BY <2>1, <2>2, <2>3, BeginKeepsListed
<1>4. ASSUME NEW p \in Processes, NEW s \in Specs, Forget(p, s) PROVE Listed'
  <2> DEFINE list == Without(List(p), s)
             change == [op |-> "forget", spec |-> s]
  <2>1. change \in Changes /\ change.op # "record" /\ change.spec = s
    BY DEF Changes
  <2>2. Begin(p, change, list)
    BY <1>4 DEF Forget
  <2>3. Front(kept, ReadFile) => Front(kept \ {s}, list)
    BY KeptIsFront, ListFacts, FrontWithout
  <2> HIDE DEF list, change
  <2> QED
    BY <2>1, <2>2, <2>3, BeginKeepsListed
<1>5. ASSUME NEW p \in Processes, Truncate(p) PROVE Listed'
  <2>1. /\ pc[p] = "saving" /\ file' = <<>> /\ UNCHANGED <<specs, doing, kept, overlapped>>
        /\ pc'[p] = "writing" /\ \A q \in Processes \ {p} : pc'[q] = pc[q]
    BY <1>0, <1>5 DEF Truncate
  <2>2. \A q \in Processes : InASave(q)' <=> InASave(q)
    BY <2>1 DEF InASave
  <2>3. \A q \in Processes : KeptAfter(q)' = KeptAfter(q)
    BY <2>1 DEF KeptAfter, KeptWith
  <2> QED
    BY <2>1, <2>2, <2>3 DEF Listed
<1>6. ASSUME NEW p \in Processes, Write(p) PROVE Listed'
  <2>1. /\ pc[p] = "writing" /\ UNCHANGED <<specs, overlapped>> /\ kept' = KeptAfter(p)
        /\ file' = specs[p] \/ file # <<>>
    BY <1>6 DEF Write, Finish, KeptAfter
  <2>2. pc'[p] = "idle" /\ \A q \in Processes \ {p} : pc'[q] = pc[q]
    BY <1>0, <1>6 DEF Write, Finish
  <2>3. SUFFICES ASSUME ~ overlapped PROVE Listed'
    BY <2>1 DEF Listed
  <2>4. file' = specs[p] /\ Front(kept', specs[p])
    BY <2>1, <2>3 DEF Listed, InASave
  <2>5. ReadFile' = specs[p]
    <3>1. specs[p] \in Seq(Specs) /\ NoRepeats(specs[p]) /\ specs[p] # Unreadable
      BY <1>0, MarkersAssumption
    <3> QED
      BY <2>4, <3>1, DeduplicatedSame DEF ReadFile
  <2>6. \A q \in Processes : ~ InASave(q)'
    BY <2>1, <2>2, <2>3 DEF Listed, InASave
  <2> QED
    BY <2>4, <2>5, <2>6 DEF Listed, InASave
<1>7. ASSUME NEW p \in Processes, SaveFails(p) PROVE Listed'
  <2>1. UNCHANGED <<specs, overlapped>> /\ InASave(p)
    BY <1>7 DEF SaveFails, Finish, InASave
  <2>2. pc'[p] = "idle" /\ \A q \in Processes \ {p} : pc'[q] = pc[q]
    BY <1>0, <1>7 DEF SaveFails, Finish
  <2>3. SUFFICES ASSUME ~ overlapped PROVE Listed'
    BY <2>1 DEF Listed
  <2>4. \A q \in Processes : ~ InASave(q)'
    BY <2>1, <2>2, <2>3 DEF Listed, InASave
  <2>5. Front(kept, ReadFile)'
    <3>1. CASE pc[p] = "saving"
      <4>1. UNCHANGED <<file, kept>>
        BY <1>7, <3>1 DEF SaveFails
      <4>2. \A q \in Processes : pc[q] # "writing"
        BY <2>1, <2>3, <3>1 DEF Listed, InASave
      <4>3. Front(kept, ReadFile)
        BY <2>3, <4>2 DEF Listed
      <4> QED
        BY <4>1, <4>3 DEF ReadFile
    <3>2. CASE pc[p] # "saving"
      <4>1. kept' = {} /\ file' = Unreadable
        BY <1>7, <3>2 DEF SaveFails
      <4>2. ReadFile' = <<>> /\ <<>> \in Seq(Specs)
        BY <4>1 DEF ReadFile
      <4> QED
        BY <4>1, <4>2, WholeIsFront
    <3> QED
      BY <3>1, <3>2
  <2> QED
    BY <2>4, <2>5 DEF Listed, InASave
<1>8. CASE HandEdit \/ FileLost
  <2>1. /\ UNCHANGED <<specs, doing, pc>>
        /\ overlapped' = (overlapped \/ \E q \in Processes : InASave(q))
    BY <1>8 DEF HandEdit, FileLost, Amid
  <2>2. SUFFICES ASSUME ~ overlapped, \A q \in Processes : ~ InASave(q) PROVE Listed'
    BY <2>1 DEF Listed
  <2>3. file' \in Seq(Specs) \cup {Unreadable}
        /\ kept' = IF file' = Unreadable THEN {} ELSE Entries(file')
    <3>1. \A l \in Edited : l \in Seq(Specs) /\ l # Unreadable
      BY EditedAssumption, MarkersAssumption
    <3> QED
      BY <1>8, <3>1 DEF HandEdit, FileLost
  <2>4. Front(kept, ReadFile)'
    <3>1. CASE file' = Unreadable
      <4>1. ReadFile' = <<>> /\ <<>> \in Seq(Specs) /\ kept' = {}
        BY <2>3, <3>1 DEF ReadFile
      <4> QED
        BY <4>1, WholeIsFront
    <3>2. CASE file' # Unreadable
      <4>1. ReadFile' = Deduplicated(file') /\ file' \in Seq(Specs) /\ kept' = Entries(file')
        BY <2>3, <3>2 DEF ReadFile
      <4>2. ReadFile' \in Seq(Specs) /\ Entries(ReadFile') = kept'
        BY <4>1, DeduplicatedFacts
      <4> QED
        BY <4>2, WholeIsFront
    <3> QED
      BY <3>1, <3>2
  <2>5. \A q \in Processes : ~ InASave(q)' /\ pc'[q] # "writing"
    BY <2>1, <2>2 DEF InASave
  <2> QED
    BY <2>4, <2>5 DEF Listed
<1>9. CASE UNCHANGED vars
  BY <1>9 DEF vars, Listed, InASave, ReadFile, KeptAfter, KeptWith
<1> QED
  BY <1>1, <1>2, <1>3, <1>4, <1>5, <1>6, <1>7, <1>8, <1>9 DEF Next

\* "Your entries survive": while nothing falls into a save, whatever was
\* recorded or written by hand, and neither forgotten nor pushed out, is listed.
THEOREM EntriesAreKept == Spec => []EntriesSurvive
PROOF
<1>1. Init => TypeOK /\ Listed
  BY TypeInit, ListedInit
<1>2. TypeOK /\ Listed /\ [Next]_vars => (TypeOK /\ Listed)'
  BY TypeStep, ListedStep
<1>3. TypeOK /\ Listed => EntriesSurvive
  <2> SUFFICES ASSUME TypeOK, Listed, ~ overlapped, \A p \in Processes : ~ InASave(p)
               PROVE  kept \subseteq Entries(ReadFile)
    BY DEF EntriesSurvive
  <2>1. Front(kept, ReadFile)
    BY DEF Listed, InASave
  <2>2. Len(ReadFile) \in Nat
    BY ReadFileFacts, LenProperties DEF TypeOK
  <2> QED
    BY <2>1, <2>2 DEF Front, UpFront, Entries
<1> QED
  BY <1>1, <1>2, <1>3, PTL DEF Spec

=============================================================================
