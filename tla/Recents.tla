------------------------------- MODULE Recents -------------------------------
(***************************************************************************)
(* opening::Recents (src/opening.rs): the recently opened checkpoints, a   *)
(* list that several processes keep in one file that people also edit by   *)
(* hand.  Each process re-reads the file on every use and falls back to    *)
(* what it remembers when the file gives nothing.  A change is a read of   *)
(* the file, a truncation of it and a write: three steps, no lock.         *)
(*                                                                         *)
(* A missing, unreadable or malformed file is the one value Unreadable: to *)
(* read_file they are all a list with no entries.                          *)
(***************************************************************************)
EXTENDS RecentsList

CONSTANTS
    Processes,      \* instances of the program that share the file
    Specs,          \* normalised specs
    Cap,            \* Recents.cap
    Edited,         \* the lists a hand edit may leave in the file
    SavesFail,      \* whether the file can be unwritable, or the disk full
    MaxOps,         \* bound: starts, changes and edits in one run
    Unreadable,
    None

Changes == [op : {"record", "forget"}, spec : Specs]

ASSUME CapAssumption == Cap \in Nat \ {0}
ASSUME SavesAssumption == SavesFail \in BOOLEAN
ASSUME OpsAssumption == MaxOps \in Nat
ASSUME EditedAssumption == \A l \in Edited : l \in Seq(Specs)
ASSUME MarkersAssumption == Unreadable \notin Seq(Specs) /\ None \notin Changes

VARIABLES
    file,       \* recents.toml: its `recent` array, or Unreadable
    specs,      \* Recents.specs of each process
    emptied,    \* Recents.emptied of each process
    doing,      \* the change a process is making, None between two
    pc,         \* "down", "idle", "saving" (read, not written), "writing"
    ops,        \* how many starts, changes and edits there have been
    kept,       \* history: what the file should still list
    overlapped, \* history: whether anything has fallen into another's save
    forgotten   \* history: what each process forgot, and nobody put back since

vars == <<file, specs, emptied, doing, pc, ops, kept, overlapped, forgotten>>

TypeOK ==
    /\ file \in Seq(Specs) \cup {Unreadable}
    /\ specs \in [Processes -> Seq(Specs)]
    /\ \A p \in Processes : NoRepeats(specs[p])
    /\ emptied \in [Processes -> BOOLEAN]
    /\ doing \in [Processes -> Changes \cup {None}]
    /\ pc \in [Processes -> {"down", "idle", "saving", "writing"}]
    /\ \A p \in Processes : doing[p] # None <=> pc[p] \in {"saving", "writing"}
    /\ ops \in 0..MaxOps
    /\ kept \subseteq Specs
    /\ overlapped \in BOOLEAN
    /\ forgotten \in [Processes -> SUBSET Specs]

\* Mutant of ReadFile: the lines are taken as they stand.
ReadRaw == IF file = Unreadable THEN <<>> ELSE file

ReadFile == IF file = Unreadable THEN <<>> ELSE Deduplicated(file)

\* list(): memory stands in for a file that gives nothing, unless this process
\* has emptied the list on purpose.
List(p) ==
    IF ReadFile = <<>> /\ ~emptied[p] THEN specs[p] ELSE ReadFile

Init ==
    /\ file \in Edited \cup {Unreadable}
    /\ specs = [p \in Processes |-> <<>>]
    /\ emptied = [p \in Processes |-> FALSE]
    /\ doing = [p \in Processes |-> None]
    /\ pc = [p \in Processes |-> "down"]
    /\ ops = 0
    /\ kept = IF file = Unreadable THEN {} ELSE Entries(file)
    /\ overlapped = FALSE
    /\ forgotten = [p \in Processes |-> {}]

Counted == ops < MaxOps /\ ops' = ops + 1

InASave(p) == pc[p] \in {"saving", "writing"}

\* What is done while one of `others` is in a save falls into it.
Amid(others) == overlapped' = (overlapped \/ \E q \in others : InASave(q))

\* Somebody writes these into the file again.
PutBack(list) == [p \in Processes |-> forgotten[p] \ Entries(list)]

----------------------------------------------------------------------------
(* One process.                                                            *)

\* Recents::persistent.
Start(p) ==
    /\ Counted /\ Amid(Processes)
    /\ pc[p] = "down"
    /\ pc' = [pc EXCEPT ![p] = "idle"]
    /\ specs' = [specs EXCEPT ![p] = ReadFile]
    /\ emptied' = [emptied EXCEPT ![p] = FALSE]
    /\ UNCHANGED <<file, doing, kept, forgotten>>

\* The process exits or is killed, wherever it is.  Killed between a truncation
\* and its write it takes the list with it, which no comment promises against.
Stop(p) ==
    /\ pc[p] # "down"
    /\ pc' = [pc EXCEPT ![p] = "down"]
    /\ doing' = [doing EXCEPT ![p] = None]
    /\ specs' = [specs EXCEPT ![p] = <<>>]
    /\ emptied' = [emptied EXCEPT ![p] = FALSE]
    /\ kept' = IF pc[p] = "writing" THEN {} ELSE kept
    /\ UNCHANGED <<file, ops, overlapped, forgotten>>

Begin(p, change, list) ==
    /\ Counted /\ Amid(Processes)
    /\ pc[p] = "idle"
    /\ pc' = [pc EXCEPT ![p] = "saving"]
    /\ doing' = [doing EXCEPT ![p] = change]
    /\ specs' = [specs EXCEPT ![p] = list]
    /\ UNCHANGED <<file, kept>>

\* Mutant of Record: it starts from memory, and overwrites what it never saw.
RecordFromMemory(p, s) ==
    /\ Begin(p, [op |-> "record", spec |-> s], Recorded(specs[p], s, Cap))
    /\ forgotten' = [forgotten EXCEPT ![p] = @ \ {s}]
    /\ UNCHANGED emptied

\* record() up to its save.
Record(p, s) ==
    /\ Begin(p, [op |-> "record", spec |-> s], Recorded(List(p), s, Cap))
    /\ forgotten' = [forgotten EXCEPT ![p] = @ \ {s}]
    /\ UNCHANGED emptied

\* Mutant of Forget: an empty list is not worth a save.
ForgetUnsaved(p, s) ==
    LET left == Without(List(p), s)
    IN  IF left = <<>>
        THEN /\ Counted /\ Amid(Processes)
             /\ pc[p] = "idle"
             /\ specs' = [specs EXCEPT ![p] = left]
             /\ emptied' = [emptied EXCEPT ![p] = TRUE]
             /\ forgotten' = [forgotten EXCEPT ![p] = @ \cup {s}]
             /\ UNCHANGED <<file, doing, pc, kept>>
        ELSE /\ Begin(p, [op |-> "forget", spec |-> s], left)
             /\ emptied' = [emptied EXCEPT ![p] = FALSE]
             /\ UNCHANGED forgotten

\* forget() up to its save, save_allowing_empty's flag included.
Forget(p, s) ==
    /\ Begin(p, [op |-> "forget", spec |-> s], Without(List(p), s))
    /\ emptied' = [emptied EXCEPT ![p] = Without(List(p), s) = <<>>]
    /\ UNCHANGED forgotten

\* fs::write opens the file for writing and truncates it: an empty file reads
\* as no entries.
Truncate(p) ==
    /\ pc[p] = "saving"
    /\ pc' = [pc EXCEPT ![p] = "writing"]
    /\ file' = <<>>
    /\ UNCHANGED <<specs, emptied, doing, ops, kept, overlapped, forgotten>>

Finish(p) ==
    /\ pc' = [pc EXCEPT ![p] = "idle"]
    /\ doing' = [doing EXCEPT ![p] = None]
    /\ UNCHANGED <<specs, emptied, ops, overlapped>>

\* What is listed once this process has recorded a spec: beyond the cap, only
\* that one is sure of its place.
KeptWith(s) ==
    IF Cardinality(kept \cup {s}) <= Cap THEN kept \cup {s} ELSE {s}

\* ... and writes its text from the start.  If another process wrote since the
\* truncation, the longer text's tail remains, and is not TOML.
Write(p) ==
    /\ pc[p] = "writing"
    /\ \/ file' = specs[p]
       \/ file # <<>> /\ file' = Unreadable
    /\ kept' = IF doing[p].op = "record" THEN KeptWith(doing[p].spec)
                                         ELSE kept \ {doing[p].spec}
    /\ forgotten' = [PutBack(specs[p]) EXCEPT
           ![p] = IF doing[p].op = "forget" THEN forgotten[p] \cup {doing[p].spec}
                                            ELSE forgotten[p]]
    /\ Finish(p)

\* A save that fails is silent: nothing was opened, or the text was cut off.
SaveFails(p) ==
    /\ SavesFail
    /\ \/ pc[p] = "saving" /\ UNCHANGED <<file, kept>>
       \/ pc[p] = "writing" /\ file' = Unreadable /\ kept' = {}
    /\ UNCHANGED forgotten
    /\ Finish(p)

----------------------------------------------------------------------------
(* The people and other programs that touch the file, though not in the    *)
(* moment it is open for writing.                                          *)

BeingWritten == \E p \in Processes : pc[p] = "writing"

HandEdit ==
    /\ Counted /\ Amid(Processes) /\ ~BeingWritten
    /\ \E l \in Edited :
          /\ file' = l
          /\ kept' = Entries(l)
          /\ forgotten' = PutBack(l)
    /\ UNCHANGED <<specs, emptied, doing, pc>>

FileLost ==
    /\ Counted /\ Amid(Processes) /\ ~BeingWritten
    /\ file # Unreadable
    /\ file' = Unreadable
    /\ kept' = {}
    /\ UNCHANGED <<specs, emptied, doing, pc, forgotten>>

Next ==
    \/ \E p \in Processes :
          \/ Start(p)
          \/ Stop(p)
          \/ \E s \in Specs : Record(p, s) \/ Forget(p, s)
          \/ Truncate(p)
          \/ Write(p)
          \/ SaveFails(p)
    \/ HandEdit
    \/ FileLost

Spec == Init /\ [][Next]_vars
----------------------------------------------------------------------------
(* Properties.                                                             *)

\* "Your entries survive: a write merges with whatever the file holds at the
\* time" (RECENTS_HEADER): between saves, whatever was recorded or written by
\* hand and neither forgotten nor pushed out by the cap is still listed, as long
\* as nothing has fallen between the read and the write of another's save.
EntriesSurvive ==
    ~overlapped /\ (\A p \in Processes : ~InASave(p))
        => kept \subseteq Entries(ReadFile)

\* What a process has forgotten it does not offer again, through failed saves,
\* lost files, overlapping saves and hand edits, until it opens it again or
\* somebody writes it into the file (Recents::forget).
ForgottenStaysForgotten ==
    \A p \in Processes :
        pc[p] = "idle" => forgotten[p] \cap Entries(List(p)) = {}

\* "An edit made while the app is running is picked up rather than overwritten
\* by whatever the process happened to remember" (the type's comment): what is
\* saved lists nothing that the file did not list, but what is recorded.
EditsArePickedUp ==
    [][\A p \in Processes, s \in Specs : Record(p, s) =>
            Entries(specs'[p]) \subseteq
                {s} \cup (IF file = Unreadable THEN Entries(specs[p])
                                               ELSE Entries(file))]_vars
=============================================================================
