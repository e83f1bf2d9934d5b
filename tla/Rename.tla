------------------------------- MODULE Rename -------------------------------
(***************************************************************************)
(* In-place renaming of tensors (crates/core/src/rename.rs), as the        *)
(* editor of the terminal program and `convert --map` drive it.  Every     *)
(* shard of a safetensors checkpoint starts with a header of a fixed       *)
(* number of bytes that lists its tensors by name; an optional index file  *)
(* says which shard holds which name.  load() reads the headers, plan()    *)
(* validates a rule and reads the index, apply() opens every file, then    *)
(* rewrites the headers one after another and the index last.              *)
(*                                                                         *)
(* Nothing locks the files: several processes may rename at once, any      *)
(* write may fail or be cut short, and a process may die.  A header is     *)
(* written over the old one, so one that is part new and part old is Torn, *)
(* that is, does not parse, or parses to a mixture of the two: cut between *)
(* two entries of the same length it names one tensor twice, and the       *)
(* parser keeps the last.  An index file is truncated first.               *)
(***************************************************************************)
EXTENDS Naturals, FiniteSets

CONSTANTS
    Editors,     \* processes that keep what they loaded when an apply fails
    Commands,    \* processes that exit then: `convert --map`
    ShardCount,  \* the shards are 1..ShardCount, in the order of their paths
    Names,       \* every name a header or an index may hold
    Reserved,    \* the names no tensor may get: "" and "__metadata__"
    Entries,     \* what a header may say of a tensor
    Files,       \* Files[s]: the header shard s starts with, names to entries
    Mixtures,    \* Mixtures[f]: what file f, part new and part old, may parse to
    Indexes,     \* the index files there may be at first
    Bytes,       \* Bytes[N]: the length of a compact header with the names N
    Room,        \* Room[s]: the length of the header region of shard s
    Rules,       \* the rules asked for: what NameMap::map makes of each name
    Lockable,    \* the files that may become read-only and writable again
    MaxFaults,   \* bound: failed writes and deaths
    MaxLoads,    \* bound: checkpoints loaded, by all processes
    Torn,        \* the content of a header or an index that does not parse
    Absent,      \* there is no index file
    Unread,      \* a header not read yet
    Keep         \* no new index text

Procs == Editors \cup Commands
Shards == 1..ShardCount
IndexFile == 0

ASSUME ProcsAreSplit == Editors \cap Commands = {}
ASSUME CountIsNat == ShardCount \in Nat
ASSUME BoundsAreNat == MaxFaults \in Nat /\ MaxLoads \in Nat

Headers == UNION {[N -> Entries] : N \in SUBSET Names}
Texts == UNION {[N -> Shards] : N \in SUBSET Names}
Tensors(h) == {h[k] : k \in DOMAIN h}

\* The header of shard s lists each of its tensors once, under a name a tensor
\* may have, within the bytes before the tensor data.
Whole(h, s) ==
    /\ h \in Headers
    /\ Tensors(h) = Tensors(Files[s])
    /\ \A j, k \in DOMAIN h : h[j] = h[k] => j = k
    /\ DOMAIN h \cap Reserved = {}
    /\ Bytes[DOMAIN h] \leq Room[s]

ASSUME FilesAreWhole == \A s \in Shards : Whole(Files[s], s)
ASSUME MixturesAreTexts == /\ \A s \in Shards : Mixtures[s] \subseteq Headers \cup {Torn}
                           /\ Mixtures[IndexFile] \subseteq Texts \cup {Torn}
ASSUME RulesAreMaps == Rules \subseteq [Names -> Names]
ASSUME IndexesAreTexts == Indexes \subseteq Texts \cup {Absent}
ASSUME MarksAreApart == /\ Torn \notin Headers \cup Texts \cup {Absent}
                        /\ Keep \notin Texts
                        /\ Absent \notin Texts
                        /\ Unread \notin Headers

VARIABLES
    header,  \* header[s]: what the header region of shard s parses to
    index,   \* what the index file parses to
    mixed,   \* history: the shards whose header is, or may be, part new and part
             \* old, or was made from one that was
    locked,  \* the files that cannot be opened for writing
    faults,  \* bound: how many failures there have been
    loads,   \* bound: how many loads have been started
    job      \* job[p]: where process p is, and what it holds in memory

vars == <<header, index, mixed, locked, faults, loads, job>>

\* pc       where the process is
\* snap     Loaded.headers: the headers read so far
\* rule     the rule of the last plan
\* todo     Plan.shards: the shards still to be rewritten
\* text     Plan.index: the index file's new text, or Keep
\* was      the index file plan() read
\* begun    history: this load's plans have rewritten something
\* drifted  history: the files are no longer the loaded ones with part of this
\*          plan done, because another process or another rule rewrote some
\* unsure   history: the shards whose header was mixed when it was read, or was
\*          being written by another process during this load, before it was read
\* crossed  history: another process wrote into the file that this one is inside
Fresh(pc) == [pc |-> pc, snap |-> [s \in Shards |-> Unread], rule |-> Keep, todo |-> {},
              text |-> Keep, was |-> Absent, begun |-> FALSE, drifted |-> FALSE,
              unsure |-> {}, crossed |-> FALSE]

Init ==
    /\ header = [s \in Shards |-> Files[s]]
    /\ index \in Indexes
    /\ mixed = {}
    /\ locked = {}
    /\ faults = 0
    /\ loads = 0
    /\ job = [p \in Procs |-> Fresh("idle")]

----------------------------------------------------------------------------
(* load() *)

Load(p) ==
    /\ job[p].pc \in {"idle", "done"}
    /\ loads < MaxLoads
    /\ loads' = loads + 1
    /\ job' = [job EXCEPT ![p] = Fresh("reading")]
    /\ UNCHANGED <<header, index, mixed, locked, faults>>

\* What reading shard s may give: also a mixture, when another process has
\* written it since this load began, which may have been during the reading.
Readings(p, s) == {header[s]} \cup (IF s \in job[p].unsure THEN Mixtures[s] ELSE {})

\* The shards are read by a thread each, so in any order.
ReadHeader(p, s) ==
    /\ job[p].pc = "reading"
    /\ job[p].snap[s] = Unread
    /\ \E h \in Readings(p, s) \ {Torn} :
          job' = [job EXCEPT ![p].snap[s] = h, ![p].unsure = @ \cup (mixed \cap {s})]
    /\ UNCHANGED <<header, index, mixed, locked, faults, loads>>

\* Every thread has been joined.
Loaded(p) ==
    /\ job[p].pc = "reading"
    /\ \A s \in Shards : job[p].snap[s] # Unread
    /\ job' = [job EXCEPT ![p].pc = "loaded"]
    /\ UNCHANGED <<header, index, mixed, locked, faults, loads>>

\* invalid safetensors header JSON
LoadFails(p, s) ==
    /\ job[p].pc = "reading"
    /\ job[p].snap[s] = Unread
    /\ Torn \in Readings(p, s)
    /\ job' = [job EXCEPT ![p] = Fresh("idle")]
    /\ UNCHANGED <<header, index, mixed, locked, faults, loads>>

----------------------------------------------------------------------------
(* plan() *)

NamesOf(snap) == UNION {DOMAIN snap[s] : s \in Shards}

\* Loaded::rebuild for one header: the same tensors in the same order.  When
\* two names become one the map keeps one entry.
Renamed(h, rule) ==
    [n \in {rule[k] : k \in DOMAIN h} |-> h[CHOOSE k \in DOMAIN h : rule[k] = n]]

\* Mutant of Changed: the last shard is never looked at.
ChangedButLast(snap, rule) ==
    {s \in 1..(ShardCount - 1) : \E k \in DOMAIN snap[s] : rule[k] # k}
Changed(snap, rule) == {s \in Shards : \E k \in DOMAIN snap[s] : rule[k] # k}

NoDuplicates(snap) ==
    \A s, t \in Shards : s # t => DOMAIN snap[s] \cap DOMAIN snap[t] = {}

\* Mutant of NoCollisions: only the names that change are counted.
NoRenamedCollisions(snap, rule) ==
    \A j, k \in NamesOf(snap) :
        rule[j] # j /\ rule[k] # k /\ rule[j] = rule[k] => j = k

\* NameMap::plan_renames counts every resulting name, the unchanged included.
NoCollisions(snap, rule) ==
    \A j, k \in NamesOf(snap) : rule[j] = rule[k] => j = k

TargetsUsable(snap, rule) ==
    \A k \in NamesOf(snap) : rule[k] # k => rule[k] \notin Reserved

HeadersFit(snap, rule) ==
    \A s \in Changed(snap, rule) : Bytes[{rule[k] : k \in DOMAIN snap[s]}] \leq Room[s]

Sound(snap, rule) ==
    /\ Changed(snap, rule) # {}
    /\ NoDuplicates(snap)
    /\ NoCollisions(snap, rule)
    /\ TargetsUsable(snap, rule)
    /\ HeadersFit(snap, rule)

\* Mutant of NewTexts: an index with a key the rule leaves alone is kept.
NewTextsThroughout(text, rule) ==
    IF text = Absent \/ \E k \in DOMAIN text : rule[k] = k THEN {Keep}
    ELSE {new \in [{rule[k] : k \in DOMAIN text} -> Shards] :
             \A k \in DOMAIN text : new[rule[k]] = text[k]}

\* build_index_update: every key is renamed, whatever the shards hold.  Of the
\* keys that become one, the entry of the last in the file stays; the order in
\* the file is not modelled, so it may be any of them.
NewTexts(text, rule) ==
    IF text = Absent \/ \A k \in DOMAIN text : rule[k] = k THEN {Keep}
    ELSE LET keys == {rule[k] : k \in DOMAIN text}
         IN  {new \in [keys -> Shards] :
                 \A n \in keys : \E k \in DOMAIN text : rule[k] = n /\ new[n] = text[k]}

Drifts(j, rule) == j.drifted \/ (j.begun /\ j.rule # rule)

\* A plan that goes ahead: the user, who confirms it, may take any time.
PlanRule(p, rule) ==
    /\ job[p].pc = "loaded"
    /\ Sound(job[p].snap, rule)
    /\ index # Torn
    /\ \E text \in NewTexts(index, rule) :
          job' = [job EXCEPT ![p] =
                    [pc |-> "planned",
                     snap |-> job[p].snap,
                     rule |-> rule,
                     todo |-> Changed(job[p].snap, rule),
                     text |-> text,
                     was |-> index,
                     begun |-> job[p].begun,
                     drifted |-> Drifts(job[p], rule),
                     unsure |-> job[p].unsure,
                     crossed |-> FALSE]]
    /\ UNCHANGED <<header, index, mixed, locked, faults, loads>>

\* What a process does after an error, or when the user says no: the editor
\* stays open over what it loaded, the command exits.
Given(p) ==
    IF p \in Commands THEN Fresh("idle")
    ELSE IF job[p].begun
         THEN [job[p] EXCEPT !.pc = "loaded", !.todo = {}, !.text = Keep, !.crossed = FALSE]
         ELSE [Fresh("loaded") EXCEPT !.snap = job[p].snap, !.drifted = job[p].drifted,
                                      !.unsure = job[p].unsure]

\* The command exits on a refused plan; the editor shows why and changes nothing.
PlanRefused(p, rule) ==
    /\ p \in Commands
    /\ job[p].pc = "loaded"
    /\ ~ Sound(job[p].snap, rule) \/ index = Torn
    /\ job' = [job EXCEPT ![p] = Given(p)]
    /\ UNCHANGED <<header, index, mixed, locked, faults, loads>>

Decline(p) ==
    /\ job[p].pc = "planned"
    /\ job' = [job EXCEPT ![p] = Given(p)]
    /\ UNCHANGED <<header, index, mixed, locked, faults, loads>>

\* The user leaves the editor.
Leave(p) ==
    /\ p \in Editors
    /\ job[p].pc = "loaded"
    /\ job' = [job EXCEPT ![p] = Fresh("idle")]
    /\ UNCHANGED <<header, index, mixed, locked, faults, loads>>

----------------------------------------------------------------------------
(* apply() *)

Touched(p) == job[p].todo \cup (IF job[p].text = Keep THEN {} ELSE {IndexFile})

\* The pre-flight: the shards' handles are kept open, the index's is dropped.
Preflight(p) ==
    /\ job[p].pc = "planned"
    /\ Touched(p) \cap locked = {}
    /\ job' = [job EXCEPT ![p].pc = "writing"]
    /\ UNCHANGED <<header, index, mixed, locked, faults, loads>>

PreflightFails(p) ==
    /\ job[p].pc = "planned"
    /\ Touched(p) \cap locked # {}
    /\ job' = [job EXCEPT ![p] = Given(p)]
    /\ UNCHANGED <<header, index, mixed, locked, faults, loads>>

First(shards) == CHOOSE s \in shards : \A t \in shards : s \leq t

\* The file process j is in the middle of writing is f.
InsideOf(j, f) ==
    \/ j.pc = "inside" /\ f = First(j.todo)
    \/ j.pc = "emptied" /\ f = IndexFile

\* The shards that j is still to read, or is reading.
Unfinished(j) == {s \in Shards : j.pc = "reading" /\ j.snap[s] = Unread}

\* The job of every process after p has rewritten part of file f: what another
\* had finished is history.
AfterWriteBy(p, f, own) ==
    [q \in Procs |->
        IF q = p THEN [own EXCEPT !.begun = TRUE]
        ELSE IF job[q].pc \in {"idle", "done"} THEN Fresh("idle")
        ELSE [job[q] EXCEPT !.drifted = TRUE,
                            !.unsure = @ \cup ({f} \cap Unfinished(job[q])),
                            !.crossed = @ \/ InsideOf(job[q], f)]]

NewHeader(p) == Renamed(job[p].snap[First(job[p].todo)], job[p].rule)

\* seek and part of write_all, which is a write(2) after another until all the
\* bytes are written.  They may happen to make no difference, or all of it.
WriteHeader(p) ==
    /\ \/ job[p].pc = "writing" /\ job[p].todo # {}
       \/ job[p].pc = "inside"
    /\ LET s == First(job[p].todo)
       IN  /\ \E h \in {header[s], NewHeader(p)} \cup Mixtures[s] :
                 header' = [header EXCEPT ![s] = h]
           /\ mixed' = mixed \cup {s}
           /\ job' = AfterWriteBy(p, s, [job[p] EXCEPT !.pc = "inside"])
    /\ UNCHANGED <<index, locked, faults, loads>>

\* The last bytes: the new JSON, padded with spaces to the region's length.
\* What another process has written meanwhile is not all written over.
EndHeader(p) ==
    /\ job[p].pc = "inside"
    /\ LET s == First(job[p].todo)
           overlaps == IF job[p].crossed THEN {header[s]} \cup Mixtures[s] ELSE {}
       IN  /\ \E h \in {NewHeader(p)} \cup overlaps : header' = [header EXCEPT ![s] = h]
           /\ mixed' = IF job[p].crossed \/ s \in job[p].unsure THEN mixed \cup {s}
                       ELSE mixed \ {s}
           /\ job' = AfterWriteBy(p, s, [job[p] EXCEPT !.pc = "writing", !.todo = @ \ {s},
                                                       !.crossed = FALSE])
    /\ UNCHANGED <<index, locked, faults, loads>>

\* Mutant of BeginIndex: the index is written before the headers.
BeginIndexFirst(p) ==
    /\ job[p].pc = "writing"
    /\ job[p].text # Keep
    /\ IndexFile \notin locked
    /\ index' = Torn
    /\ job' = AfterWriteBy(p, IndexFile, [job[p] EXCEPT !.pc = "emptied"])
    /\ UNCHANGED <<header, mixed, locked, faults, loads>>

\* Mutant of BeginIndex: the index is written though its keys do not change.
BeginIndexAlways(p) ==
    /\ job[p].pc = "writing"
    /\ job[p].todo = {}
    /\ IndexFile \notin locked
    /\ index' = Torn
    /\ job' = AfterWriteBy(p, IndexFile, [job[p] EXCEPT !.pc = "emptied"])
    /\ UNCHANGED <<header, mixed, locked, faults, loads>>

\* fs::write opens the index again, truncating it, ...
BeginIndex(p) ==
    /\ job[p].pc = "writing"
    /\ job[p].todo = {}
    /\ job[p].text # Keep
    /\ IndexFile \notin locked
    /\ index' = Torn
    /\ job' = AfterWriteBy(p, IndexFile, [job[p] EXCEPT !.pc = "emptied"])
    /\ UNCHANGED <<header, mixed, locked, faults, loads>>

IndexLocked(p) ==
    /\ job[p].pc = "writing"
    /\ job[p].todo = {}
    /\ job[p].text # Keep
    /\ IndexFile \in locked
    /\ job' = [job EXCEPT ![p] = Given(p)]
    /\ UNCHANGED <<header, index, mixed, locked, faults, loads>>

\* ... and then writes it: its first bytes, ...
WriteIndex(p) ==
    /\ job[p].pc = "emptied"
    /\ index' \in IF job[p].crossed THEN {index} \cup Mixtures[IndexFile] ELSE {Torn}
    /\ job' = AfterWriteBy(p, IndexFile, job[p])
    /\ UNCHANGED <<header, mixed, locked, faults, loads>>

\* ... and its last.
EndIndex(p) ==
    /\ job[p].pc = "emptied"
    /\ index' \in {job[p].text} \cup
                  IF job[p].crossed THEN {index} \cup Mixtures[IndexFile] ELSE {}
    /\ job' = AfterWriteBy(p, IndexFile, [job[p] EXCEPT !.pc = "done", !.crossed = FALSE])
    /\ UNCHANGED <<header, mixed, locked, faults, loads>>

\* No index to write: Ok(()) all the same.
Finish(p) ==
    /\ job[p].pc = "writing"
    /\ job[p].todo = {}
    /\ job[p].text = Keep
    /\ job' = [job EXCEPT ![p].pc = "done"]
    /\ UNCHANGED <<header, index, mixed, locked, faults, loads>>

\* A write fails (the disk is full, the mount is gone): what it wrote stays.
WriteFails(p) ==
    /\ faults < MaxFaults
    /\ \/ job[p].pc \in {"inside", "emptied"}
       \/ job[p].pc = "writing" /\ Touched(p) # {}
    /\ faults' = faults + 1
    /\ job' = [job EXCEPT ![p] = Given(p)]
    /\ UNCHANGED <<header, index, mixed, locked, loads>>

Die(p) ==
    /\ faults < MaxFaults
    /\ job[p].pc \notin {"idle", "done"}
    /\ faults' = faults + 1
    /\ job' = [job EXCEPT ![p] = Fresh("idle")]
    /\ UNCHANGED <<header, index, mixed, locked, loads>>

\* Somebody makes a file read-only, or writable again.
Chmod(f) ==
    /\ locked' = IF f \in locked THEN locked \ {f} ELSE locked \cup {f}
    /\ UNCHANGED <<header, index, mixed, faults, loads, job>>

Step(p) ==
    \/ Load(p) \/ Loaded(p) \/ Decline(p) \/ Leave(p)
    \/ \E s \in Shards : ReadHeader(p, s) \/ LoadFails(p, s)
    \/ \E rule \in Rules : PlanRule(p, rule) \/ PlanRefused(p, rule)
    \/ Preflight(p) \/ PreflightFails(p)
    \/ WriteHeader(p) \/ EndHeader(p)
    \/ BeginIndex(p) \/ IndexLocked(p) \/ WriteIndex(p) \/ EndIndex(p) \/ Finish(p)
    \/ WriteFails(p) \/ Die(p)

Next == (\E p \in Procs : Step(p)) \/ (\E f \in Lockable : Chmod(f))

Spec == Init /\ [][Next]_vars

----------------------------------------------------------------------------
(* Properties *)

Jobs == [pc : {"idle", "reading", "loaded", "planned", "writing", "inside",
               "emptied", "done"},
         snap : [Shards -> Headers \cup {Unread}],
         rule : Rules \cup {Keep},
         todo : SUBSET Shards,
         text : Texts \cup {Keep},
         was : Texts \cup {Absent},
         begun : BOOLEAN,
         drifted : BOOLEAN,
         unsure : SUBSET Shards,
         crossed : BOOLEAN]

\* Type invariant of the files and of what the processes hold.
TypeOK ==
    /\ header \in [Shards -> Headers \cup {Torn}]
    /\ index \in Texts \cup {Absent, Torn}
    /\ mixed \subseteq Shards
    /\ locked \subseteq Lockable
    /\ faults \in 0..MaxFaults
    /\ loads \in 0..MaxLoads
    /\ job \in [Procs -> Jobs]

\* No rename that is carried to the end loses a tensor, gives two tensors one
\* name, uses a reserved name or writes past a header region (Loaded::plan's
\* checks, and rebuild): every header parses and lists its shard's tensors.
\* Not claimed of a header while it is being rewritten, nor of one whose
\* rewriting was cut off, was overlapped by another process's or started from
\* such a header, until a process that had read it whole has rewritten it to the
\* end with no other writing it meanwhile: the same rename tried again does.
HeadersStayWhole ==
    \A s \in Shards \ mixed : Whole(header[s], s)

\* What a process holds in memory: the headers it is sure of were whole, and the
\* plan it carries out is one plan() let through.
JobSound(j) ==
    /\ \A s \in Shards : j.snap[s] # Unread =>
          j.snap[s] \in Headers /\ (s \notin j.unsure => Whole(j.snap[s], s))
    /\ j.pc \notin {"idle", "reading"} => \A s \in Shards : j.snap[s] # Unread
    /\ j.pc \in {"planned", "writing", "inside"} =>
          j.rule \in Rules /\ Sound(j.snap, j.rule) /\ j.todo \subseteq Changed(j.snap, j.rule)
    /\ j.pc = "inside" => j.todo # {}
    /\ j.pc = "emptied" => j.text # Keep
    /\ j.crossed => j.drifted
    /\ \A s \in Unfinished(j) \cap j.unsure : j.drifted

\* The inductive invariant: TypeOK and HeadersStayWhole need what is in memory.
IInv ==
    /\ TypeOK
    /\ HeadersStayWhole
    /\ \A p \in Procs : JobSound(job[p])

\* The index locates the tensor of shard s named k.
Locates(text, k, s) == text # Absent /\ k \in DOMAIN text /\ text[k] = s

\* Every key of an index names a tensor of the shard it points at.
Lists(h, k) == h # Torn /\ k \in DOMAIN h
Agrees(text, headers) ==
    text # Absent => \A k \in DOMAIN text : Lists(headers[text[k]], k)

\* When apply() returns Ok, no other process or rule having meddled since the
\* headers were loaded, every shard has the loaded names under the rule: also
\* when it is the second try, after one that failed half way.
RenamesLand ==
    \A p \in Procs : job[p].pc = "done" /\ ~ job[p].drifted =>
        \A s \in Shards : header[s] = Renamed(job[p].snap[s], job[p].rule)

\* And a tensor the index located before is located under its new name, when
\* the index had no entry for a tensor that does not exist.
IndexFollows ==
    \A p \in Procs :
        job[p].pc = "done" /\ ~ job[p].drifted /\ Agrees(job[p].was, job[p].snap) =>
            \A s \in Shards : \A k \in DOMAIN job[p].snap[s] :
                Locates(job[p].was, k, s) => Locates(index, job[p].rule[k], s)

\* Headers first, index last: while an apply is under way, and after one that
\* failed, a key that is new in the index is already in its shard.
IndexNeverAhead ==
    \A p \in Procs :
        /\ job[p].pc \in {"loaded", "writing", "inside", "emptied", "done"}
        /\ job[p].begun /\ ~ job[p].drifted
        /\ Agrees(job[p].was, job[p].snap)
        /\ index \notin {Torn, Absent}
        => \A k \in DOMAIN index : k \in DOMAIN job[p].was \/ Lists(header[index[k]], k)

\* The module's comment: the index is renamed with the headers, "so a sharded
\* checkpoint stays internally consistent".  With one process there is nobody
\* to meddle: when its apply() returns Ok, over an index that agreed with the
\* headers it had loaded, every key of the index names a tensor of its shard.
SuccessIsConsistent ==
    \A p \in Procs :
        /\ Procs = {p}
        /\ job[p].pc = "done"
        /\ Agrees(job[p].was, job[p].snap)
        => index # Torn /\ Agrees(index, header)
=============================================================================
