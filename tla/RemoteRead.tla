------------------------------ MODULE RemoteRead ------------------------------
(***************************************************************************)
(* `diff` over ssh: the two checkpoints are read at the same time, one     *)
(* thread and one session for each.  A directory of safetensors is read by *)
(* a pool of sessions that share the number of the next shard; an s3       *)
(* checkpoint by a script whose output is streamed.  A read that fails     *)
(* raises a flag that cuts the other one short, and the failure that is    *)
(* reported must be the one that happened first of itself.  A read whose   *)
(* thread panics does neither, and leaves its progress bar running.        *)
(*                                                                         *)
(* A shard is the place of its file name among the sorted names, so that   *)
(* the order of shards is the order of numbers.                            *)
(***************************************************************************)
EXTENDS Integers, FiniteSets

CONSTANTS
  Pairings,  \* the kinds the two checkpoints can have
  Sessions,  \* MAX_SHARD_SESSIONS
  Tensors,   \* tensor names
  Shards,    \* shard files, by the place of their names
  OnDisk,    \* the shards that are in the directory
  Holds,     \* the tensors whose headers each of those has
  WeightMap, \* the shard the index gives each tensor it names
  Chunks,    \* the pieces a script's output comes in
  None       \* not yet

Sides == {"old", "new"}
Other(s) == IF s = "old" THEN "new" ELSE "old"
Kinds == {"directory", "script"}
Workers == 1..Sessions
Errors == {"failed", "aborted"}

ASSUME RemoteReadAssumptions ==
  /\ Pairings \subseteq [Sides -> Kinds]
  /\ Sessions \in Nat \ {0} /\ Chunks \in Nat
  /\ Shards \subseteq Nat /\ IsFiniteSet(Shards) /\ OnDisk \subseteq Shards
  /\ Holds \in [OnDisk -> SUBSET Tensors]
  /\ DOMAIN WeightMap \subseteq Tensors
  /\ \A t \in DOMAIN WeightMap : WeightMap[t] \in Shards
  /\ None \notin {"ok", "compared", "panicked"} \union Errors \union Sides

VARIABLES
  kind,       \* what each side is
  shown,      \* whether the progress bars are drawn, on a terminal
  phase,      \* where the thread of each side is
  listed,     \* whether the directory could be listed
  indexed,    \* whether its index could be read
  files,      \* the shards to read
  next,       \* the shared number of the next one
  pc,         \* where each session is
  claimed,    \* the shard each session last took
  outcomes,   \* what was read, by whom
  checkpoint, \* what the directory was found to hold
  left,       \* the pieces of output still to come
  result,     \* how each read ended
  abort,      \* the flag
  bar,        \* what the progress bar of each side ended as
  outcome     \* "compared", the side whose failure is reported, or "panicked"

setting == <<kind, shown>>
listing == <<listed, indexed, files>>
pool == <<next, pc, claimed, outcomes>>
ends == <<abort, bar, outcome>>
vars == <<setting, phase, listing, pool, checkpoint, left, result, ends>>

(***************************************************************************)
(* What a directory holds.                                                 *)
(***************************************************************************)

Referenced == {WeightMap[t] : t \in DOMAIN WeightMap}

\* merge_shard_lists: what is listed, or else what the index names.
MergeShardLists(canList, canIndex) ==
  IF canList THEN OnDisk ELSE IF canIndex THEN Referenced ELSE {}

\* The shards of the index come first.
Before(s, f, g) ==
  LET first == IF indexed[s] THEN Referenced ELSE {}
  IN  IF f \in first <=> g \in first THEN f < g ELSE f \in first

Ahead(s, f) == {g \in files[s] : Before(s, g, f)}
FileAt(s, i) == CHOOSE f \in files[s] : Cardinality(Ahead(s, f)) = i

Parsed(s) == {o \in outcomes[s] : o.ok}

\* Mutant of Rank: the outcomes stay in the order the sessions are joined in.
RankByWorker(o) == o.by * Cardinality(Shards) + o.index

\* partition_outcomes: sorting the shards by their place in the listing undoes
\* whatever order the sessions took them in.
Rank(o) == o.index

\* merge_shards: a name two shards hold is the first one's.
Owners(s) ==
  LET holders(t) == {o \in Parsed(s) : t \in Holds[FileAt(s, o.index)]}
      first(t) == CHOOSE o \in holders(t) : \A p \in holders(t) : Rank(o) <= Rank(p)
  IN  [t \in {u \in Tensors : holders(u) # {}} |-> FileAt(s, first(t).index)]

\* Mutant of Reconcile: the difference is taken the other way round.
ReconcileSwapped(actual, owners) ==
  LET claims == {<<t, WeightMap[t]>> : t \in DOMAIN WeightMap}
      present == {<<t, owners[t]>> : t \in DOMAIN owners}
      both == Referenced \intersect actual
  IN  [missingFiles |-> Referenced \ actual,
       extraFiles |-> actual \ Referenced,
       missingTensors |-> {p \in present \ claims : p[2] \in both},
       extraTensors |-> {c \in claims \ present : c[2] \in both}]

\* reconcile: the index against the listing and against what was read.
Reconcile(actual, owners) ==
  LET claims == {<<t, WeightMap[t]>> : t \in DOMAIN WeightMap}
      present == {<<t, owners[t]>> : t \in DOMAIN owners}
      both == Referenced \intersect actual
  IN  [missingFiles |-> Referenced \ actual,
       extraFiles |-> actual \ Referenced,
       missingTensors |-> {c \in claims \ present : c[2] \in both},
       extraTensors |-> {p \in present \ claims : p[2] \in both}]

Health(s, owners) ==
  IF indexed[s] THEN Reconcile(IF listed[s] THEN OnDisk ELSE {}, owners) ELSE None

(***************************************************************************)
(* A directory of shards: read_dir and read_shards.                        *)
(***************************************************************************)

End(s, how) ==
  /\ phase' = [phase EXCEPT ![s] = "ended"]
  /\ result' = [result EXCEPT ![s] = how]

\* The directory and its index are read, each if it can be; then every session
\* but the one that did so connects.
List(s) ==
  /\ kind[s] = "directory" /\ phase[s] = "start"
  /\ \/ /\ End(s, "failed")
        /\ UNCHANGED <<listing, pc>>
     \/ \E canList, canIndex \in BOOLEAN :
          /\ listed' = [listed EXCEPT ![s] = canList]
          /\ indexed' = [indexed EXCEPT ![s] = canIndex]
          /\ files' = [files EXCEPT ![s] = MergeShardLists(canList, canIndex)]
          /\ IF files'[s] = {}
               THEN /\ End(s, "failed")
                    /\ UNCHANGED pc
               ELSE /\ phase' = [phase EXCEPT ![s] = "reading"]
                    /\ pc' = [pc EXCEPT ![s] = [w \in Workers |->
                                IF w = 1 THEN "opening"
                                ELSE IF w <= Cardinality(files'[s]) THEN "connecting"
                                ELSE "unused"]]
                    /\ UNCHANGED result
  /\ UNCHANGED <<setting, next, claimed, outcomes, checkpoint, left, ends>>

At(s, w, here) == phase[s] = "reading" /\ pc[s][w] = here
GoTo(s, w, there) == pc' = [pc EXCEPT ![s][w] = there]

\* A session that cannot connect is one reader fewer.
Connect(s, w) ==
  /\ At(s, w, "connecting")
  /\ GoTo(s, w, "opening") \/ GoTo(s, w, "done")
  /\ UNCHANGED <<setting, phase, listing, next, claimed, outcomes, checkpoint,
                 left, result, ends>>

\* One that cannot open its channel fails the whole read.
OpenChannel(s, w) ==
  /\ At(s, w, "opening")
  /\ GoTo(s, w, "claiming") \/ GoTo(s, w, "broken")
  /\ UNCHANGED <<setting, phase, listing, next, claimed, outcomes, checkpoint,
                 left, result, ends>>

\* Mutant of Claim: the number after the addition is taken.
ClaimAfterAdding(s, w) ==
  /\ At(s, w, "claiming")
  /\ next' = [next EXCEPT ![s] = @ + 1]
  /\ IF next'[s] < Cardinality(files[s])
       THEN /\ claimed' = [claimed EXCEPT ![s][w] = next'[s]]
            /\ GoTo(s, w, "reading")
       ELSE /\ GoTo(s, w, "done")
            /\ UNCHANGED claimed
  /\ UNCHANGED <<setting, phase, listing, outcomes, checkpoint, left, result, ends>>

\* next.fetch_add: the next shard is this session's, unless there is none.
Claim(s, w) ==
  /\ At(s, w, "claiming")
  /\ next' = [next EXCEPT ![s] = @ + 1]
  /\ IF next[s] < Cardinality(files[s])
       THEN /\ claimed' = [claimed EXCEPT ![s][w] = next[s]]
            /\ GoTo(s, w, "reading")
       ELSE /\ GoTo(s, w, "done")
            /\ UNCHANGED claimed
  /\ UNCHANGED <<setting, phase, listing, outcomes, checkpoint, left, result, ends>>

\* A shard that cannot be read is an outcome like any other; a panic is not.
ReadShard(s, w) ==
  /\ At(s, w, "reading")
  /\ \/ /\ \E ok \in {TRUE, FALSE} :
             /\ ok => FileAt(s, claimed[s][w]) \in OnDisk
             /\ outcomes' = [outcomes EXCEPT ![s] = @ \union
                               {[index |-> claimed[s][w], by |-> w, ok |-> ok]}]
        /\ GoTo(s, w, "claiming")
     \/ /\ GoTo(s, w, "broken")
        /\ UNCHANGED outcomes
  /\ UNCHANGED <<setting, phase, listing, next, claimed, checkpoint, left, result, ends>>

\* Mutant of Gather: as many sessions are waited for as there can be.
GatherAll(s) ==
  /\ phase[s] = "reading"
  /\ \A w \in Workers : pc[s][w] \in {"done", "broken"}
  /\ LET owners == Owners(s)
     IN  IF DOMAIN owners = {} \/ \E w \in Workers : pc[s][w] = "broken"
           THEN /\ End(s, "failed")
                /\ UNCHANGED checkpoint
           ELSE /\ End(s, "ok")
                /\ checkpoint' = [checkpoint EXCEPT ![s] =
                     [owners |-> owners, health |-> Health(s, owners)]]
  /\ UNCHANGED <<setting, listing, pool, left, ends>>

\* The sessions are joined and their outcomes put together.
Gather(s) ==
  /\ phase[s] = "reading"
  /\ \A w \in Workers : pc[s][w] \in {"done", "broken", "unused"}
  /\ LET owners == Owners(s)
     IN  IF DOMAIN owners = {} \/ \E w \in Workers : pc[s][w] = "broken"
           THEN /\ End(s, "failed")
                /\ UNCHANGED checkpoint
           ELSE /\ End(s, "ok")
                /\ checkpoint' = [checkpoint EXCEPT ![s] =
                     [owners |-> owners, health |-> Health(s, owners)]]
  /\ UNCHANGED <<setting, listing, pool, left, ends>>

\* A panic in the thread of a read, as when a session's thread cannot be
\* spawned.  The sessions that are there are waited for; then the thread is
\* gone without a result, past the flag and the bar.
Panic(s) ==
  /\ phase[s] = "reading"
  /\ \A w \in Workers : pc[s][w] \in {"done", "broken", "unused"}
  /\ phase' = [phase EXCEPT ![s] = "panicked"]
  /\ UNCHANGED <<setting, listing, pool, checkpoint, left, result, ends>>

(***************************************************************************)
(* An s3 checkpoint: exec_capture_abortable.                               *)
(***************************************************************************)

Exec(s) ==
  /\ kind[s] = "script" /\ phase[s] = "start"
  /\ \/ End(s, "failed")
     \/ /\ phase' = [phase EXCEPT ![s] = "checking"]
        /\ UNCHANGED result
  /\ UNCHANGED <<setting, listing, pool, checkpoint, left, ends>>

\* The flag is looked at before each read of the channel.
CheckAbort(s) ==
  /\ phase[s] = "checking"
  /\ IF abort
       THEN End(s, "aborted")
       ELSE /\ phase' = [phase EXCEPT ![s] = "receiving"]
            /\ UNCHANGED result
  /\ UNCHANGED <<setting, listing, pool, checkpoint, left, ends>>

\* Mutant of Receive: the end of the output is not noticed.
ReceivePastTheEnd(s) ==
  /\ phase[s] = "receiving"
  /\ left' = [left EXCEPT ![s] = @ - 1]
  /\ phase' = [phase EXCEPT ![s] = "checking"]
  /\ UNCHANGED <<setting, listing, pool, checkpoint, result, ends>>

\* A piece of the output, its end, or a channel that fails.  At the end the
\* script may have failed, or have said what cannot be read.
Receive(s) ==
  /\ phase[s] = "receiving"
  /\ \/ /\ End(s, "failed")
        /\ UNCHANGED left
     \/ /\ left[s] > 0
        /\ left' = [left EXCEPT ![s] = @ - 1]
        /\ phase' = [phase EXCEPT ![s] = "checking"]
        /\ UNCHANGED result
     \/ /\ left[s] = 0
        /\ End(s, "ok")
        /\ UNCHANGED left
  /\ UNCHANGED <<setting, listing, pool, checkpoint, ends>>

(***************************************************************************)
(* The two reads together: run_diff.                                       *)
(***************************************************************************)

\* Mutant of Mark: any read that ends raises the flag.
MarkAndAbort(s) ==
  /\ phase[s] = "ended"
  /\ phase' = [phase EXCEPT ![s] = "marked"]
  /\ abort' = TRUE
  /\ bar' = [bar EXCEPT ![s] = result[s]]
  /\ UNCHANGED <<setting, listing, pool, checkpoint, left, result, outcome>>

\* A read that ended badly, also one that was cut short, raises the flag; its
\* bar says how it ended.
Mark(s) ==
  /\ phase[s] = "ended"
  /\ phase' = [phase EXCEPT ![s] = "marked"]
  /\ abort' = (abort \/ result[s] \in Errors)
  /\ bar' = [bar EXCEPT ![s] = result[s]]
  /\ UNCHANGED <<setting, listing, pool, checkpoint, left, result, outcome>>

\* Mutant of Blamed: the old side's failure goes first, whatever it is.
BlameOldFirst == IF result["old"] \in Errors THEN "old" ELSE "new"

\* The failure reported: the old side's, unless it was cut short.
Blamed ==
  IF result["old"] \in Errors /\ result["new"] \in Errors
    THEN IF result["old"] = "aborted" THEN "new" ELSE "old"
    ELSE IF result["old"] \in Errors THEN "old" ELSE "new"

Panicked == {s \in Sides : phase[s] = "panicked"}

\* Both threads are joined, and then the one that draws the bars, which goes on
\* until none of them is running.
Join ==
  /\ outcome = None
  /\ \A s \in Sides : phase[s] \in {"marked", "panicked"}
  /\ shown => \A s \in Sides : bar[s] # None
  /\ outcome' = IF Panicked # {} THEN "panicked"
                ELSE IF \A s \in Sides : result[s] = "ok" THEN "compared" ELSE Blamed
  /\ UNCHANGED <<setting, phase, listing, pool, checkpoint, left, result, abort, bar>>

Init ==
  /\ kind \in Pairings /\ shown \in BOOLEAN
  /\ phase = [s \in Sides |-> "start"]
  /\ listed = [s \in Sides |-> FALSE] /\ indexed = [s \in Sides |-> FALSE]
  /\ files = [s \in Sides |-> {}]
  /\ next = [s \in Sides |-> 0]
  /\ pc = [s \in Sides |-> [w \in Workers |-> "unused"]]
  /\ claimed = [s \in Sides |-> [w \in Workers |-> 0]]
  /\ outcomes = [s \in Sides |-> {}]
  /\ checkpoint = [s \in Sides |-> None]
  /\ left = [s \in Sides |-> Chunks]
  /\ result = [s \in Sides |-> None]
  /\ abort = FALSE /\ bar = [s \in Sides |-> None] /\ outcome = None

Side(s) == List(s) \/ Gather(s) \/ Exec(s) \/ CheckAbort(s) \/ Receive(s) \/ Mark(s)
Session(s, w) == Connect(s, w) \/ OpenChannel(s, w) \/ Claim(s, w) \/ ReadShard(s, w)

Next ==
  \/ \E s \in Sides : Side(s) \/ Panic(s) \/ \E w \in Workers : Session(s, w)
  \/ Join

\* Every thread goes on: the remote answers, or the connection is lost.  No
\* thread has to panic.
Spec ==
  /\ Init
  /\ [][Next]_vars
  /\ \A s \in Sides : WF_vars(Side(s)) /\ \A w \in Workers : WF_vars(Session(s, w))
  /\ WF_vars(Join)

(***************************************************************************)
(* Properties.                                                             *)
(***************************************************************************)

Phases == {"start", "reading", "checking", "receiving", "ended", "marked", "panicked"}
Places == {"unused", "connecting", "opening", "claiming", "reading", "done", "broken"}
Reads == [index : Nat, by : Workers, ok : BOOLEAN]

\* Every variable has its type.
TypeOK ==
  /\ kind \in [Sides -> Kinds] /\ shown \in BOOLEAN
  /\ phase \in [Sides -> Phases]
  /\ listed \in [Sides -> BOOLEAN] /\ indexed \in [Sides -> BOOLEAN]
  /\ files \in [Sides -> SUBSET Shards]
  /\ next \in [Sides -> Nat]
  /\ pc \in [Sides -> [Workers -> Places]]
  /\ claimed \in [Sides -> [Workers -> Nat]]
  /\ outcomes \in [Sides -> SUBSET Reads]
  /\ left \in [Sides -> 0..Chunks]
  /\ result \in [Sides -> {None, "ok"} \union Errors]
  /\ abort \in BOOLEAN
  /\ bar \in [Sides -> {None, "ok"} \union Errors]
  /\ outcome \in {None, "compared", "panicked"} \union Sides

\* A directory that was read was read whole: every shard of its listing has
\* been read, or found unreadable, by exactly one session, also when sessions
\* were refused, came late or met shards they could not read.
EveryShardOnce ==
  \A s \in Sides : (result[s] = "ok" /\ kind[s] = "directory") =>
    \A i \in 0..(Cardinality(files[s]) - 1) :
      \E o \in outcomes[s] : o.index = i /\ \A p \in outcomes[s] : p.index = i => p = o

\* Whichever session read which shard, a name that several shards hold is the
\* one's that comes first in the order of the index and the listing.
FirstShardWins ==
  \A s \in Sides : checkpoint[s] # None =>
    LET owners == checkpoint[s].owners
    IN  \A t \in DOMAIN owners, o \in outcomes[s] :
          (o.ok /\ t \in Holds[FileAt(s, o.index)]) =>
            ~Before(s, FileAt(s, o.index), owners[t])

\* A tensor the health report misses in a shard that was read is not in that
\* shard.  Not claimed of shards that could not be read, nor of a name that a
\* shard further up holds too: the report goes by the merged list.
MissingTensorsAreMissing ==
  \A s \in Sides : (checkpoint[s] # None /\ indexed[s]) =>
    \A m \in checkpoint[s].health.missingTensors, o \in Parsed(s) :
      (FileAt(s, o.index) = m[2] /\ m[1] \in Holds[m[2]]) =>
        /\ m[1] \in DOMAIN checkpoint[s].owners
        /\ Before(s, checkpoint[s].owners[m[1]], m[2])

\* The failure that is reported of a side is one that happened, not the one
\* that it caused on the other side, and its bar is the one marked as failed.
TheRealFailureIsReported ==
  outcome \in Sides => result[outcome] = "failed" /\ bar[outcome] = "failed"

\* A read is cut short only because the other one failed of itself.
NoNeedlessAbort ==
  \A s \in Sides : (abort /\ result[s] # "failed") => result[Other(s)] = "failed"

\* Both reads end and their end is told, whatever of them fails on the way; a
\* panic in one is told too where no bars are drawn.  Not claimed of a panic
\* when they are: see PanicsAreReported.
TheReadEnds == <>(outcome # None \/ (shown /\ Panicked # {}))

\* run_diff tells of a read whose thread panicked.  It does not where the bars
\* are drawn: the bar of that read is never finished, so that the thread that
\* draws the bars goes on, and is joined before the panic is looked at.
PanicsAreReported == (Panicked # {}) ~> (outcome = "panicked")

=============================================================================
