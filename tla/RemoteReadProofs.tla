-------------------------- MODULE RemoteReadProofs --------------------------
(***************************************************************************)
(* Theorems about RemoteRead, for any number of sessions and pieces, any   *)
(* finite set of shards, any index and any listing.                        *)
(*                                                                         *)
(* The pool of sessions works because a number is handed out once: every   *)
(* number below `next` is an outcome or in some session's hand, none is    *)
(* both, and the session that was there first only leaves when no number   *)
(* is left.  That the merge does not depend on who read what is the        *)
(* arithmetic of FileAt: places of shards are numbered in their order.     *)
(***************************************************************************)
EXTENDS RemoteRead, FiniteSetTheorems, WellFoundedInduction, TLAPS

\* What the two checkpoints are, and whether the bars are drawn, stays.
USE DEF setting

(***************************************************************************)
(* The places of shards.                                                   *)
(***************************************************************************)

LEMMA FilesAreCounted ==
  ASSUME TypeOK, NEW s \in Sides, NEW F \in SUBSET files[s]
  PROVE  IsFiniteSet(F) /\ Cardinality(F) \in Nat
                        /\ Cardinality(F) <= Cardinality(files[s])
PROOF
<1>1. files[s] \in SUBSET Shards /\ IsFiniteSet(Shards)
  BY RemoteReadAssumptions DEF TypeOK
<1>2. IsFiniteSet(files[s])
  BY <1>1, FS_Subset
<1> QED
  BY <1>2, FS_Subset, FS_CardinalityType

\* merge_shard_lists puts the shards in one order.
LEMMA BeforeIsAnOrder ==
  ASSUME NEW s \in Sides, NEW f \in Shards, NEW g \in Shards, NEW h \in Shards
  PROVE  /\ ~ Before(s, f, f)
         /\ Before(s, f, g) /\ Before(s, g, h) => Before(s, f, h)
         /\ f # g => Before(s, f, g) \/ Before(s, g, f)
PROOF
<1>1. f \in Nat /\ g \in Nat /\ h \in Nat
  BY RemoteReadAssumptions
<1> QED
  BY <1>1 DEF Before

\* A shard further down has more shards ahead of it.
LEMMA MoreAreAhead ==
  ASSUME TypeOK, NEW s \in Sides, NEW f \in files[s], NEW g \in files[s],
         Before(s, f, g)
  PROVE  Cardinality(Ahead(s, f)) < Cardinality(Ahead(s, g))
PROOF
<1>1. files[s] \subseteq Shards
  BY DEF TypeOK
<1>2. Ahead(s, f) \in SUBSET Ahead(s, g)
  BY <1>1, BeforeIsAnOrder DEF Ahead
<1>3. f \in Ahead(s, g) /\ f \notin Ahead(s, f)
  BY <1>1, BeforeIsAnOrder DEF Ahead
<1>4. /\ IsFiniteSet(Ahead(s, g)) /\ Cardinality(Ahead(s, g)) \in Nat
      /\ Cardinality(Ahead(s, f)) \in Nat
  BY FilesAreCounted DEF Ahead
<1>5. Ahead(s, f) # Ahead(s, g)
  BY <1>3
<1> QED
  BY <1>2, <1>4, <1>5, FS_Subset

\* Every place below their number is some shard's: FileAt finds one.
LEMMA ShardsHavePlaces ==
  ASSUME TypeOK, NEW s \in Sides, NEW i \in Nat, i < Cardinality(files[s])
  PROVE  FileAt(s, i) \in files[s] /\ Cardinality(Ahead(s, FileAt(s, i))) = i
PROOF
<1> DEFINE place == [f \in files[s] |-> Cardinality(Ahead(s, f))]
           places == 0..(Cardinality(files[s]) - 1)
<1>1. files[s] \subseteq Shards /\ IsFiniteSet(files[s]) /\ Cardinality(files[s]) \in Nat
  BY FilesAreCounted DEF TypeOK
<1>2. ASSUME NEW f \in files[s] PROVE place[f] \in places
  <2>1. Ahead(s, f) \in SUBSET files[s] /\ f \notin Ahead(s, f)
    BY <1>1, BeforeIsAnOrder DEF Ahead
  <2>2. Ahead(s, f) # files[s]
    BY <2>1
  <2>3. Cardinality(Ahead(s, f)) \in Nat /\ Cardinality(Ahead(s, f)) <= Cardinality(files[s])
    BY <2>1, FilesAreCounted
  <2>4. Cardinality(Ahead(s, f)) # Cardinality(files[s])
    BY <1>1, <2>1, <2>2, FS_Subset
  <2> QED
    BY <1>1, <2>3, <2>4
<1>3. ASSUME NEW f \in files[s], NEW g \in files[s], place[f] = place[g] PROVE f = g
  <2>1. Cardinality(Ahead(s, f)) = Cardinality(Ahead(s, g))
        /\ Cardinality(Ahead(s, f)) \in Nat
    BY <1>3, FilesAreCounted DEF Ahead
  <2>2. ~ Before(s, f, g) /\ ~ Before(s, g, f)
    BY <2>1, MoreAreAhead
  <2> QED
    BY <1>1, <2>2, BeforeIsAnOrder
<1>4. place \in Injection(files[s], places)
  BY <1>2, <1>3 DEF Injection, IsInjective
<1>5. IsFiniteSet(places) /\ Cardinality(places) = Cardinality(files[s])
  <2>1. Cardinality(files[s]) - 1 \in Int /\ 0 \in Int
    BY <1>1
  <2> QED
    BY <1>1, <2>1, FS_Interval
<1>6. place \in Surjection(files[s], places)
  <2> HIDE DEF place, places
  <2> QED
    BY <1>4, <1>5, FS_Injection
<1>7. i \in places
  BY <1>1
<1>8. \E f \in files[s] : place[f] = i
  BY <1>6, <1>7 DEF Surjection
<1> QED
  BY <1>8 DEF FileAt

\* The order of places is the order of shards.
LEMMA PlacesAreInOrder ==
  ASSUME TypeOK, NEW s \in Sides, NEW i \in Nat, NEW j \in Nat,
         i <= j, j < Cardinality(files[s])
  PROVE  /\ ~ Before(s, FileAt(s, j), FileAt(s, i))
         /\ FileAt(s, i) # FileAt(s, j) => Before(s, FileAt(s, i), FileAt(s, j))
PROOF
<1>1. files[s] \subseteq Shards /\ Cardinality(files[s]) \in Nat
  BY FilesAreCounted DEF TypeOK
<1>2. i < Cardinality(files[s])
  BY <1>1
<1>3. /\ FileAt(s, i) \in files[s] /\ Cardinality(Ahead(s, FileAt(s, i))) = i
      /\ FileAt(s, j) \in files[s] /\ Cardinality(Ahead(s, FileAt(s, j))) = j
  BY <1>2, ShardsHavePlaces
<1>4. ~ Before(s, FileAt(s, j), FileAt(s, i))
  BY <1>3, MoreAreAhead
<1> QED
  BY <1>1, <1>3, <1>4, BeforeIsAnOrder

(***************************************************************************)
(* Types.                                                                  *)
(***************************************************************************)

Flags ==
  /\ listed \in [Sides -> BOOLEAN] /\ indexed \in [Sides -> BOOLEAN]
  /\ abort \in BOOLEAN /\ shown \in BOOLEAN

Fields ==
  /\ kind \in [Sides -> Kinds] /\ phase \in [Sides -> Phases]
  /\ files \in [Sides -> SUBSET Shards]
  /\ next \in [Sides -> Nat]
  /\ pc \in [Sides -> [Workers -> Places]]
  /\ claimed \in [Sides -> [Workers -> Nat]]
  /\ outcomes \in [Sides -> SUBSET Reads]
  /\ left \in [Sides -> 0..Chunks]
  /\ result \in [Sides -> {None, "ok"} \cup Errors]
  /\ bar \in [Sides -> {None, "ok"} \cup Errors]
  /\ outcome \in {None, "compared", "panicked"} \cup Sides

LEMMA TypeOfParts == TypeOK <=> Flags /\ Fields
PROOF BY DEF TypeOK, Flags, Fields

LEMMA FlagsStep ==
  ASSUME Flags, [Next]_vars
  PROVE  Flags'
PROOF
<1> USE DEF Flags, listing, pool, ends
<1>1. ASSUME NEW s \in Sides, Side(s) PROVE Flags'
  <2>1. CASE List(s)
    BY <2>1 DEF List
  <2>2. CASE Gather(s)
    BY <2>2 DEF Gather
  <2>3. CASE Exec(s)
    BY <2>3 DEF Exec
  <2>4. CASE CheckAbort(s)
    BY <2>4 DEF CheckAbort
  <2>5. CASE Receive(s)
    BY <2>5 DEF Receive
  <2>6. CASE Mark(s)
    BY <2>6 DEF Mark
  <2> QED
    BY <1>1, <2>1, <2>2, <2>3, <2>4, <2>5, <2>6 DEF Side
<1>2. ASSUME NEW s \in Sides, NEW w \in Workers, Session(s, w) PROVE Flags'
  BY <1>2 DEF Session, Connect, OpenChannel, Claim, ReadShard
<1>3. CASE Join
  BY <1>3 DEF Join
<1>4. CASE UNCHANGED vars
  BY <1>4 DEF vars
<1>5. ASSUME NEW s \in Sides, Panic(s) PROVE Flags'
  BY <1>5 DEF Panic
<1> QED
  BY <1>1, <1>2, <1>3, <1>4, <1>5 DEF Next

LEMMA PlacesAreTyped ==
  ASSUME Fields, NEW s \in Sides, NEW w \in Workers, NEW there \in Places,
         GoTo(s, w, there)
  PROVE  pc' \in [Sides -> [Workers -> Places]]
PROOF
<1>1. pc \in [Sides -> [Workers -> Places]]
  BY DEF Fields
<1> QED
  BY <1>1 DEF GoTo

LEMMA FieldsStep ==
  ASSUME Fields, [Next]_vars
  PROVE  Fields'
PROOF
<1>1. ASSUME NEW s \in Sides, List(s) PROVE Fields'
  <2>1. files' \in [Sides -> SUBSET Shards]
    <3>1. \A a, b \in BOOLEAN : MergeShardLists(a, b) \in SUBSET Shards
      BY RemoteReadAssumptions DEF MergeShardLists, Referenced
    <3>2. files' = files \/ \E a, b \in BOOLEAN : files' = [files EXCEPT ![s] = MergeShardLists(a, b)]
      BY <1>1 DEF List, listing
    <3>3. files \in [Sides -> SUBSET Shards]
      BY DEF Fields
    <3> QED
      BY <3>1, <3>2, <3>3
  <2>2. pc' \in [Sides -> [Workers -> Places]]
    <3> DEFINE start == [w \in Workers |-> IF w = 1 THEN "opening"
                                           ELSE IF w <= Cardinality(files'[s]) THEN "connecting"
                                           ELSE "unused"]
    <3>1. start \in [Workers -> Places]
      BY DEF Places
    <3>2. pc' = pc \/ pc' = [pc EXCEPT ![s] = start]
      BY <1>1 DEF List
    <3>3. pc \in [Sides -> [Workers -> Places]]
      BY DEF Fields
    <3> HIDE DEF start
    <3> QED
      BY <3>1, <3>2, <3>3
  <2>3. phase' \in [Sides -> Phases] /\ result' \in [Sides -> {None, "ok"} \cup Errors]
    BY <1>1 DEF List, End, Phases, Errors, Fields
  <2> QED
    BY <1>1, <2>1, <2>2, <2>3 DEF List, ends, Fields
<1>2. ASSUME NEW s \in Sides, Gather(s) PROVE Fields'
  <2>1. phase' \in [Sides -> Phases] /\ result' \in [Sides -> {None, "ok"} \cup Errors]
    BY <1>2 DEF Gather, End, Phases, Errors, Fields
  <2> QED
    BY <1>2, <2>1 DEF Gather, listing, pool, ends, Fields
<1>3. ASSUME NEW s \in Sides, Exec(s) PROVE Fields'
  BY <1>3 DEF Exec, End, listing, pool, ends, Phases, Errors, Fields
<1>4. ASSUME NEW s \in Sides, CheckAbort(s) PROVE Fields'
  <2>1. phase' \in [Sides -> Phases] /\ result' \in [Sides -> {None, "ok"} \cup Errors]
    BY <1>4 DEF CheckAbort, End, Phases, Errors, Fields
  <2> QED
    BY <1>4, <2>1 DEF CheckAbort, listing, pool, ends, Fields
<1>5. ASSUME NEW s \in Sides, Receive(s) PROVE Fields'
  <2>1. phase' \in [Sides -> Phases] /\ result' \in [Sides -> {None, "ok"} \cup Errors]
    BY <1>5 DEF Receive, End, Phases, Errors, Fields
  <2>2. left' \in [Sides -> 0..Chunks]
    <3>1. left \in [Sides -> 0..Chunks] /\ Chunks \in Nat
      BY RemoteReadAssumptions DEF Fields
    <3>2. CASE UNCHANGED left
      BY <3>1, <3>2
    <3>3. CASE left[s] > 0 /\ left' = [left EXCEPT ![s] = @ - 1]
      BY <3>1, <3>3
    <3> QED
      BY <1>5, <3>2, <3>3 DEF Receive
  <2> QED
    BY <1>5, <2>1, <2>2 DEF Receive, listing, pool, ends, Fields
<1>6. ASSUME NEW s \in Sides, Mark(s) PROVE Fields'
  BY <1>6 DEF Mark, listing, pool, Phases, Fields
<1>7. ASSUME NEW s \in Sides, NEW w \in Workers, Connect(s, w) \/ OpenChannel(s, w)
      PROVE  Fields'
  <2>1. pc' \in [Sides -> [Workers -> Places]]
    BY <1>7, PlacesAreTyped DEF Connect, OpenChannel, Places
  <2> QED
    BY <1>7, <2>1 DEF Connect, OpenChannel, listing, ends, Fields
<1>8. ASSUME NEW s \in Sides, NEW w \in Workers, Claim(s, w) PROVE Fields'
  <2>1. pc' \in [Sides -> [Workers -> Places]]
    BY <1>8, PlacesAreTyped DEF Claim, Places
  <2>2. next \in [Sides -> Nat] /\ claimed \in [Sides -> [Workers -> Nat]]
    BY DEF Fields
  <2>3. next' \in [Sides -> Nat]
    BY <1>8, <2>2 DEF Claim
  <2>4. claimed' \in [Sides -> [Workers -> Nat]]
    <3>1. UNCHANGED claimed \/ claimed' = [claimed EXCEPT ![s][w] = next[s]]
      BY <1>8 DEF Claim
    <3>2. next[s] \in Nat
      BY <2>2
    <3>3. CASE claimed' = [claimed EXCEPT ![s][w] = next[s]]
      BY <2>2, <3>2, <3>3
    <3> QED
      BY <2>2, <3>1, <3>3
  <2> QED
    BY <1>8, <2>1, <2>3, <2>4 DEF Claim, listing, ends, Fields
<1>9. ASSUME NEW s \in Sides, NEW w \in Workers, ReadShard(s, w) PROVE Fields'
  <2>1. pc' \in [Sides -> [Workers -> Places]]
    BY <1>9, PlacesAreTyped DEF ReadShard, Places
  <2>2. outcomes' \in [Sides -> SUBSET Reads]
    <3>1. claimed[s][w] \in Nat /\ outcomes \in [Sides -> SUBSET Reads]
      BY DEF Fields
    <3>2. CASE UNCHANGED outcomes
      BY <3>1, <3>2
    <3>3. ASSUME NEW ok \in {TRUE, FALSE},
                 outcomes' = [outcomes EXCEPT ![s] = @ \cup
                               {[index |-> claimed[s][w], by |-> w, ok |-> ok]}]
          PROVE  outcomes' \in [Sides -> SUBSET Reads]
      <4>1. [index |-> claimed[s][w], by |-> w, ok |-> ok] \in Reads
        BY <3>1 DEF Reads
      <4> QED
        BY <3>1, <3>3, <4>1
    <3> QED
      BY <1>9, <3>2, <3>3 DEF ReadShard
  <2> QED
    BY <1>9, <2>1, <2>2 DEF ReadShard, listing, ends, Fields
<1>10. CASE Join
  <2>1. outcome' \in {None, "compared", "panicked"} \cup Sides
    BY <1>10 DEF Join, Blamed, Sides
  <2> QED
    BY <1>10, <2>1 DEF Join, listing, pool, Fields
<1>11. CASE UNCHANGED vars
  BY <1>11 DEF vars, listing, pool, ends, Fields
<1>12. ASSUME NEW s \in Sides, Panic(s) PROVE Fields'
  <2>1. phase' \in [Sides -> Phases]
    BY <1>12 DEF Panic, Phases, Fields
  <2> QED
    BY <1>12, <2>1 DEF Panic, listing, pool, ends, Fields
<1> QED
  BY <1>1, <1>2, <1>3, <1>4, <1>5, <1>6, <1>7, <1>8, <1>9, <1>10, <1>11, <1>12
  DEF Next, Side, Session

LEMMA TypeInit == Init => Flags /\ Fields
PROOF
<1> SUFFICES ASSUME Init PROVE Flags /\ Fields
  OBVIOUS
<1>1. Flags
  BY DEF Init, Flags
<1>2. Fields
  BY RemoteReadAssumptions DEF Init, Fields, Phases, Places
<1> QED
  BY <1>1, <1>2

LEMMA TypeStep ==
  ASSUME TypeOK, [Next]_vars
  PROVE  TypeOK'
PROOF
<1>1. Flags' /\ Fields'
  BY TypeOfParts, FlagsStep, FieldsStep
<1> QED
  BY <1>1 DEF TypeOK, Flags, Fields

\* Every variable of the two reads keeps its type.
THEOREM TypeCorrect == Spec => []TypeOK
PROOF
<1>1. Init => TypeOK
  BY TypeInit, TypeOfParts
<1> QED
  BY <1>1, TypeStep, PTL DEF Spec

(***************************************************************************)
(* How the reads end.                                                      *)
(***************************************************************************)

Over(s) == phase[s] \in {"ended", "marked"}

\* A read has a result once it is over, its bar shows that result, and whoever
\* looks for the failure behind a raised flag or a reported side finds it.
Endings ==
  /\ \A s \in Sides : result[s] # None <=> Over(s)
  /\ \A s \in Sides : phase[s] = "marked" => bar[s] = result[s]
  /\ \A s \in Sides : result[s] = "aborted" => abort
  /\ abort => \E s \in Sides : result[s] = "failed"
  /\ outcome \in Sides => phase[outcome] = "marked" /\ result[outcome] = "failed"

(***************************************************************************)
(* The pool of sessions.                                                   *)
(***************************************************************************)

Total(s) == Cardinality(files[s])

\* Nothing has been handed out before the directory is listed.
Untouched(s) ==
  phase[s] = "start" => /\ outcomes[s] = {} /\ next[s] = 0
                        /\ \A w \in Workers : pc[s][w] = "unused"

\* What was read had been handed out, and was handed out once.
ReadOnce(s) ==
  /\ \A o \in outcomes[s] : o.index < next[s] /\ o.index < Total(s)
  /\ \A o, p \in outcomes[s] : o.index = p.index => o = p

\* What is in a session's hand was handed out and is in no other's.
HeldOnce(s) ==
  \A w \in Workers : pc[s][w] = "reading" =>
    /\ claimed[s][w] < next[s] /\ claimed[s][w] < Total(s)
    /\ \A o \in outcomes[s] : o.index # claimed[s][w]
    /\ \A v \in Workers \ {w} : pc[s][v] = "reading" => claimed[s][v] # claimed[s][w]

\* What was handed out was read, or is in a session's hand, unless one broke.
NoneDropped(s) ==
  (\A w \in Workers : pc[s][w] # "broken") =>
    \A i \in Nat : (i < next[s] /\ i < Total(s)) =>
      \/ \E o \in outcomes[s] : o.index = i
      \/ \E w \in Workers : pc[s][w] = "reading" /\ claimed[s][w] = i

\* The session that was there first takes shards until there are none.
FirstStays(s) ==
  /\ phase[s] = "reading" => pc[s][1] \notin {"unused", "connecting"}
  /\ pc[s][1] = "done" => next[s] >= Total(s)

ReadWhole(s) ==
  (result[s] = "ok" /\ kind[s] = "directory") =>
    \A i \in Nat : i < Total(s) => \E o \in outcomes[s] : o.index = i

Pool(s) ==
  /\ Untouched(s) /\ ReadOnce(s) /\ HeldOnce(s) /\ NoneDropped(s) /\ FirstStays(s)
  /\ phase[s] \in {"checking", "receiving"} => kind[s] = "script"
  /\ ReadWhole(s)

(***************************************************************************)
(* What the directory was found to hold.                                   *)
(***************************************************************************)

\* FirstShardWins and MissingTensorsAreMissing for one side.
Merged(s) ==
  LET owners == checkpoint[s].owners
  IN  /\ \A t \in DOMAIN owners, o \in outcomes[s] :
           (o.ok /\ t \in Holds[FileAt(s, o.index)]) =>
             ~Before(s, FileAt(s, o.index), owners[t])
      /\ indexed[s] => \A m \in checkpoint[s].health.missingTensors, o \in Parsed(s) :
           (FileAt(s, o.index) = m[2] /\ m[1] \in Holds[m[2]]) =>
             m[1] \in DOMAIN owners /\ Before(s, owners[m[1]], m[2])

Findings ==
  /\ DOMAIN checkpoint = Sides
  /\ \A s \in Sides : checkpoint[s] # None => Over(s) /\ Merged(s)

LEMMA EndingKeepsEndings ==
  ASSUME TypeOK, Endings, NEW s \in Sides, NEW how \in {"ok", "failed", "aborted"},
         ~ Over(s), End(s, how), UNCHANGED ends, how = "aborted" => abort
  PROVE  Endings'
PROOF
<1>1. phase \in [Sides -> Phases] /\ result \in [Sides -> {None, "ok"} \cup Errors]
  BY DEF TypeOK
<1>2. /\ \A r \in Sides \ {s} : phase'[r] = phase[r] /\ result'[r] = result[r]
      /\ phase'[s] = "ended" /\ result'[s] = how
  BY <1>1 DEF End
<1>3. how # None
  BY RemoteReadAssumptions DEF Errors
<1>4. result[s] # "failed"
  BY RemoteReadAssumptions DEF Endings, Errors
<1>5. abort' = abort /\ bar' = bar /\ outcome' = outcome
  BY DEF ends
<1>6. \A r \in Sides : result'[r] # None <=> Over(r)'
  BY <1>2, <1>3 DEF Endings, Over
<1>7. \A r \in Sides : phase'[r] = "marked" => bar'[r] = result'[r]
  BY <1>2, <1>5 DEF Endings
<1>8. \A r \in Sides : result'[r] = "aborted" => abort'
  BY <1>2, <1>5 DEF Endings
<1>9. abort' => \E r \in Sides : result'[r] = "failed"
  BY <1>2, <1>4, <1>5 DEF Endings
<1>10. outcome' \in Sides => phase'[outcome'] = "marked" /\ result'[outcome'] = "failed"
  BY <1>2, <1>4, <1>5 DEF Endings
<1> QED
  BY <1>6, <1>7, <1>8, <1>9, <1>10 DEF Endings

LEMMA GoingOnKeepsEndings ==
  ASSUME TypeOK, Endings, NEW s \in Sides,
         NEW there \in {"reading", "checking", "receiving", "panicked"}, ~ Over(s), phase' = [phase EXCEPT ![s] = there], UNCHANGED <<result, ends>>
  PROVE  Endings'
PROOF
<1>1. phase \in [Sides -> Phases]
  BY DEF TypeOK
<1>2. /\ \A r \in Sides \ {s} : phase'[r] = phase[r]
      /\ phase'[s] = there /\ there \notin {"ended", "marked"}
  BY <1>1
<1>3. result' = result /\ abort' = abort /\ bar' = bar /\ outcome' = outcome
  BY DEF ends
<1> QED
  BY <1>2, <1>3 DEF Endings, Over

LEMMA EndingsInit == Init => Endings
PROOF
  BY RemoteReadAssumptions DEF Init, Endings, Over, Errors

LEMMA EndingsStep ==
  ASSUME TypeOK, Endings, [Next]_vars
  PROVE  Endings'
PROOF
<1>1. ASSUME NEW s \in Sides, List(s) PROVE Endings'
  <2>1. ~ Over(s) /\ UNCHANGED ends
    BY <1>1 DEF List, Over
  <2>2. CASE End(s, "failed")
    BY <2>1, <2>2, EndingKeepsEndings
  <2>3. CASE phase' = [phase EXCEPT ![s] = "reading"] /\ UNCHANGED result
    BY <2>1, <2>3, GoingOnKeepsEndings
  <2> QED
    BY <1>1, <2>2, <2>3 DEF List
<1>2. ASSUME NEW s \in Sides, Gather(s) PROVE Endings'
  <2>1. ~ Over(s) /\ UNCHANGED ends /\ (End(s, "failed") \/ End(s, "ok"))
    BY <1>2 DEF Gather, Over
  <2> QED
    BY <2>1, EndingKeepsEndings
<1>3. ASSUME NEW s \in Sides, Exec(s) PROVE Endings'
  <2>1. ~ Over(s) /\ UNCHANGED ends
    BY <1>3 DEF Exec, Over
  <2> QED
    BY <1>3, <2>1, EndingKeepsEndings, GoingOnKeepsEndings DEF Exec
<1>4. ASSUME NEW s \in Sides, CheckAbort(s) PROVE Endings'
  <2>1. ~ Over(s) /\ UNCHANGED ends
    BY <1>4 DEF CheckAbort, Over
  <2> QED
    BY <1>4, <2>1, EndingKeepsEndings, GoingOnKeepsEndings DEF CheckAbort
<1>5. ASSUME NEW s \in Sides, Receive(s) PROVE Endings'
  <2>1. ~ Over(s) /\ UNCHANGED ends
    BY <1>5 DEF Receive, Over
  <2> QED
    BY <1>5, <2>1, EndingKeepsEndings, GoingOnKeepsEndings DEF Receive
<1>6. ASSUME NEW s \in Sides, Mark(s) PROVE Endings'
  <2>1. /\ phase \in [Sides -> Phases] /\ bar \in [Sides -> {None, "ok"} \cup Errors]
        /\ result' = result /\ outcome' = outcome /\ abort' = (abort \/ result[s] \in Errors)
    BY <1>6 DEF Mark, TypeOK
  <2>2. /\ \A r \in Sides \ {s} : phase'[r] = phase[r] /\ bar'[r] = bar[r]
        /\ phase[s] = "ended" /\ phase'[s] = "marked" /\ bar'[s] = result[s]
    BY <1>6, <2>1 DEF Mark
  <2>3. result[s] \in Errors => result[s] = "failed" \/ abort
    BY DEF Errors, Endings
  <2> QED
    BY <2>1, <2>2, <2>3 DEF Endings, Over
<1>7. ASSUME NEW s \in Sides, NEW w \in Workers, Session(s, w) PROVE Endings'
  <2>1. UNCHANGED <<phase, result, ends>>
    BY <1>7 DEF Session, Connect, OpenChannel, Claim, ReadShard
  <2> QED
    BY <2>1 DEF Endings, Over, ends
<1>8. CASE Join
  <2>1. /\ UNCHANGED <<phase, result, abort, bar>>
        /\ \A s \in Sides : phase[s] \in {"marked", "panicked"}
    BY <1>8 DEF Join
  <2>2. Panicked = {} => \A s \in Sides : result[s] \in {"ok", "failed", "aborted"}
    BY <2>1 DEF Panicked, Endings, Over, TypeOK, Errors
  <2>3. CASE Panicked # {}
    <3>1. outcome' = "panicked"
      BY <1>8, <2>3 DEF Join
    <3> QED
      BY <2>1, <3>1 DEF Endings, Over, Sides
  <2>4. CASE Panicked = {} /\ \A s \in Sides : result[s] = "ok"
    <3>1. outcome' = "compared"
      BY <1>8, <2>4 DEF Join
    <3> QED
      BY <2>1, <3>1 DEF Endings, Over, Sides
  <2>5. CASE Panicked = {} /\ \E s \in Sides : result[s] # "ok"
    <3>1. outcome' = Blamed
      BY <1>8, <2>5 DEF Join
    <3>2. "old" \in Sides /\ "new" \in Sides /\ \A s \in Sides : s = "old" \/ s = "new"
      BY DEF Sides
    <3>3. \E s \in Sides : result[s] = "failed"
      BY <2>2, <2>5 DEF Endings
    <3>4. Blamed \in Sides /\ result[Blamed] = "failed"
      BY <2>2, <2>5, <3>2, <3>3 DEF Blamed, Errors
    <3>5. phase[Blamed] = "marked"
      BY <2>1, <2>5, <3>4 DEF Panicked
    <3> QED
      BY <2>1, <3>1, <3>4, <3>5 DEF Endings, Over
  <2> QED
    BY <2>3, <2>4, <2>5
<1>9. CASE UNCHANGED vars
  BY <1>9 DEF vars, ends, Endings, Over
<1>10. ASSUME NEW s \in Sides, Panic(s) PROVE Endings'
  <2>1. ~ Over(s) /\ UNCHANGED <<result, ends>> /\ phase' = [phase EXCEPT ![s] = "panicked"]
    BY <1>10 DEF Panic, Over
  <2> QED
    BY <2>1, GoingOnKeepsEndings
<1> QED
  BY <1>1, <1>2, <1>3, <1>4, <1>5, <1>6, <1>7, <1>8, <1>9, <1>10 DEF Next, Side

\* The flag that cuts a read short and the failure that is reported both lead
\* back to a read that failed of itself.
LEMMA FailuresAreReal == Spec => [](NoNeedlessAbort /\ TheRealFailureIsReported)
PROOF
<1>1. Init => TypeOK /\ Endings
  BY TypeInit, TypeOfParts, EndingsInit
<1>2. TypeOK /\ Endings /\ [Next]_vars => (TypeOK /\ Endings)'
  BY TypeStep, EndingsStep
<1>3. Endings => NoNeedlessAbort /\ TheRealFailureIsReported
  BY DEF Endings, NoNeedlessAbort, TheRealFailureIsReported, Sides, Other
<1> QED
  BY <1>1, <1>2, <1>3, PTL DEF Spec

\* A read is cut short only because the other one failed of itself.
THEOREM NothingIsCutNeedlessly == Spec => []NoNeedlessAbort
PROOF
  BY FailuresAreReal, PTL

\* The failure reported for the two reads is one that happened, never the
\* "aborted" of the read that the other one's failure cut short.
THEOREM TheFailureIsReal == Spec => []TheRealFailureIsReported
PROOF
  BY FailuresAreReal, PTL

LEMMA PoolInit == Init => \A s \in Sides : Pool(s)
PROOF
<1> SUFFICES ASSUME Init, NEW s \in Sides PROVE Pool(s)
  OBVIOUS
<1>1. /\ phase[s] = "start" /\ next[s] = 0 /\ outcomes[s] = {} /\ result[s] = None
      /\ \A w \in Workers : pc[s][w] = "unused"
  BY DEF Init
<1>2. 1 \in Workers /\ None # "ok"
  BY RemoteReadAssumptions DEF Workers
<1> QED
  BY <1>1, <1>2 DEF Pool, Untouched, ReadOnce, HeldOnce, NoneDropped, FirstStays, ReadWhole

\* Where no shard is handed out or read, only how the read goes on matters.
LEMMA PoolAtRest ==
  ASSUME NEW s \in Sides, Pool(s),
         files'[s] = files[s], next'[s] = next[s], pc'[s] = pc[s],
         claimed'[s] = claimed[s], outcomes'[s] = outcomes[s], kind'[s] = kind[s],
         phase'[s] \in {"start", "reading"} => phase[s] = phase'[s],
         phase'[s] \in {"checking", "receiving"} => kind[s] = "script",
         ReadWhole(s)'
  PROVE  Pool(s)'
PROOF
<1>1. Untouched(s)' /\ FirstStays(s)'
  BY DEF Pool, Untouched, FirstStays, Total
<1>2. ReadOnce(s)' /\ HeldOnce(s)' /\ NoneDropped(s)'
  BY DEF Pool, ReadOnce, HeldOnce, NoneDropped, Total
<1> QED
  BY <1>1, <1>2 DEF Pool

LEMMA NotWholeYet ==
  ASSUME TypeOK, Endings, NEW s \in Sides, ~ Over(s)
  PROVE  result[s] # "ok"
PROOF BY RemoteReadAssumptions DEF Endings

LEMMA ListKeepsPool ==
  ASSUME TypeOK, Endings, NEW s \in Sides, Pool(s), List(s)
  PROVE  Pool(s)'
PROOF
<1>1. phase[s] = "start" /\ ~ Over(s) /\ result[s] # "ok"
  BY NotWholeYet DEF List, Over
<1>2. /\ next[s] = 0 /\ outcomes[s] = {} /\ \A w \in Workers : pc[s][w] = "unused"
      /\ next' = next /\ outcomes' = outcomes /\ claimed' = claimed /\ kind' = kind
  BY <1>1 DEF List, Pool, Untouched
<1>3. /\ phase \in [Sides -> Phases] /\ result \in [Sides -> {None, "ok"} \cup Errors]
      /\ pc \in [Sides -> [Workers -> Places]]
  BY DEF TypeOK
<1>4. result'[s] # "ok" /\ phase'[s] \in {"reading", "ended"}
  BY <1>1, <1>3 DEF List, End
<1>5. ReadWhole(s)'
  BY <1>4 DEF ReadWhole
<1>6. CASE UNCHANGED <<listing, pc>> /\ End(s, "failed")
  <2>1. phase'[s] = "ended"
    BY <1>3, <1>6 DEF End
  <2>2. files' = files /\ pc' = pc
    BY <1>6 DEF listing
  <2> QED
    BY <1>2, <1>5, <2>1, <2>2, PoolAtRest
<1>7. CASE pc' = pc /\ End(s, "failed")
  <2>1. phase'[s] = "ended"
    BY <1>3, <1>7 DEF End
  <2>2. 1 \in Workers
    BY RemoteReadAssumptions DEF Workers
  <2> QED
    BY <1>2, <1>5, <1>7, <2>1, <2>2
    DEF Pool, Untouched, ReadOnce, HeldOnce, NoneDropped, FirstStays
<1>8. CASE pc' = [pc EXCEPT ![s] = [w \in Workers |->
                    IF w = 1 THEN "opening"
                    ELSE IF w <= Cardinality(files'[s]) THEN "connecting" ELSE "unused"]]
           /\ phase'[s] = "reading"
  <2>1. 1 \in Workers
    BY RemoteReadAssumptions DEF Workers
  <2>2. pc'[s][1] = "opening" /\ \A w \in Workers : pc'[s][w] # "reading"
    BY <1>3, <1>8, <2>1
  <2> QED
    BY <1>2, <1>5, <1>8, <2>2
    DEF Pool, Untouched, ReadOnce, HeldOnce, NoneDropped, FirstStays
<1>9. \/ UNCHANGED <<listing, pc>> /\ End(s, "failed")
      \/ pc' = pc /\ End(s, "failed")
      \/ /\ pc' = [pc EXCEPT ![s] = [w \in Workers |->
                    IF w = 1 THEN "opening"
                    ELSE IF w <= Cardinality(files'[s]) THEN "connecting" ELSE "unused"]]
         /\ phase' = [phase EXCEPT ![s] = "reading"]
  BY DEF List
<1> QED
  BY <1>3, <1>6, <1>7, <1>8, <1>9

\* A session that moves without taking or reading a shard.
LEMMA MovingKeepsPool ==
  ASSUME TypeOK, Endings, NEW s \in Sides, NEW w \in Workers, Pool(s),
         Connect(s, w) \/ OpenChannel(s, w)
  PROVE  Pool(s)'
PROOF
<1>1. /\ phase[s] = "reading" /\ pc[s][w] \in {"connecting", "opening"}
      /\ UNCHANGED <<phase, files, next, claimed, outcomes, kind, result>>
  BY DEF Connect, OpenChannel, At, listing
<1>2. pc \in [Sides -> [Workers -> Places]] /\ result[s] # "ok"
  BY <1>1, NotWholeYet DEF TypeOK, Over
<1>3. PICK there \in {"opening", "done", "claiming", "broken"} :
         /\ pc' = [pc EXCEPT ![s][w] = there]
         /\ there = "done" => pc[s][w] = "connecting"
  BY DEF Connect, OpenChannel, At, GoTo
<1>4. pc'[s][w] = there /\ \A v \in Workers \ {w} : pc'[s][v] = pc[s][v]
  BY <1>2, <1>3
<1>5. FirstStays(s)'
  <2>1. w = 1 => pc[s][w] # "connecting"
    BY <1>1 DEF Pool, FirstStays
  <2>2. 1 \in Workers
    BY RemoteReadAssumptions DEF Workers
  <2> QED
    BY <1>1, <1>3, <1>4, <2>1, <2>2 DEF Pool, FirstStays, Total
<1>6. HeldOnce(s)'
  BY <1>1, <1>4 DEF Pool, HeldOnce, Total
<1>7. NoneDropped(s)'
  <2> SUFFICES ASSUME \A v \in Workers : pc'[s][v] # "broken",
                      NEW i \in Nat, i < next[s], i < Total(s)
               PROVE  \/ \E o \in outcomes[s] : o.index = i
                      \/ \E v \in Workers : pc'[s][v] = "reading" /\ claimed[s][v] = i
    BY <1>1 DEF NoneDropped, Total
  <2>1. \A v \in Workers : pc[s][v] # "broken"
    BY <1>1, <1>4
  <2>2. \/ \E o \in outcomes[s] : o.index = i
        \/ \E v \in Workers : pc[s][v] = "reading" /\ claimed[s][v] = i
    BY <2>1 DEF Pool, NoneDropped
  <2> QED
    BY <1>1, <1>4, <2>2
<1> QED
  BY <1>1, <1>2, <1>5, <1>6, <1>7 DEF Pool, Untouched, ReadOnce, ReadWhole, Total

LEMMA ClaimKeepsPool ==
  ASSUME TypeOK, Endings, NEW s \in Sides, NEW w \in Workers, Pool(s), Claim(s, w)
  PROVE  Pool(s)'
PROOF
<1>1. /\ phase[s] = "reading" /\ pc[s][w] = "claiming"
      /\ UNCHANGED <<phase, files, outcomes, kind, result>>
  BY DEF Claim, At, listing
<1>2. /\ pc \in [Sides -> [Workers -> Places]] /\ claimed \in [Sides -> [Workers -> Nat]]
      /\ next \in [Sides -> Nat] /\ result[s] # "ok"
      /\ outcomes[s] \in SUBSET Reads
  BY <1>1, NotWholeYet DEF TypeOK, Over
<1>3. next'[s] = next[s] + 1 /\ next[s] \in Nat /\ Total(s)' = Total(s)
  BY <1>1, <1>2 DEF Claim, Total
<1>4. Total(s) \in Nat
  BY FilesAreCounted DEF Total
<1>5. ReadOnce(s)'
  <2>1. \A o \in outcomes[s] : o.index \in Nat
    BY <1>2 DEF Reads
  <2> QED
    BY <1>1, <1>3, <2>1 DEF Pool, ReadOnce
<1>6. CASE next[s] < Total(s)
  <2>1. claimed' = [claimed EXCEPT ![s][w] = next[s]] /\ pc' = [pc EXCEPT ![s][w] = "reading"]
    BY <1>6 DEF Claim, Total, GoTo
  <2>2. /\ claimed'[s][w] = next[s] /\ pc'[s][w] = "reading"
        /\ \A v \in Workers \ {w} : claimed'[s][v] = claimed[s][v] /\ pc'[s][v] = pc[s][v]
        /\ \A v \in Workers : claimed[s][v] \in Nat
    BY <1>2, <2>1
  <2>3. \A o \in outcomes[s] : o.index # next[s]
    BY <1>3 DEF Pool, ReadOnce
  <2>4. HeldOnce(s)'
    <3>1. \A v \in Workers \ {w} : pc[s][v] = "reading" => claimed[s][v] # next[s]
      BY <1>3 DEF Pool, HeldOnce
    <3>2. ASSUME NEW v \in Workers, pc'[s][v] = "reading"
          PROVE  /\ claimed'[s][v] < next'[s] /\ claimed'[s][v] < Total(s)
                 /\ \A o \in outcomes[s] : o.index # claimed'[s][v]
      <4>1. CASE v = w
        BY <1>3, <1>6, <2>2, <2>3, <4>1
      <4>2. CASE v # w
        <5>1. pc[s][v] = "reading" /\ claimed'[s][v] = claimed[s][v] /\ claimed[s][v] \in Nat
          BY <2>2, <3>2, <4>2
        <5>2. claimed[s][v] < next[s] /\ claimed[s][v] < Total(s)
              /\ \A o \in outcomes[s] : o.index # claimed[s][v]
          BY <5>1 DEF Pool, HeldOnce
        <5> QED
          BY <1>3, <5>1, <5>2
      <4> QED
        BY <4>1, <4>2
    <3>3. \A v \in Workers : \A u \in Workers \ {v} :
             pc'[s][v] = "reading" /\ pc'[s][u] = "reading" => claimed'[s][u] # claimed'[s][v]
      BY <2>2, <3>1 DEF Pool, HeldOnce
    <3> QED
      BY <1>1, <1>3, <3>2, <3>3 DEF HeldOnce
  <2>5. NoneDropped(s)'
    <3> SUFFICES ASSUME \A v \in Workers : pc'[s][v] # "broken",
                        NEW i \in Nat, i < next[s] + 1, i < Total(s)
                 PROVE  \/ \E o \in outcomes[s] : o.index = i
                        \/ \E v \in Workers : pc'[s][v] = "reading" /\ claimed'[s][v] = i
      BY <1>1, <1>3 DEF NoneDropped
    <3>1. CASE i = next[s]
      BY <2>2, <3>1
    <3>2. CASE i < next[s]
      <4>1. \A v \in Workers : pc[s][v] # "broken"
        BY <1>1, <2>2
      <4>2. \/ \E o \in outcomes[s] : o.index = i
            \/ \E v \in Workers : pc[s][v] = "reading" /\ claimed[s][v] = i
        BY <3>2, <4>1 DEF Pool, NoneDropped
      <4> QED
        BY <1>1, <2>2, <4>2
    <3> QED
      BY <1>3, <3>1, <3>2
  <2>6. FirstStays(s)'
    <3>1. 1 \in Workers
      BY RemoteReadAssumptions DEF Workers
    <3> QED
      BY <1>1, <1>3, <1>4, <2>2, <3>1 DEF Pool, FirstStays
  <2> QED
    BY <1>1, <1>2, <1>5, <2>4, <2>5, <2>6 DEF Pool, Untouched, ReadWhole
<1>7. CASE ~ (next[s] < Total(s))
  <2>1. claimed' = claimed /\ pc' = [pc EXCEPT ![s][w] = "done"]
    BY <1>7 DEF Claim, Total, GoTo
  <2>2. /\ pc'[s][w] = "done"
        /\ \A v \in Workers \ {w} : pc'[s][v] = pc[s][v]
        /\ \A v \in Workers : claimed[s][v] \in Nat
    BY <1>2, <2>1
  <2>3. HeldOnce(s)'
    BY <1>1, <1>3, <2>1, <2>2 DEF Pool, HeldOnce
  <2>4. NoneDropped(s)'
    <3> SUFFICES ASSUME \A v \in Workers : pc'[s][v] # "broken",
                        NEW i \in Nat, i < next[s] + 1, i < Total(s)
                 PROVE  \/ \E o \in outcomes[s] : o.index = i
                        \/ \E v \in Workers : pc'[s][v] = "reading" /\ claimed[s][v] = i
      BY <1>1, <1>3, <2>1 DEF NoneDropped
    <3>1. i < next[s] /\ \A v \in Workers : pc[s][v] # "broken"
      BY <1>1, <1>3, <1>4, <1>7, <2>2
    <3>2. \/ \E o \in outcomes[s] : o.index = i
          \/ \E v \in Workers : pc[s][v] = "reading" /\ claimed[s][v] = i
      BY <3>1 DEF Pool, NoneDropped
    <3> QED
      BY <1>1, <2>2, <3>2
  <2>5. FirstStays(s)'
    <3>1. 1 \in Workers
      BY RemoteReadAssumptions DEF Workers
    <3>2. next'[s] >= Total(s)
      BY <1>3, <1>4, <1>7
    <3> QED
      BY <1>1, <1>3, <2>2, <3>1, <3>2 DEF Pool, FirstStays
  <2> QED
    BY <1>1, <1>2, <1>5, <2>3, <2>4, <2>5 DEF Pool, Untouched, ReadWhole
<1> QED
  BY <1>6, <1>7

LEMMA ReadShardKeepsPool ==
  ASSUME TypeOK, Endings, NEW s \in Sides, NEW w \in Workers, Pool(s), ReadShard(s, w)
  PROVE  Pool(s)'
PROOF
<1>1. /\ phase[s] = "reading" /\ pc[s][w] = "reading"
      /\ UNCHANGED <<phase, files, next, claimed, kind, result>>
  BY DEF ReadShard, At, listing
<1>2. /\ pc \in [Sides -> [Workers -> Places]] /\ outcomes \in [Sides -> SUBSET Reads]
      /\ result[s] # "ok"
  BY <1>1, NotWholeYet DEF TypeOK, Over
<1>3. /\ claimed[s][w] < next[s] /\ claimed[s][w] < Total(s)
      /\ \A o \in outcomes[s] : o.index # claimed[s][w]
      /\ \A v \in Workers \ {w} : pc[s][v] = "reading" => claimed[s][v] # claimed[s][w]
  BY <1>1 DEF Pool, HeldOnce
<1>4. CASE UNCHANGED outcomes /\ pc' = [pc EXCEPT ![s][w] = "broken"]
  <2>1. pc'[s][w] = "broken" /\ \A v \in Workers \ {w} : pc'[s][v] = pc[s][v]
    BY <1>2, <1>4
  <2>2. HeldOnce(s)' /\ NoneDropped(s)'
    BY <1>1, <1>4, <2>1 DEF Pool, HeldOnce, NoneDropped, Total
  <2>3. FirstStays(s)'
    BY <1>1, <2>1, RemoteReadAssumptions DEF Pool, FirstStays, Total, Workers
  <2> QED
    BY <1>1, <1>2, <1>4, <2>2, <2>3 DEF Pool, Untouched, ReadOnce, ReadWhole, Total
<1>5. ASSUME NEW ok \in {TRUE, FALSE},
             outcomes' = [outcomes EXCEPT ![s] = @ \cup
                           {[index |-> claimed[s][w], by |-> w, ok |-> ok]}],
             pc' = [pc EXCEPT ![s][w] = "claiming"]
      PROVE  Pool(s)'
  <2> DEFINE read == [index |-> claimed[s][w], by |-> w, ok |-> ok]
  <2>1. pc'[s][w] = "claiming" /\ \A v \in Workers \ {w} : pc'[s][v] = pc[s][v]
    BY <1>2, <1>5
  <2>2. outcomes'[s] = outcomes[s] \cup {read} /\ read.index = claimed[s][w]
    BY <1>2, <1>5
  <2> HIDE DEF read
  <2>3. ReadOnce(s)'
    BY <1>1, <1>3, <2>2 DEF Pool, ReadOnce, Total
  <2>4. HeldOnce(s)'
    BY <1>1, <1>3, <2>1, <2>2 DEF Pool, HeldOnce, Total
  <2>5. NoneDropped(s)'
    <3> SUFFICES ASSUME \A v \in Workers : pc'[s][v] # "broken",
                        NEW i \in Nat, i < next[s], i < Total(s)
                 PROVE  \/ \E o \in outcomes'[s] : o.index = i
                        \/ \E v \in Workers : pc'[s][v] = "reading" /\ claimed[s][v] = i
      BY <1>1 DEF NoneDropped, Total
    <3>1. \A v \in Workers : pc[s][v] # "broken"
      BY <1>1, <2>1
    <3>2. \/ \E o \in outcomes[s] : o.index = i
          \/ \E v \in Workers : pc[s][v] = "reading" /\ claimed[s][v] = i
      BY <3>1 DEF Pool, NoneDropped
    <3> QED
      BY <1>1, <2>1, <2>2, <3>2
  <2>6. FirstStays(s)'
    BY <1>1, <2>1, RemoteReadAssumptions DEF Pool, FirstStays, Total, Workers
  <2> QED
    BY <1>1, <1>2, <2>3, <2>4, <2>5, <2>6 DEF Pool, Untouched, ReadWhole
<1> QED
  BY <1>4, <1>5 DEF ReadShard, GoTo

\* When every session is done or broken, and none is broken, all has been read.
LEMMA GatherKeepsPool ==
  ASSUME TypeOK, NEW s \in Sides, Pool(s), Gather(s)
  PROVE  Pool(s)'
PROOF
<1>1. /\ phase[s] = "reading" /\ UNCHANGED <<files, next, pc, claimed, outcomes, kind>>
      /\ \A w \in Workers : pc[s][w] \in {"done", "broken", "unused"}
  BY DEF Gather, listing, pool
<1>2. phase \in [Sides -> Phases] /\ result \in [Sides -> {None, "ok"} \cup Errors]
      /\ next[s] \in Nat
  BY DEF TypeOK
<1>3. phase'[s] = "ended"
  BY <1>2 DEF Gather, End
<1>4. ReadWhole(s)'
  <2>1. CASE \E w \in Workers : pc[s][w] = "broken"
    <3>1. result'[s] = "failed"
      BY <1>2, <2>1 DEF Gather, End
    <3> QED
      BY <3>1 DEF ReadWhole
  <2>2. CASE \A w \in Workers : pc[s][w] # "broken"
    <3>1. 1 \in Workers
      BY RemoteReadAssumptions DEF Workers
    <3>2. next[s] >= Total(s) /\ Total(s) \in Nat
      BY <1>1, <2>2, <3>1, FilesAreCounted DEF Pool, FirstStays, Total
    <3>3. \A i \in Nat : i < Total(s) => \E o \in outcomes[s] : o.index = i
      BY <1>1, <1>2, <2>2, <3>2 DEF Pool, NoneDropped
    <3> QED
      BY <1>1, <3>3 DEF ReadWhole, Total
  <2> QED
    BY <2>1, <2>2
<1> QED
  BY <1>1, <1>3, <1>4, PoolAtRest

LEMMA PoolStep ==
  ASSUME TypeOK, Endings, NEW s \in Sides, Pool(s), [Next]_vars
  PROVE  Pool(s)'
PROOF
<1>1. /\ phase \in [Sides -> Phases] /\ result \in [Sides -> {None, "ok"} \cup Errors]
      /\ kind \in [Sides -> Kinds]
  BY DEF TypeOK
<1>2. ASSUME /\ files'[s] = files[s] /\ next'[s] = next[s] /\ pc'[s] = pc[s]
             /\ claimed'[s] = claimed[s] /\ outcomes'[s] = outcomes[s] /\ kind'[s] = kind[s]
             /\ phase'[s] = phase[s] /\ result'[s] = result[s]
      PROVE  Pool(s)'
  <2>1. ReadWhole(s)'
    BY <1>2 DEF Pool, ReadWhole, Total
  <2>2. phase[s] \in {"checking", "receiving"} => kind[s] = "script"
    BY DEF Pool
  <2> QED
    BY <1>2, <2>1, <2>2, PoolAtRest
<1>7. ASSUME NEW r \in Sides, Panic(r) PROVE Pool(s)'
  <2>1. UNCHANGED <<files, next, pc, claimed, outcomes, kind, result>>
    BY <1>7 DEF Panic, listing, pool
  <2>2. CASE r # s
    <3>1. phase'[s] = phase[s]
      BY <1>1, <1>7, <2>2 DEF Panic
    <3> QED
      BY <1>2, <2>1, <3>1
  <2>3. CASE r = s
    <3>1. phase'[s] = "panicked"
      BY <1>1, <1>7, <2>3 DEF Panic
    <3>2. ReadWhole(s)'
      BY <2>1 DEF Pool, ReadWhole, Total
    <3> QED
      BY <2>1, <3>1, <3>2, PoolAtRest
  <2> QED
    BY <2>2, <2>3
<1>3. ASSUME NEW r \in Sides, Side(r) PROVE Pool(s)'
  <2>1. CASE r # s
    <3>1. /\ phase'[s] = phase[s] /\ result'[s] = result[s]
          /\ files'[s] = files[s] /\ pc'[s] = pc[s]
      <4>1. files \in [Sides -> SUBSET Shards] /\ pc \in [Sides -> [Workers -> Places]]
        BY DEF TypeOK
      <4>2. List(r) => files'[s] = files[s] /\ pc'[s] = pc[s]
                       /\ phase'[s] = phase[s] /\ result'[s] = result[s]
        BY <1>1, <2>1, <4>1 DEF List, End, listing
      <4>3. ~ List(r) => UNCHANGED <<files, pc>>
        BY <1>3 DEF Side, Gather, Exec, CheckAbort, Receive, Mark, listing, pool
      <4>4. ~ List(r) => phase'[s] = phase[s] /\ result'[s] = result[s]
        BY <1>1, <1>3, <2>1 DEF Side, Gather, Exec, CheckAbort, Receive, Mark, End
      <4> QED
        BY <4>2, <4>3, <4>4
    <3>2. UNCHANGED <<next, claimed, outcomes, kind>>
      BY <1>3 DEF Side, List, Gather, Exec, CheckAbort, Receive, Mark, pool
    <3> QED
      BY <1>2, <3>1, <3>2
  <2>2. CASE r = s /\ List(s)
    BY <2>2, ListKeepsPool
  <2>3. CASE r = s /\ Gather(s)
    BY <2>3, GatherKeepsPool
  <2>4. CASE r = s /\ (Exec(s) \/ CheckAbort(s) \/ Receive(s) \/ Mark(s))
    <3>1. UNCHANGED <<files, next, pc, claimed, outcomes, kind>>
      BY <2>4 DEF Exec, CheckAbort, Receive, Mark, listing, pool
    <3>2. /\ phase[s] \in {"start", "checking", "receiving"} => kind[s] = "script"
          /\ phase'[s] \in {"checking", "receiving", "ended", "marked"}
      <4>1. phase[s] \in {"checking", "receiving"} => kind[s] = "script"
        BY DEF Pool
      <4> QED
        BY <1>1, <2>4, <4>1 DEF Exec, CheckAbort, Receive, Mark, End
    <3>3. phase'[s] \in {"checking", "receiving"} => kind[s] = "script"
      BY <1>1, <2>4, <3>2 DEF Exec, CheckAbort, Receive, Mark, End
    <3>4. ReadWhole(s)'
      <4>1. CASE Mark(s)
        <5>1. result' = result
          BY <4>1 DEF Mark
        <5> QED
          BY <3>1, <5>1 DEF Pool, ReadWhole, Total
      <4>2. CASE ~ Mark(s)
        <5>1. kind[s] = "script"
          BY <2>4, <3>2, <4>2 DEF Exec, CheckAbort, Receive
        <5> QED
          BY <3>1, <5>1 DEF ReadWhole
      <4> QED
        BY <4>1, <4>2
    <3> QED
      BY <3>1, <3>2, <3>3, <3>4, PoolAtRest
  <2> QED
    BY <1>3, <2>1, <2>2, <2>3, <2>4 DEF Side
<1>4. ASSUME NEW r \in Sides, NEW w \in Workers, Session(r, w) PROVE Pool(s)'
  <2>1. CASE r # s
    <3>1. UNCHANGED <<phase, files, kind, result>>
      BY <1>4 DEF Session, Connect, OpenChannel, Claim, ReadShard, listing
    <3>2. pc'[s] = pc[s]
      <4>1. pc \in [Sides -> [Workers -> Places]]
        BY DEF TypeOK
      <4> QED
        BY <1>4, <2>1, <4>1 DEF Session, Connect, OpenChannel, Claim, ReadShard, GoTo
    <3>3. next'[s] = next[s] /\ claimed'[s] = claimed[s]
      <4>1. next \in [Sides -> Nat] /\ claimed \in [Sides -> [Workers -> Nat]]
        BY DEF TypeOK
      <4> QED
        BY <1>4, <2>1, <4>1 DEF Session, Connect, OpenChannel, Claim, ReadShard
    <3>4. outcomes'[s] = outcomes[s]
      <4>1. outcomes \in [Sides -> SUBSET Reads]
        BY DEF TypeOK
      <4> QED
        BY <1>4, <2>1, <4>1 DEF Session, Connect, OpenChannel, Claim, ReadShard
    <3> QED
      BY <1>2, <3>1, <3>2, <3>3, <3>4
  <2>2. CASE r = s
    BY <1>4, <2>2, MovingKeepsPool, ClaimKeepsPool, ReadShardKeepsPool DEF Session
  <2> QED
    BY <2>1, <2>2
<1>5. CASE Join
  BY <1>2, <1>5 DEF Join, listing, pool
<1>6. CASE UNCHANGED vars
  BY <1>2, <1>6 DEF vars, listing, pool
<1> QED
  BY <1>3, <1>4, <1>5, <1>6, <1>7 DEF Next

\* A directory that was read was read whole: nothing is dropped while the
\* sessions share out its shards, and none of them is read by two.
THEOREM ReadsAreWhole == Spec => []EveryShardOnce
PROOF
<1> DEFINE Pools == \A s \in Sides : Pool(s)
<1>1. Init => TypeOK /\ Endings /\ Pools
  BY TypeInit, TypeOfParts, EndingsInit, PoolInit
<1>2. TypeOK /\ Endings /\ Pools /\ [Next]_vars => (TypeOK /\ Endings /\ Pools)'
  BY TypeStep, EndingsStep, PoolStep
<1>3. TypeOK /\ Pools => EveryShardOnce
  <2> SUFFICES ASSUME TypeOK, Pools, NEW s \in Sides, result[s] = "ok", kind[s] = "directory",
                      NEW i \in 0..(Cardinality(files[s]) - 1)
               PROVE  \E o \in outcomes[s] : o.index = i /\ \A p \in outcomes[s] : p.index = i => p = o
    BY DEF EveryShardOnce
  <2>1. Total(s) \in Nat
    BY FilesAreCounted DEF Total
  <2>2. i \in Nat /\ i < Total(s)
    BY <2>1 DEF Total
  <2> QED
    BY <2>2 DEF Pool, ReadWhole, ReadOnce
<1> QED
  BY <1>1, <1>2, <1>3, PTL DEF Spec

\* Some of a set of numbers is the least.
LEMMA LeastNumber ==
  ASSUME NEW N \in SUBSET Nat, N # {}
  PROVE  \E n \in N : \A m \in N : n <= m
PROOF
<1> DEFINE less == {pair \in Nat \X Nat : pair[1] < pair[2]}
<1>1. IsWellFoundedOn(less, Nat)
  BY NatLessThanWellFounded DEF OpToRel
<1>2. PICK n \in N : \A m \in N : ~ (<<m, n>> \in less)
  BY <1>1, WFMin
<1>3. ASSUME NEW m \in N PROVE n <= m
  <2>1. n \in Nat /\ m \in Nat
    OBVIOUS
  <2>2. m < n => <<m, n>> \in less
    BY <2>1
  <2> QED
    BY <1>2, <2>1, <2>2
<1> QED
  BY <1>3

\* The owner of a name is the first of the shards read that hold it.
LEMMA OwnersAreFirst ==
  ASSUME TypeOK, NEW s \in Sides, Pool(s), NEW o \in outcomes[s], o.ok,
         NEW t \in Tensors, t \in Holds[FileAt(s, o.index)]
  PROVE  /\ t \in DOMAIN Owners(s)
         /\ ~ Before(s, FileAt(s, o.index), Owners(s)[t])
         /\ Owners(s)[t] # FileAt(s, o.index) => Before(s, Owners(s)[t], FileAt(s, o.index))
PROOF
<1> DEFINE holders(u) == {p \in Parsed(s) : u \in Holds[FileAt(s, p.index)]}
           first == CHOOSE q \in holders(t) : \A p \in holders(t) : q.index <= p.index
<1>1. o \in holders(t)
  BY DEF Parsed
<1>2. \A p \in holders(t) : p \in outcomes[s] /\ p.index \in Nat /\ p.index < Total(s)
  <2>1. \A p \in outcomes[s] : p.index \in Nat
    BY DEF TypeOK, Reads
  <2> QED
    BY <2>1 DEF Parsed, Pool, ReadOnce
<1>3. \E q \in holders(t) : \A p \in holders(t) : q.index <= p.index
  <2> HIDE DEF holders
  <2>1. {p.index : p \in holders(t)} \in SUBSET Nat /\ {p.index : p \in holders(t)} # {}
    BY <1>1, <1>2
  <2>2. \E n \in {p.index : p \in holders(t)} : \A m \in {p.index : p \in holders(t)} : n <= m
    BY <2>1, LeastNumber
  <2> QED
    BY <2>2
<1>4. first \in holders(t) /\ first.index <= o.index
  <2> HIDE DEF holders
  <2> QED
    BY <1>1, <1>3
<1>5. t \in DOMAIN Owners(s) /\ Owners(s)[t] = FileAt(s, first.index)
  BY <1>1 DEF Owners, Rank
<1>6. /\ first.index \in Nat /\ o.index \in Nat
      /\ first.index <= o.index /\ o.index < Cardinality(files[s])
  BY <1>1, <1>2, <1>4 DEF Total
<1> HIDE DEF first, holders
<1> QED
  BY <1>5, <1>6, PlacesAreInOrder

LEMMA GatherFinds ==
  ASSUME TypeOK, NEW s \in Sides, Pool(s), Findings, Gather(s)
  PROVE  Findings'
PROOF
<1>1. /\ UNCHANGED <<files, outcomes, indexed>> /\ phase[s] = "reading"
      /\ phase' = [phase EXCEPT ![s] = "ended"] /\ phase \in [Sides -> Phases]
  BY DEF Gather, End, TypeOK, listing, pool
<1>2. ASSUME NEW r \in Sides
      PROVE  checkpoint'[r] = checkpoint[r] => (Over(r) => Over(r)') /\ (Merged(r) => Merged(r)')
  BY <1>1 DEF Over, Merged, Parsed, FileAt, Ahead, Before
<1>3. CASE UNCHANGED checkpoint
  BY <1>2, <1>3 DEF Findings
<1>4. CASE checkpoint' = [checkpoint EXCEPT ![s] =
                            [owners |-> Owners(s), health |-> Health(s, Owners(s))]]
  <2>1. /\ DOMAIN checkpoint' = Sides
        /\ \A r \in Sides \ {s} : checkpoint'[r] = checkpoint[r]
        /\ checkpoint'[s].owners = Owners(s)
        /\ checkpoint'[s].health = Health(s, Owners(s))
    BY <1>4 DEF Findings
  <2>2. Over(s)'
    BY <1>1 DEF Over
  <2>3. \A f, g : Before(s, f, g)' = Before(s, f, g)
    BY <1>1 DEF Before
  <2>4. \A n : FileAt(s, n)' = FileAt(s, n)
    BY <1>1 DEF FileAt, Ahead, Before
  <2>5. DOMAIN Owners(s) \subseteq Tensors
    BY DEF Owners
  <2>6. ASSUME NEW t \in DOMAIN Owners(s), NEW o \in outcomes[s],
               o.ok, t \in Holds[FileAt(s, o.index)]
        PROVE  ~ Before(s, FileAt(s, o.index), Owners(s)[t])
    BY <2>5, <2>6, OwnersAreFirst
  <2>7. ASSUME indexed[s], NEW m \in Health(s, Owners(s)).missingTensors, NEW o \in Parsed(s),
               FileAt(s, o.index) = m[2], m[1] \in Holds[m[2]]
        PROVE  m[1] \in DOMAIN Owners(s) /\ Before(s, Owners(s)[m[1]], m[2])
    <3>1. /\ m \in {<<t, WeightMap[t]>> : t \in DOMAIN WeightMap}
          /\ m \notin {<<t, Owners(s)[t]>> : t \in DOMAIN Owners(s)}
      BY <2>7 DEF Health, Reconcile
    <3>2. PICK t \in DOMAIN WeightMap : m = <<t, WeightMap[t]>>
      BY <3>1
    <3>3. t \in Tensors /\ m[1] = t /\ m[2] = WeightMap[t]
      BY <3>2, RemoteReadAssumptions
    <3>4. o \in outcomes[s] /\ o.ok /\ t \in Holds[FileAt(s, o.index)]
      BY <2>7, <3>3 DEF Parsed
    <3>5. /\ t \in DOMAIN Owners(s)
          /\ Owners(s)[t] # m[2] => Before(s, Owners(s)[t], m[2])
      BY <2>7, <3>3, <3>4, OwnersAreFirst
    <3>6. Owners(s)[t] # m[2]
      BY <3>1, <3>2, <3>3, <3>5
    <3> QED
      BY <3>3, <3>5, <3>6
  <2>8. Merged(s)'
    BY <1>1, <2>1, <2>3, <2>4, <2>6, <2>7 DEF Merged, Parsed
  <2> QED
    BY <1>2, <2>1, <2>2, <2>8 DEF Findings
<1> QED
  BY <1>3, <1>4 DEF Gather

LEMMA FindingsStep ==
  ASSUME TypeOK, \A s \in Sides : Pool(s), Findings, [Next]_vars
  PROVE  Findings'
PROOF
<1>1. phase \in [Sides -> Phases] /\ listed \in [Sides -> BOOLEAN]
      /\ indexed \in [Sides -> BOOLEAN] /\ files \in [Sides -> SUBSET Shards]
      /\ outcomes \in [Sides -> SUBSET Reads]
  BY DEF TypeOK
<1>2. ASSUME UNCHANGED checkpoint,
             \A s \in Sides : Over(s) => /\ Over(s)' /\ files'[s] = files[s]
                                        /\ indexed'[s] = indexed[s] /\ outcomes'[s] = outcomes[s]
      PROVE  Findings'
  <2>1. ASSUME NEW s \in Sides, checkpoint[s] # None PROVE Over(s)' /\ Merged(s)'
    <3>1. Over(s) /\ Merged(s)
      BY <2>1 DEF Findings
    <3>2. files'[s] = files[s] /\ indexed'[s] = indexed[s] /\ outcomes'[s] = outcomes[s]
      BY <1>2, <3>1
    <3>3. \A f, g : Before(s, f, g)' = Before(s, f, g)
      BY <3>2 DEF Before
    <3>4. \A n : FileAt(s, n)' = FileAt(s, n)
      BY <3>2 DEF FileAt, Ahead, Before
    <3>5. Parsed(s)' = Parsed(s)
      BY <3>2 DEF Parsed
    <3> QED
      BY <1>2, <3>1, <3>2, <3>3, <3>4, <3>5 DEF Merged
  <2> QED
    BY <1>2, <2>1 DEF Findings
<1>3. ASSUME NEW r \in Sides, List(r) PROVE Findings'
  <2>1. UNCHANGED <<checkpoint, outcomes>> /\ ~ Over(r)
    BY <1>3 DEF List, Over
  <2>2. \A s \in Sides \ {r} : phase'[s] = phase[s] /\ files'[s] = files[s]
                               /\ indexed'[s] = indexed[s]
    BY <1>1, <1>3 DEF List, End, listing
  <2> QED
    BY <1>2, <2>1, <2>2 DEF Over
<1>4. ASSUME NEW r \in Sides, Gather(r) PROVE Findings'
  BY <1>4, GatherFinds
<1>5. ASSUME NEW r \in Sides, Exec(r) \/ CheckAbort(r) \/ Receive(r) \/ Mark(r)
      PROVE  Findings'
  <2>1. UNCHANGED <<checkpoint, outcomes, files, indexed>>
    BY <1>5 DEF Exec, CheckAbort, Receive, Mark, listing, pool
  <2>2. \A s \in Sides : Over(s) => Over(s)'
    BY <1>1, <1>5 DEF Exec, CheckAbort, Receive, Mark, End, Over
  <2> QED
    BY <1>2, <2>1, <2>2
<1>6. ASSUME NEW r \in Sides, NEW w \in Workers, Session(r, w) PROVE Findings'
  <2>1. UNCHANGED <<phase, checkpoint, files, indexed>> /\ ~ Over(r)
    BY <1>6 DEF Session, Connect, OpenChannel, Claim, ReadShard, At, Over, listing
  <2>2. \A s \in Sides \ {r} : outcomes'[s] = outcomes[s]
    BY <1>1, <1>6 DEF Session, Connect, OpenChannel, Claim, ReadShard
  <2> QED
    BY <1>2, <2>1, <2>2 DEF Over
<1>7. CASE Join \/ UNCHANGED vars
  <2>1. UNCHANGED <<phase, checkpoint, files, indexed, outcomes>>
    BY <1>7 DEF Join, vars, listing, pool
  <2> QED
    BY <1>2, <2>1 DEF Over
<1>8. ASSUME NEW r \in Sides, Panic(r) PROVE Findings'
  <2>1. UNCHANGED <<checkpoint, outcomes, files, indexed>> /\ ~ Over(r)
    BY <1>8 DEF Panic, Over, listing, pool
  <2>2. \A s \in Sides \ {r} : phase'[s] = phase[s]
    BY <1>1, <1>8 DEF Panic
  <2> QED
    BY <1>2, <2>1, <2>2 DEF Over
<1> QED
  BY <1>3, <1>4, <1>5, <1>6, <1>7, <1>8 DEF Next, Side

\* What a read leaves behind follows from its shards, and not from who read
\* which of them.
LEMMA MergeIsInOrder == Spec => [](FirstShardWins /\ MissingTensorsAreMissing)
PROOF
<1> DEFINE Pools == \A s \in Sides : Pool(s)
<1>1. Init => TypeOK /\ Endings /\ Pools /\ Findings
  <2>1. Init => Findings
    BY DEF Init, Findings
  <2> QED
    BY <2>1, TypeInit, TypeOfParts, EndingsInit, PoolInit
<1>2. TypeOK /\ Endings /\ Pools /\ Findings /\ [Next]_vars
        => (TypeOK /\ Endings /\ Pools /\ Findings)'
  BY TypeStep, EndingsStep, PoolStep, FindingsStep
<1>3. Findings => FirstShardWins /\ MissingTensorsAreMissing
  BY DEF Findings, Merged, FirstShardWins, MissingTensorsAreMissing
<1> QED
  BY <1>1, <1>2, <1>3, PTL DEF Spec

\* A name that several shards hold is the first one's, whoever read which.
THEOREM TheFirstShardWins == Spec => []FirstShardWins
PROOF
  BY MergeIsInOrder, PTL

\* The health report calls a tensor missing that its shard was found to hold
\* only where an earlier shard holds the name too.
THEOREM MissingIsMissing == Spec => []MissingTensorsAreMissing
PROOF
  BY MergeIsInOrder, PTL

=============================================================================
