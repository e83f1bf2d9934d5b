---------------------------- MODULE RenameProofs ----------------------------
(***************************************************************************)
(* Theorems about Rename, for any number of editors, commands and shards,  *)
(* any names, headers and rules, and without regard to the bounds.         *)
(*                                                                         *)
(* A header that is not mixed was replaced by the image of a header that   *)
(* was read whole, under a rule that plan() let through: RenamedIsWhole    *)
(* says that plan()'s checks are enough for that image to be whole.  The   *)
(* rest is that no step of any process makes another sure of a header that *)
(* is not.                                                                 *)
(***************************************************************************)
EXTENDS Rename, WellFoundedInduction, TLAPS

\* The next shard to be rewritten is one of those still to be.
LEMMA FirstIsThere ==
    ASSUME NEW todo \in SUBSET Shards, todo # {}
    PROVE  First(todo) \in todo
PROOF
<1> DEFINE less == {ss \in Nat \X Nat : ss[1] < ss[2]}
<1>1. IsWellFoundedOn(less, Nat)
  BY NatLessThanWellFounded DEF OpToRel
<1>2. todo \subseteq Nat
  BY CountIsNat DEF Shards
<1>3. PICK s \in todo : \A t \in todo : ~ (<<t, s>> \in less)
  BY <1>1, <1>2, WFMin
<1>4. ASSUME NEW t \in todo PROVE s \leq t
  <2>1. s \in Nat /\ t \in Nat
    BY <1>2
  <2>2. t < s => <<t, s>> \in less
    BY <2>1
  <2>3. ~ (t < s)
    BY <1>3, <2>2
  <2> QED
    BY <2>1, <2>3
<1> QED
  BY <1>4 DEF First

\* rebuild makes a header of a header, whatever the rule.
LEMMA RenamedIsHeader ==
    ASSUME NEW h \in Headers, NEW rule \in Rules
    PROVE  Renamed(h, rule) \in Headers
PROOF
<1> DEFINE keys == {rule[k] : k \in DOMAIN h}
           old(n) == CHOOSE k \in DOMAIN h : rule[k] = n
<1>1. \A n \in keys : old(n) \in DOMAIN h
  OBVIOUS
<1>2. Renamed(h, rule) = [n \in keys |-> h[old(n)]]
  BY DEF Renamed
<1> HIDE DEF old
<1>3. DOMAIN h \subseteq Names /\ \A k \in DOMAIN h : h[k] \in Entries
  BY DEF Headers
<1>4. keys \in SUBSET Names
  BY <1>3, RulesAreMaps
<1>5. Renamed(h, rule) \in [keys -> Entries]
  BY <1>1, <1>2, <1>3
<1> QED
  BY <1>4, <1>5 DEF Headers

\* rebuild under a rule that the checks of plan() let through: the same
\* tensors, each under a name of its own that it may have.
LEMMA RenamedIsWhole ==
    ASSUME NEW s \in Shards, NEW h, Whole(h, s), NEW rule \in Rules,
           \A j, k \in DOMAIN h : rule[j] = rule[k] => j = k,
           \A k \in DOMAIN h : rule[k] # k => rule[k] \notin Reserved,
           Bytes[{rule[k] : k \in DOMAIN h}] \leq Room[s]
    PROVE  Whole(Renamed(h, rule), s)
PROOF
<1> DEFINE new == Renamed(h, rule)
           keys == {rule[k] : k \in DOMAIN h}
           old(n) == CHOOSE k \in DOMAIN h : rule[k] = n
<1>1. DOMAIN new = keys /\ \A n \in keys : new[n] = h[old(n)]
  BY DEF Renamed
<1>2. \A n \in keys : old(n) \in DOMAIN h /\ rule[old(n)] = n
  OBVIOUS
<1>3. \A k \in DOMAIN h : rule[k] \in keys /\ old(rule[k]) = k
  BY <1>2
<1> HIDE DEF old
<1>6. new \in Headers
  BY RenamedIsHeader DEF Whole
<1>7. Tensors(new) = Tensors(h)
  BY <1>1, <1>2, <1>3 DEF Tensors
<1>8. ASSUME NEW m \in keys, NEW n \in keys, new[m] = new[n] PROVE m = n
  <2>1. old(m) = old(n)
    BY <1>1, <1>2, <1>8 DEF Whole
  <2> QED
    BY <1>2, <2>1
<1>9. keys \cap Reserved = {}
  BY DEF Whole
<1> HIDE DEF new, keys
<1>10. Bytes[keys] \leq Room[s]
  BY DEF keys
<1> QED
  BY <1>1, <1>6, <1>7, <1>8, <1>9, <1>10 DEF Whole, new
  
\* What plan() makes of an index file it could parse.
LEMMA NewTextsAreTexts ==
    ASSUME NEW text \in Texts \cup {Absent}, NEW rule \in Rules,
           NEW new \in NewTexts(text, rule)
    PROVE  new \in Texts \cup {Keep}
PROOF
<1>1. CASE text = Absent \/ \A k \in DOMAIN text : rule[k] = k
  BY <1>1 DEF NewTexts
<1>2. CASE ~ (text = Absent \/ \A k \in DOMAIN text : rule[k] = k)
  <2> DEFINE keys == {rule[k] : k \in DOMAIN text}
  <2>1. new \in [keys -> Shards]
    BY <1>2 DEF NewTexts
  <2>2. DOMAIN text \subseteq Names
    BY <1>2 DEF Texts
  <2>3. keys \in SUBSET Names
    BY <2>2, RulesAreMaps
  <2> QED
    BY <2>1, <2>3 DEF Texts
<1> QED
  BY <1>1, <1>2

\* A process that starts over holds nothing.
LEMMA FreshIsSound ==
    ASSUME NEW pc \in {"idle", "reading"}
    PROVE  Fresh(pc) \in Jobs /\ JobSound(Fresh(pc))
PROOF BY DEF Fresh, Jobs, JobSound

\* What a process is left with after an error or a refusal.
LEMMA GivenIsSound ==
    ASSUME IInv, NEW p \in Procs, job[p].pc \notin {"idle", "reading"}
    PROVE  Given(p) \in Jobs /\ JobSound(Given(p))
PROOF
<1>1. job[p] \in Jobs /\ JobSound(job[p])
  BY DEF IInv, TypeOK
<1>2. CASE p \in Commands
  BY <1>2, FreshIsSound DEF Given
<1>3. CASE p \notin Commands /\ job[p].begun
  <2>1. Given(p) = [job[p] EXCEPT !.pc = "loaded", !.todo = {}, !.text = Keep,
                                  !.crossed = FALSE]
    BY <1>3 DEF Given
  <2> QED
    BY <1>1, <2>1 DEF Jobs, JobSound, Unfinished
<1>4. CASE p \notin Commands /\ ~ job[p].begun
  <2>1. Given(p) = [Fresh("loaded") EXCEPT !.snap = job[p].snap,
                                           !.drifted = job[p].drifted,
                                           !.unsure = job[p].unsure]
    BY <1>4 DEF Given
  <2> QED
    BY <1>1, <2>1 DEF Fresh, Jobs, JobSound, Unfinished
<1> QED
  BY <1>2, <1>3, <1>4

\* One process goes from a sound state of its own to another, and no file
\* changes.
LEMMA OwnStepKeeps ==
    ASSUME IInv, NEW p \in Procs, NEW j \in Jobs, JobSound(j),
           job' = [job EXCEPT ![p] = j],
           UNCHANGED <<header, index, mixed, locked>>,
           faults' \in 0..MaxFaults, loads' \in 0..MaxLoads
    PROVE  IInv'
PROOF
<1>1. \A q \in Procs : job'[q] = IF q = p THEN j ELSE job[q]
  BY DEF IInv, TypeOK
<1>2. TypeOK'
  BY DEF IInv, TypeOK
<1>3. HeadersStayWhole'
  BY DEF IInv, HeadersStayWhole
<1>4. \A q \in Procs : JobSound(job'[q])
  BY <1>1 DEF IInv
<1> QED
  BY <1>2, <1>3, <1>4 DEF IInv, JobSound

\* A process rewrites part of a file: the others are left as they were, or
\* marked as drifted.
LEMMA OthersStaySound ==
    ASSUME IInv, NEW p \in Procs, NEW f, NEW j \in Jobs, JobSound(j),
           job' = AfterWriteBy(p, f, j)
    PROVE  /\ job' \in [Procs -> Jobs]
           /\ \A q \in Procs : JobSound(job'[q])
PROOF
<1>1. SUFFICES ASSUME NEW q \in Procs
               PROVE  job'[q] \in Jobs /\ JobSound(job'[q])
  BY DEF AfterWriteBy
<1>2. job[q] \in Jobs /\ JobSound(job[q])
  BY DEF IInv, TypeOK
<1>3. CASE q = p
  <2>1. job'[q] = [j EXCEPT !.begun = TRUE]
    BY <1>3 DEF AfterWriteBy
  <2>2. job'[q] \in Jobs
    BY <2>1 DEF Jobs
  <2>3. /\ job'[q].pc = j.pc /\ job'[q].snap = j.snap /\ job'[q].rule = j.rule
        /\ job'[q].todo = j.todo /\ job'[q].text = j.text
        /\ job'[q].unsure = j.unsure /\ job'[q].crossed = j.crossed
        /\ job'[q].drifted = j.drifted
    BY <2>1 DEF Jobs
  <2> QED
    BY <2>2, <2>3 DEF JobSound, Unfinished
<1>4. CASE q # p /\ job[q].pc \in {"idle", "done"}
  <2>1. job'[q] = Fresh("idle")
    BY <1>4 DEF AfterWriteBy
  <2> QED
    BY <2>1, FreshIsSound
<1>5. CASE q # p /\ job[q].pc \notin {"idle", "done"}
  <2> DEFINE more == job[q].unsure \cup ({f} \cap Unfinished(job[q]))
             crossed == job[q].crossed \/ InsideOf(job[q], f)
  <2>1. job'[q] = [job[q] EXCEPT !.drifted = TRUE, !.unsure = more, !.crossed = crossed]
    BY <1>5 DEF AfterWriteBy
  <2>2. more \in SUBSET Shards
    BY <1>2 DEF Jobs, Unfinished
  <2>3. crossed \in BOOLEAN
    BY <1>2 DEF Jobs, InsideOf
  <2>4. job[q].unsure \subseteq more
    OBVIOUS
  <2> HIDE DEF more, crossed
  <2>5. job'[q] \in Jobs
    BY <1>2, <2>1, <2>2, <2>3 DEF Jobs
  <2>6. /\ job'[q].pc = job[q].pc /\ job'[q].snap = job[q].snap
        /\ job'[q].rule = job[q].rule /\ job'[q].todo = job[q].todo
        /\ job'[q].text = job[q].text /\ job'[q].unsure = more /\ job'[q].drifted
    BY <1>2, <2>1 DEF Jobs
  <2> QED
    BY <1>2, <2>4, <2>5, <2>6 DEF JobSound
<1> QED
  BY <1>3, <1>4, <1>5

\* What a process with a plan makes of the header it is to rewrite next.
LEMMA NewIsHeader ==
    ASSUME NEW p \in Procs, job[p] \in Jobs, JobSound(job[p]),
           job[p].pc \in {"writing", "inside"}, job[p].todo # {}
    PROVE  NewHeader(p) \in Headers
PROOF
<1>1. First(job[p].todo) \in Shards
  BY FirstIsThere DEF Jobs
<1>2. job[p].snap[First(job[p].todo)] \in Headers /\ job[p].rule \in Rules
  BY <1>1 DEF JobSound
<1> QED
  BY <1>2, RenamedIsHeader DEF NewHeader

\* The type invariant, and that every header that is not mixed is whole:
\* initially, and by every step.
LEMMA Inductive ==
    /\ Init => IInv
    /\ IInv /\ [Next]_vars => IInv'
PROOF
<1>1. ASSUME Init PROVE IInv
  <2>1. \A s \in Shards : Files[s] \in Headers
    BY FilesAreWhole DEF Whole
  <2>2. \A p \in Procs : job[p] \in Jobs /\ JobSound(job[p])
    BY <1>1, FreshIsSound DEF Init
  <2>3. TypeOK
    BY <1>1, <2>1, <2>2, IndexesAreTexts, BoundsAreNat DEF Init, TypeOK
  <2>4. HeadersStayWhole
    BY <1>1, FilesAreWhole DEF Init, HeadersStayWhole
  <2> QED
    BY <2>2, <2>3, <2>4 DEF IInv
<1>2. ASSUME IInv, Next PROVE IInv'
  <2> USE <1>2
  <2>0. /\ \A p \in Procs : job[p] \in Jobs /\ JobSound(job[p])
        /\ faults \in 0..MaxFaults /\ loads \in 0..MaxLoads
    BY DEF IInv, TypeOK
  <2>1. ASSUME NEW p \in Procs, Load(p) PROVE IInv'
    <3>1. loads' \in 0..MaxLoads /\ faults' \in 0..MaxFaults
      BY <2>0, <2>1, BoundsAreNat DEF Load
    <3> QED
      BY <2>1, <3>1, FreshIsSound, OwnStepKeeps DEF Load
  <2>2. ASSUME NEW p \in Procs, NEW s \in Shards, ReadHeader(p, s) PROVE IInv'
    <3>1. PICK h \in Readings(p, s) \ {Torn} :
             job' = [job EXCEPT ![p].snap[s] = h, ![p].unsure = @ \cup (mixed \cap {s})]
      BY <2>2 DEF ReadHeader
    <3> DEFINE more == job[p].unsure \cup (mixed \cap {s})
               j == [job[p] EXCEPT !.snap[s] = h, !.unsure = more]
    <3>2. h \in Headers
      BY MixturesAreTexts DEF Readings, IInv, TypeOK
    <3>3. s \notin more => Whole(h, s)
      BY DEF Readings, IInv, HeadersStayWhole
    <3>4. more \in SUBSET Shards /\ job[p].unsure \subseteq more
      BY <2>0 DEF Jobs
    <3>5. job' = [job EXCEPT ![p] = j]
      BY <2>0, <3>1 DEF Jobs
    <3> HIDE DEF more
    <3>6. /\ j.pc = job[p].pc /\ j.crossed = job[p].crossed /\ j.drifted = job[p].drifted
          /\ j.unsure = more /\ j.snap = [job[p].snap EXCEPT ![s] = h]
      BY <2>0 DEF Jobs
    <3>7. j \in Jobs
      BY <2>0, <3>2, <3>4 DEF Jobs
    <3> HIDE DEF j
    <3>9. j.pc = "reading" /\ \A t \in Shards : j.snap[t] = IF t = s THEN h ELSE job[p].snap[t]
      BY <2>0, <2>2, <3>6 DEF ReadHeader, Jobs
    <3>10. \A t \in Shards : j.snap[t] # Unread =>
              j.snap[t] \in Headers /\ (t \notin j.unsure => Whole(j.snap[t], t))
      BY <2>0, <3>2, <3>3, <3>4, <3>6, <3>9 DEF JobSound
    <3>11. \A t \in Unfinished(j) \cap j.unsure : j.drifted
      <4>1. ASSUME NEW t \in Unfinished(j) \cap j.unsure PROVE j.drifted
        <5>1. t \in Shards /\ t # s /\ job[p].snap[t] = Unread
          BY <3>2, <3>9, <4>1, MarksAreApart DEF Unfinished
        <5>2. t \in job[p].unsure
          BY <3>6, <4>1, <5>1 DEF more
        <5> QED
          BY <2>0, <2>2, <3>6, <5>1, <5>2 DEF ReadHeader, JobSound, Unfinished
      <4> QED
        BY <4>1
    <3>8. JobSound(j)
      BY <2>0, <3>6, <3>9, <3>10, <3>11 DEF JobSound
    <3> QED
      BY <2>0, <2>2, <3>5, <3>7, <3>8, OwnStepKeeps DEF ReadHeader
  <2>3. ASSUME NEW p \in Procs, Loaded(p) PROVE IInv'
    <3> DEFINE j == [job[p] EXCEPT !.pc = "loaded"]
    <3>1. job' = [job EXCEPT ![p] = j]
      BY <2>3 DEF Loaded
    <3>2. j \in Jobs /\ JobSound(j)
      BY <2>0, <2>3 DEF Loaded, Jobs, JobSound, Unfinished
    <3> HIDE DEF j
    <3> QED
      BY <2>0, <2>3, <3>1, <3>2, OwnStepKeeps DEF Loaded
  <2>4. ASSUME NEW p \in Procs, NEW s \in Shards, LoadFails(p, s) PROVE IInv'
    BY <2>0, <2>4, FreshIsSound, OwnStepKeeps DEF LoadFails
  <2>5. ASSUME NEW p \in Procs, NEW rule \in Rules, PlanRule(p, rule) PROVE IInv'
    <3>1. index \in Texts \cup {Absent}
      BY <2>5 DEF PlanRule, IInv, TypeOK
    <3> DEFINE j(text) == [pc |-> "planned", snap |-> job[p].snap, rule |-> rule,
                           todo |-> Changed(job[p].snap, rule), text |-> text,
                           was |-> index, begun |-> job[p].begun,
                           drifted |-> Drifts(job[p], rule),
                           unsure |-> job[p].unsure, crossed |-> FALSE]
    <3>2. PICK text \in NewTexts(index, rule) : job' = [job EXCEPT ![p] = j(text)]
      BY <2>5 DEF PlanRule
    <3>3. text \in Texts \cup {Keep}
      BY <3>1, NewTextsAreTexts
    <3>4. Drifts(job[p], rule) \in BOOLEAN
      BY <2>0 DEF Jobs, Drifts
    <3>5. Changed(job[p].snap, rule) \in SUBSET Shards
      BY DEF Changed
    <3>6. j(text) \in Jobs
      BY <2>0, <3>1, <3>3, <3>4, <3>5 DEF Jobs
    <3>7. JobSound(j(text))
      BY <2>0, <2>5 DEF PlanRule, JobSound, Unfinished
    <3> HIDE DEF j
    <3> QED
      BY <2>0, <2>5, <3>2, <3>6, <3>7, OwnStepKeeps DEF PlanRule
  <2>6. ASSUME NEW p \in Procs, NEW rule \in Rules, PlanRefused(p, rule) PROVE IInv'
    BY <2>0, <2>6, GivenIsSound, OwnStepKeeps DEF PlanRefused
  <2>7. ASSUME NEW p \in Procs, Decline(p) \/ PreflightFails(p) PROVE IInv'
    BY <2>0, <2>7, GivenIsSound, OwnStepKeeps DEF Decline, PreflightFails
  <2>8. ASSUME NEW p \in Procs, Leave(p) PROVE IInv'
    BY <2>0, <2>8, FreshIsSound, OwnStepKeeps DEF Leave
  <2>9. ASSUME NEW p \in Procs, Preflight(p) PROVE IInv'
    <3> DEFINE j == [job[p] EXCEPT !.pc = "writing"]
    <3>1. job' = [job EXCEPT ![p] = j]
      BY <2>9 DEF Preflight
    <3>2. j \in Jobs /\ JobSound(j)
      BY <2>0, <2>9 DEF Preflight, Jobs, JobSound, Unfinished
    <3> HIDE DEF j
    <3> QED
      BY <2>0, <2>9, <3>1, <3>2, OwnStepKeeps DEF Preflight
  <2>10. ASSUME NEW p \in Procs, WriteHeader(p) PROVE IInv'
    <3> DEFINE s == First(job[p].todo)
               j == [job[p] EXCEPT !.pc = "inside"]
    <3>1. j \in Jobs /\ JobSound(j)
      BY <2>0, <2>10 DEF WriteHeader, Jobs, JobSound, Unfinished
    <3>2. job[p].pc \in {"writing", "inside"} /\ job[p].todo # {}
      BY <2>0, <2>10 DEF WriteHeader, JobSound
    <3>3. s \in Shards
      BY <2>0, <3>2, FirstIsThere DEF Jobs
    <3>4. PICK h \in {header[s], NewHeader(p)} \cup Mixtures[s] :
             header' = [header EXCEPT ![s] = h]
      BY <2>10 DEF WriteHeader
    <3>5. mixed' = mixed \cup {s} /\ job' = AfterWriteBy(p, s, j)
      BY <2>10 DEF WriteHeader
    <3>6. NewHeader(p) \in Headers
      BY <2>0, <3>2, NewIsHeader
    <3> HIDE DEF j, s
    <3>7. h \in Headers \cup {Torn}
      BY <3>3, <3>4, <3>6, MixturesAreTexts DEF IInv, TypeOK
    <3>8. job' \in [Procs -> Jobs] /\ \A q \in Procs : JobSound(job'[q])
      BY <3>1, <3>5, OthersStaySound
    <3>9. TypeOK'
      BY <2>10, <3>3, <3>4, <3>5, <3>7, <3>8 DEF WriteHeader, IInv, TypeOK
    <3>10. HeadersStayWhole'
      BY <3>4, <3>5 DEF IInv, TypeOK, HeadersStayWhole
    <3> QED
      BY <3>8, <3>9, <3>10 DEF IInv, JobSound
  <2>11. ASSUME NEW p \in Procs, EndHeader(p) PROVE IInv'
    <3> DEFINE s == First(job[p].todo)
               new == Renamed(job[p].snap[s], job[p].rule)
               j == [job[p] EXCEPT !.pc = "writing", !.todo = @ \ {s}, !.crossed = FALSE]
    <3>1. /\ job[p].todo \in SUBSET Shards /\ job[p].todo # {}
          /\ job[p].rule \in Rules /\ Sound(job[p].snap, job[p].rule)
          /\ job[p].todo \subseteq Changed(job[p].snap, job[p].rule)
      BY <2>0, <2>11 DEF EndHeader, Jobs, JobSound
    <3>2. s \in job[p].todo /\ s \in Shards
      BY <3>1, FirstIsThere
    <3>3. PICK h \in {new} \cup (IF job[p].crossed THEN {header[s]} \cup Mixtures[s] ELSE {}) :
             header' = [header EXCEPT ![s] = h]
      BY <2>11 DEF EndHeader, NewHeader
    <3>4. /\ mixed' = IF job[p].crossed \/ s \in job[p].unsure THEN mixed \cup {s}
                      ELSE mixed \ {s}
          /\ job' = AfterWriteBy(p, s, j)
      BY <2>11 DEF EndHeader
    <3>5. new \in Headers
      BY <2>0, <2>11, <3>1, NewIsHeader DEF EndHeader, NewHeader
    <3> HIDE DEF s, new
    <3>6. h \in Headers \cup {Torn}
      BY <3>2, <3>3, <3>5, MixturesAreTexts DEF IInv, TypeOK
    <3>7. ASSUME s \notin mixed' PROVE h = new /\ Whole(new, s)
      <4>0. ~ job[p].crossed /\ s \notin job[p].unsure
        BY <3>4, <3>7
      <4>3. Whole(job[p].snap[s], s)
        BY <2>0, <2>11, <3>2, <4>0 DEF EndHeader, JobSound
      <4>1. DOMAIN job[p].snap[s] \subseteq NamesOf(job[p].snap)
        BY <3>2 DEF NamesOf
      <4>2. Bytes[{job[p].rule[k] : k \in DOMAIN job[p].snap[s]}] \leq Room[s]
        BY <3>1, <3>2 DEF Sound, HeadersFit
      <4> QED
        BY <3>1, <3>2, <3>3, <4>0, <4>1, <4>2, <4>3, RenamedIsWhole
           DEF Sound, NoCollisions, TargetsUsable, new
    <3>8. j \in Jobs /\ JobSound(j)
      BY <2>0, <2>11, <3>1 DEF EndHeader, Jobs, JobSound, Unfinished
    <3> HIDE DEF j
    <3>9. job' \in [Procs -> Jobs] /\ \A q \in Procs : JobSound(job'[q])
      BY <3>4, <3>8, OthersStaySound
    <3>10. TypeOK'
      BY <2>11, <3>2, <3>3, <3>4, <3>6, <3>9 DEF EndHeader, IInv, TypeOK
    <3>11. HeadersStayWhole'
      BY <3>2, <3>3, <3>4, <3>7 DEF IInv, TypeOK, HeadersStayWhole
    <3> QED
      BY <3>9, <3>10, <3>11 DEF IInv, JobSound
  <2>12. ASSUME NEW p \in Procs, BeginIndex(p) PROVE IInv'
    <3> DEFINE j == [job[p] EXCEPT !.pc = "emptied"]
    <3>1. j \in Jobs /\ JobSound(j)
      BY <2>0, <2>12 DEF BeginIndex, Jobs, JobSound, Unfinished
    <3>2. job' = AfterWriteBy(p, IndexFile, j)
      BY <2>12 DEF BeginIndex
    <3> HIDE DEF j
    <3>3. job' \in [Procs -> Jobs] /\ \A q \in Procs : JobSound(job'[q])
      BY <3>1, <3>2, OthersStaySound
    <3>4. TypeOK' /\ HeadersStayWhole'
      BY <2>12, <3>3 DEF BeginIndex, IInv, TypeOK, HeadersStayWhole
    <3> QED
      BY <3>3, <3>4 DEF IInv, JobSound
  <2>13. ASSUME NEW p \in Procs, IndexLocked(p) PROVE IInv'
    BY <2>0, <2>13, GivenIsSound, OwnStepKeeps DEF IndexLocked
  <2>19. ASSUME NEW p \in Procs, WriteIndex(p) PROVE IInv'
    <3>1. job' = AfterWriteBy(p, IndexFile, job[p])
      BY <2>19 DEF WriteIndex
    <3>2. job' \in [Procs -> Jobs] /\ \A q \in Procs : JobSound(job'[q])
      BY <2>0, <3>1, OthersStaySound
    <3>3. index' \in Texts \cup {Absent, Torn}
      BY <2>19, MixturesAreTexts DEF WriteIndex, IInv, TypeOK
    <3>4. TypeOK' /\ HeadersStayWhole'
      BY <2>19, <3>2, <3>3 DEF WriteIndex, IInv, TypeOK, HeadersStayWhole
    <3> QED
      BY <3>2, <3>4 DEF IInv, JobSound
  <2>14. ASSUME NEW p \in Procs, EndIndex(p) PROVE IInv'
    <3> DEFINE j == [job[p] EXCEPT !.pc = "done", !.crossed = FALSE]
    <3>1. j \in Jobs /\ JobSound(j)
      BY <2>0, <2>14 DEF EndIndex, Jobs, JobSound, Unfinished
    <3>2. job' = AfterWriteBy(p, IndexFile, j)
      BY <2>14 DEF EndIndex
    <3> HIDE DEF j
    <3>3. job' \in [Procs -> Jobs] /\ \A q \in Procs : JobSound(job'[q])
      BY <3>1, <3>2, OthersStaySound
    <3>4. index' \in Texts \cup {Absent, Torn}
      <4>1. job[p].text \in Texts
        BY <2>0, <2>14 DEF EndIndex, Jobs, JobSound
      <4> QED
        BY <2>14, <4>1, MixturesAreTexts DEF EndIndex, IInv, TypeOK
    <3>5. TypeOK' /\ HeadersStayWhole'
      BY <2>14, <3>3, <3>4 DEF EndIndex, IInv, TypeOK, HeadersStayWhole
    <3> QED
      BY <3>3, <3>5 DEF IInv, JobSound
  <2>15. ASSUME NEW p \in Procs, Finish(p) PROVE IInv'
    <3> DEFINE j == [job[p] EXCEPT !.pc = "done"]
    <3>1. job' = [job EXCEPT ![p] = j]
      BY <2>15 DEF Finish
    <3>2. j \in Jobs /\ JobSound(j)
      BY <2>0, <2>15 DEF Finish, Jobs, JobSound, Unfinished
    <3> HIDE DEF j
    <3> QED
      BY <2>0, <2>15, <3>1, <3>2, OwnStepKeeps DEF Finish
  <2>16. ASSUME NEW p \in Procs, WriteFails(p) PROVE IInv'
    <3>1. faults' \in 0..MaxFaults
      BY <2>0, <2>16, BoundsAreNat DEF WriteFails
    <3> QED
      BY <2>0, <2>16, <3>1, GivenIsSound, OwnStepKeeps DEF WriteFails
  <2>17. ASSUME NEW p \in Procs, Die(p) PROVE IInv'
    <3>1. faults' \in 0..MaxFaults
      BY <2>0, <2>17, BoundsAreNat DEF Die
    <3> QED
      BY <2>0, <2>17, <3>1, FreshIsSound, OwnStepKeeps DEF Die
  <2>18. ASSUME NEW f \in Lockable, Chmod(f) PROVE IInv'
    <3>1. locked' \subseteq Lockable
      BY <2>18 DEF Chmod, IInv, TypeOK
    <3>2. TypeOK'
      BY <2>18, <3>1 DEF Chmod, IInv, TypeOK
    <3> QED
      BY <2>18, <3>2 DEF Chmod, IInv, HeadersStayWhole
  <2> QED
    BY <2>1, <2>2, <2>3, <2>4, <2>5, <2>6, <2>7, <2>8, <2>9, <2>10, <2>11,
       <2>12, <2>13, <2>14, <2>15, <2>16, <2>17, <2>18, <2>19 DEF Next, Step
<1>3. ASSUME IInv, UNCHANGED vars PROVE IInv'
  BY <1>3 DEF vars, IInv, TypeOK, HeadersStayWhole
<1> QED
  BY <1>1, <1>2, <1>3

\* Whoever renames at once, whatever fails and whenever: the files and the
\* processes' memory keep their types (TypeOK of Rename).
THEOREM TypeCorrect == Spec => []TypeOK
PROOF
<1>1. IInv => TypeOK
  BY DEF IInv
<1> QED
  BY <1>1, Inductive, PTL DEF Spec

\* Loaded::plan's checks suffice: a header that no rewriting is under way in, or
\* was cut off in or overlapped in since it was last rewritten from a whole one,
\* lists its shard's tensors, each once and under a name it may have, within its
\* region.
THEOREM HeadersWhole == Spec => []HeadersStayWhole
PROOF
<1>1. IInv => HeadersStayWhole
  BY DEF IInv
<1> QED
  BY <1>1, Inductive, PTL DEF Spec

----------------------------------------------------------------------------
(* What a process holds, against the files: for as long as nobody else has *)
(* rewritten any, the files are what it loaded with part of its plan done. *)

\* The headers are those it read, but for the shards its plan goes through:
\* those it is done with have the plan's names.
HeadersFollow(j) ==
    /\ ~ j.begun => \A s \in Shards : j.snap[s] # Unread => header[s] = j.snap[s]
    /\ j.begun => /\ j.pc # "reading" /\ j.rule \in Rules
                  /\ \A s \in Shards \ Changed(j.snap, j.rule) : header[s] = j.snap[s]
    /\ j.pc = "planned" => j.todo = Changed(j.snap, j.rule)
    /\ j.pc \in {"writing", "inside", "emptied", "done"} =>
          \A s \in Shards \ j.todo : header[s] = Renamed(j.snap[s], j.rule)
    /\ j.pc \in {"emptied", "done"} => j.todo = {}

\* The index is the one plan() read until it is emptied, and its new text after.
IndexWaits(j) ==
    /\ j.pc \in {"planned", "writing", "inside"} => index = j.was
    /\ j.pc = "loaded" /\ j.begun => index \in {j.was, Torn}
    /\ j.pc = "emptied" => index = Torn
    /\ j.pc = "done" => index = IF j.text = Keep THEN j.was ELSE j.text

\* A plan stays what plan() let through.
PlanStands(j) ==
    j.pc \in {"planned", "writing", "inside", "emptied", "done"} =>
        j.rule \in Rules /\ Sound(j.snap, j.rule) /\ j.text \in NewTexts(j.was, j.rule)

Tracks(j) ==
    j.pc # "idle" /\ ~ j.drifted => HeadersFollow(j) /\ IndexWaits(j) /\ PlanStands(j)

Tracked == \A p \in Procs : Tracks(job[p])

LEMMA FreshTracks ==
    ASSUME NEW pc \in {"idle", "reading"}
    PROVE  Tracks(Fresh(pc))
PROOF BY DEF Fresh, Tracks, HeadersFollow, IndexWaits, PlanStands

\* The rule leaves a shard that it does not change as it is.
LEMMA UnchangedStays ==
    ASSUME NEW snap, NEW rule \in Rules, NEW s \in Shards \ Changed(snap, rule),
           snap[s] \in Headers
    PROVE  Renamed(snap[s], rule) = snap[s]
PROOF
<1> DEFINE h == snap[s]
<1>1. \A k \in DOMAIN h : rule[k] = k
  BY DEF Changed
<1>2. {rule[k] : k \in DOMAIN h} = DOMAIN h
  BY <1>1
<1>3. \A n \in DOMAIN h : (CHOOSE k \in DOMAIN h : rule[k] = n) = n
  BY <1>1
<1>4. h = [n \in DOMAIN h |-> h[n]]
  BY DEF Headers
<1> QED
  BY <1>2, <1>3, <1>4 DEF Renamed

\* What a process is left with after an error or a refusal.
LEMMA GivenTracks ==
    ASSUME IInv, NEW p \in Procs, Tracks(job[p]),
           job[p].pc \in {"loaded", "planned", "writing", "inside", "emptied"}
    PROVE  Tracks(Given(p))
PROOF
<1>1. job[p] \in Jobs /\ JobSound(job[p])
  BY DEF IInv, TypeOK
<1>2. CASE p \in Commands
  BY <1>2, FreshTracks DEF Given
<1>3. CASE p \notin Commands /\ job[p].begun
  <2>1. /\ Given(p).pc = "loaded" /\ Given(p).snap = job[p].snap
        /\ Given(p).rule = job[p].rule /\ Given(p).was = job[p].was
        /\ Given(p).begun /\ Given(p).drifted = job[p].drifted
    BY <1>1, <1>3 DEF Given, Jobs
  <2> QED
    BY <1>3, <2>1 DEF Tracks, HeadersFollow, IndexWaits, PlanStands
<1>4. CASE p \notin Commands /\ ~ job[p].begun
  <2>1. /\ Given(p).pc = "loaded" /\ Given(p).snap = job[p].snap
        /\ ~ Given(p).begun /\ Given(p).drifted = job[p].drifted
    BY <1>4 DEF Given, Fresh
  <2> QED
    BY <1>4, <2>1 DEF Tracks, HeadersFollow, IndexWaits, PlanStands
<1> QED
  BY <1>2, <1>3, <1>4

\* One process goes on and no file changes.
LEMMA OwnStepTracks ==
    ASSUME IInv, Tracked, NEW p \in Procs, NEW j, Tracks(j),
           job' = [job EXCEPT ![p] = j], UNCHANGED <<header, index>>
    PROVE  Tracked'
PROOF
<1> SUFFICES ASSUME NEW q \in Procs PROVE Tracks(job[q])'
  BY DEF Tracked
<1>1. job'[q] = IF q = p THEN j ELSE job[q]
  BY DEF IInv, TypeOK
<1>2. Tracks(job'[q])
  BY <1>1 DEF Tracked
<1> QED
  BY <1>2 DEF Tracks, HeadersFollow, IndexWaits, PlanStands

\* A process rewrites part of a file: no other claims to know the files.
LEMMA WriteTracks ==
    ASSUME IInv, NEW p \in Procs, NEW f, NEW j, job' = AfterWriteBy(p, f, j), Tracks(job[p])'
    PROVE  Tracked'
PROOF
<1> SUFFICES ASSUME NEW q \in Procs, q # p PROVE Tracks(job[q])'
  BY DEF Tracked
<1>1. job[q] \in Jobs
  BY DEF IInv, TypeOK
<1>2. \/ job'[q] = Fresh("idle")
      \/ job'[q] = [job[q] EXCEPT !.drifted = TRUE,
                                  !.unsure = @ \cup ({f} \cap Unfinished(job[q])),
                                  !.crossed = @ \/ InsideOf(job[q], f)]
  BY DEF AfterWriteBy
<1>3. CASE job'[q] = Fresh("idle")
  BY <1>3 DEF Fresh, Tracks
<1>4. CASE job'[q] # Fresh("idle")
  <2>1. job'[q].drifted
    BY <1>1, <1>2, <1>4 DEF Jobs
  <2> QED
    BY <2>1 DEF Tracks
<1> QED
  BY <1>3, <1>4

\* The fields of the writing process after it has rewritten part of a file.
LEMMA OwnAfterWrite ==
    ASSUME IInv, NEW p \in Procs, NEW f, NEW j \in Jobs, job' = AfterWriteBy(p, f, j)
    PROVE  /\ job'[p].pc = j.pc /\ job'[p].snap = j.snap /\ job'[p].rule = j.rule
           /\ job'[p].todo = j.todo /\ job'[p].text = j.text /\ job'[p].was = j.was
           /\ job'[p].drifted = j.drifted /\ job'[p].begun = TRUE
PROOF
<1>1. job'[p] = [j EXCEPT !.begun = TRUE]
  BY DEF AfterWriteBy
<1> QED
  BY <1>1 DEF Jobs

\* Both ways a process that is writing knows the shards it leaves alone.
LEMMA Untouched ==
    ASSUME IInv, NEW p \in Procs, Tracks(job[p]), ~ job[p].drifted,
           job[p].pc \in {"planned", "writing", "inside", "emptied"},
           NEW s \in Shards \ Changed(job[p].snap, job[p].rule)
    PROVE  header[s] = job[p].snap[s] /\ job[p].snap[s] \in Headers
PROOF
<1>1. job[p].snap[s] # Unread /\ job[p].snap[s] \in Headers
  BY DEF IInv, JobSound
<1> QED
  BY <1>1 DEF Tracks, HeadersFollow

LEMMA TrackedInit == Init => Tracked
PROOF BY FreshTracks DEF Init, Tracked

LEMMA TrackedStep ==
    ASSUME IInv, Tracked, [Next]_vars
    PROVE  Tracked'
PROOF
<1>0. \A p \in Procs : job[p] \in Jobs /\ JobSound(job[p]) /\ Tracks(job[p])
  BY DEF IInv, TypeOK, Tracked
<1>1. ASSUME NEW p \in Procs, Load(p) \/ Leave(p) \/ Die(p) PROVE Tracked'
  <2>1. Tracks(Fresh("idle")) /\ Tracks(Fresh("reading"))
    BY FreshTracks
  <2> QED
    BY <1>1, <2>1, OwnStepTracks DEF Load, Leave, Die
<1>2. ASSUME NEW p \in Procs, NEW s \in Shards, ReadHeader(p, s) PROVE Tracked'
  <2>0. PICK h \in Readings(p, s) \ {Torn} :
           job' = [job EXCEPT ![p].snap[s] = h, ![p].unsure = @ \cup (mixed \cap {s})]
    BY <1>2 DEF ReadHeader
  <2> DEFINE more == job[p].unsure \cup (mixed \cap {s})
             j == [job[p] EXCEPT !.snap[s] = h, !.unsure = more]
  <2>5. job \in [Procs -> Jobs]
    BY DEF IInv, TypeOK
  <2>1. job' = [job EXCEPT ![p] = j]
    BY <2>0, <2>5 DEF Jobs
  <2>6. UNCHANGED <<header, index>>
    BY <1>2 DEF ReadHeader
  <2> HIDE DEF more
  <2>2. /\ j.pc = "reading" /\ j.begun = job[p].begun /\ j.drifted = job[p].drifted
        /\ \A t \in Shards : j.snap[t] = IF t = s THEN h ELSE job[p].snap[t]
    BY <1>0, <1>2 DEF ReadHeader, Jobs
  <2>4. ~ j.drifted => h = header[s]
    BY <1>0, <1>2, <2>2 DEF ReadHeader, JobSound, Readings, Unfinished
  <2> HIDE DEF j
  <2>3. Tracks(j)
    BY <1>0, <1>2, <2>2, <2>4 DEF ReadHeader, Tracks, HeadersFollow, IndexWaits, PlanStands
  <2> QED
    BY <2>1, <2>3, <2>6, OwnStepTracks
<1>3. ASSUME NEW p \in Procs, Loaded(p) PROVE Tracked'
  <2> DEFINE j == [job[p] EXCEPT !.pc = "loaded"]
  <2>1. job' = [job EXCEPT ![p] = j] /\ UNCHANGED <<header, index>>
    BY <1>3 DEF Loaded
  <2>2. /\ j.pc = "loaded" /\ j.begun = job[p].begun /\ j.drifted = job[p].drifted
        /\ j.snap = job[p].snap /\ j.rule = job[p].rule /\ job[p].pc = "reading"
    BY <1>0, <1>3 DEF Loaded, Jobs
  <2> HIDE DEF j
  <2>3. Tracks(j)
    BY <1>0, <2>2 DEF Tracks, HeadersFollow, IndexWaits, PlanStands
  <2> QED
    BY <2>1, <2>3, OwnStepTracks
<1>4. ASSUME NEW p \in Procs, NEW s \in Shards, LoadFails(p, s) PROVE Tracked'
  BY <1>4, FreshTracks, OwnStepTracks DEF LoadFails
<1>5. ASSUME NEW p \in Procs, NEW rule \in Rules, PlanRule(p, rule) PROVE Tracked'
  <2> DEFINE j(text) == [pc |-> "planned", snap |-> job[p].snap, rule |-> rule,
                         todo |-> Changed(job[p].snap, rule), text |-> text,
                         was |-> index, begun |-> job[p].begun,
                         drifted |-> Drifts(job[p], rule),
                         unsure |-> job[p].unsure, crossed |-> FALSE]
  <2>1. PICK text \in NewTexts(index, rule) : job' = [job EXCEPT ![p] = j(text)]
    BY <1>5 DEF PlanRule
  <2>2. job[p].pc = "loaded" /\ Sound(job[p].snap, rule) /\ UNCHANGED <<header, index>>
    BY <1>5 DEF PlanRule
  <2>3. ~ Drifts(job[p], rule) => ~ job[p].drifted /\ (job[p].begun => job[p].rule = rule)
    BY DEF Drifts
  <2>4. /\ j(text).pc = "planned" /\ j(text).snap = job[p].snap /\ j(text).rule = rule
        /\ j(text).todo = Changed(job[p].snap, rule) /\ j(text).text = text
        /\ j(text).was = index /\ j(text).begun = job[p].begun
        /\ j(text).drifted = Drifts(job[p], rule)
    OBVIOUS
  <2> HIDE DEF j
  <2>5. Tracks(j(text))
    <3> SUFFICES ASSUME ~ Drifts(job[p], rule)
                 PROVE  HeadersFollow(j(text)) /\ IndexWaits(j(text)) /\ PlanStands(j(text))
      BY <2>4 DEF Tracks
    <3>1. HeadersFollow(job[p])
      BY <1>0, <2>2, <2>3 DEF Tracks
    <3>2. HeadersFollow(j(text))
      BY <2>3, <2>4, <3>1 DEF HeadersFollow
    <3> QED
      BY <2>2, <2>4, <3>2 DEF IndexWaits, PlanStands
  <2> QED
    BY <2>1, <2>2, <2>5, OwnStepTracks
<1>6. ASSUME NEW p \in Procs, job' = [job EXCEPT ![p] = Given(p)], UNCHANGED <<header, index>>,
             job[p].pc \in {"loaded", "planned", "writing", "inside", "emptied"}
      PROVE  Tracked'
  BY <1>0, <1>6, GivenTracks, OwnStepTracks
<1>7. ASSUME NEW p \in Procs,
             \/ \E rule \in Rules : PlanRefused(p, rule)
             \/ Decline(p) \/ PreflightFails(p) \/ IndexLocked(p) \/ WriteFails(p)
      PROVE  Tracked'
  BY <1>6, <1>7 DEF PlanRefused, Decline, PreflightFails, IndexLocked, WriteFails
<1>8. ASSUME NEW p \in Procs, Preflight(p) PROVE Tracked'
  <2> DEFINE j == [job[p] EXCEPT !.pc = "writing"]
  <2>1. job' = [job EXCEPT ![p] = j] /\ UNCHANGED <<header, index>> /\ job[p].pc = "planned"
    BY <1>8 DEF Preflight
  <2>2. /\ j.pc = "writing" /\ j.begun = job[p].begun /\ j.drifted = job[p].drifted
        /\ j.snap = job[p].snap /\ j.rule = job[p].rule /\ j.todo = job[p].todo
        /\ j.text = job[p].text /\ j.was = job[p].was
    BY <1>0 DEF Jobs
  <2> HIDE DEF j
  <2>3. Tracks(j)
    <3> SUFFICES ASSUME ~ job[p].drifted
                 PROVE  HeadersFollow(j) /\ IndexWaits(j) /\ PlanStands(j)
      BY <2>2 DEF Tracks
    <3>1. HeadersFollow(job[p]) /\ IndexWaits(job[p]) /\ PlanStands(job[p])
      BY <1>0, <2>1 DEF Tracks
    <3>2. job[p].todo = Changed(job[p].snap, job[p].rule) /\ job[p].rule \in Rules
      BY <2>1, <3>1 DEF HeadersFollow, PlanStands
    <3>3. \A s \in Shards \ job[p].todo : header[s] = Renamed(job[p].snap[s], job[p].rule)
      BY <1>0, <2>1, <3>2, Untouched, UnchangedStays
    <3> QED
      BY <2>1, <2>2, <3>1, <3>3 DEF HeadersFollow, IndexWaits, PlanStands
  <2> QED
    BY <2>1, <2>3, OwnStepTracks
<1>9. ASSUME NEW p \in Procs, WriteHeader(p) PROVE Tracked'
  <2> DEFINE s == First(job[p].todo)
             j == [job[p] EXCEPT !.pc = "inside"]
  <2>1. /\ job[p].pc \in {"writing", "inside"}
        /\ job[p].todo # {} /\ job[p].todo \in SUBSET Shards
        /\ job[p].rule \in Rules /\ job[p].todo \subseteq Changed(job[p].snap, job[p].rule)
    BY <1>0, <1>9 DEF WriteHeader, Jobs, JobSound
  <2>2. s \in job[p].todo /\ s \in Shards
    BY <2>1, FirstIsThere
  <2>3. (\E h : header' = [header EXCEPT ![s] = h]) /\ index' = index
    BY <1>9 DEF WriteHeader
  <2>8. job' = AfterWriteBy(p, s, j)
    BY <1>9 DEF WriteHeader
  <2> HIDE DEF s
  <2>4. \A t \in Shards \ {s} : header'[t] = header[t]
    BY <2>3 DEF IInv, TypeOK
  <2>5. /\ j \in Jobs /\ j.pc = "inside" /\ j.drifted = job[p].drifted /\ j.snap = job[p].snap
        /\ j.rule = job[p].rule /\ j.todo = job[p].todo /\ j.text = job[p].text
        /\ j.was = job[p].was
    BY <1>0 DEF Jobs
  <2> HIDE DEF j
  <2>6. /\ job'[p].pc = "inside" /\ job'[p].drifted = job[p].drifted
        /\ job'[p].snap = job[p].snap /\ job'[p].rule = job[p].rule
        /\ job'[p].todo = job[p].todo /\ job'[p].text = job[p].text
        /\ job'[p].was = job[p].was /\ job'[p].begun = TRUE
    BY <2>5, <2>8, OwnAfterWrite
  <2>7. Tracks(job[p])'
    <3> SUFFICES ASSUME ~ job[p].drifted
                 PROVE  HeadersFollow(job[p])' /\ IndexWaits(job[p])' /\ PlanStands(job[p])'
      BY <2>6 DEF Tracks
    <3>1. HeadersFollow(job[p]) /\ IndexWaits(job[p]) /\ PlanStands(job[p])
      BY <1>0, <2>1 DEF Tracks
    <3>2. \A t \in Shards \ Changed(job[p].snap, job[p].rule) : header'[t] = job[p].snap[t]
      BY <1>0, <2>1, <2>2, <2>4, Untouched
    <3>3. \A t \in Shards \ job[p].todo : header'[t] = Renamed(job[p].snap[t], job[p].rule)
      BY <2>1, <2>2, <2>4, <3>1 DEF HeadersFollow
    <3>4. HeadersFollow(job[p])'
      BY <2>1, <2>6, <3>2, <3>3 DEF HeadersFollow
    <3> QED
      BY <2>1, <2>3, <2>6, <3>1, <3>4 DEF IndexWaits, PlanStands
  <2> QED
    BY <2>7, <2>8, WriteTracks
<1>10. ASSUME NEW p \in Procs, EndHeader(p) PROVE Tracked'
  <2> DEFINE s == First(job[p].todo)
             new == Renamed(job[p].snap[s], job[p].rule)
             j == [job[p] EXCEPT !.pc = "writing", !.todo = @ \ {s}, !.crossed = FALSE]
  <2>1. /\ job[p].pc = "inside" /\ job[p].todo # {} /\ job[p].todo \in SUBSET Shards
        /\ job[p].rule \in Rules /\ job[p].todo \subseteq Changed(job[p].snap, job[p].rule)
    BY <1>0, <1>10 DEF EndHeader, Jobs, JobSound
  <2>2. s \in job[p].todo /\ s \in Shards
    BY <2>1, FirstIsThere
  <2>3. /\ \E h : header' = [header EXCEPT ![s] = h]
        /\ ~ job[p].crossed => header' = [header EXCEPT ![s] = new]
        /\ index' = index
    BY <1>10 DEF EndHeader, NewHeader
  <2>8. job' = AfterWriteBy(p, s, j)
    BY <1>10 DEF EndHeader
  <2> HIDE DEF s
  <2>4. /\ \A t \in Shards \ {s} : header'[t] = header[t]
        /\ ~ job[p].drifted => header'[s] = new
    BY <1>0, <2>2, <2>3 DEF IInv, TypeOK, JobSound
  <2>5. /\ j \in Jobs /\ j.pc = "writing" /\ j.drifted = job[p].drifted /\ j.snap = job[p].snap
        /\ j.rule = job[p].rule /\ j.todo = job[p].todo \ {s} /\ j.text = job[p].text
        /\ j.was = job[p].was
    BY <1>0 DEF Jobs
  <2> HIDE DEF j
  <2>9. /\ job'[p].pc = j.pc /\ job'[p].snap = j.snap /\ job'[p].rule = j.rule
        /\ job'[p].todo = j.todo /\ job'[p].text = j.text /\ job'[p].was = j.was
        /\ job'[p].drifted = j.drifted /\ job'[p].begun = TRUE
    <3>1. j \in Jobs
      BY <2>5
    <3> QED
      BY <2>8, <3>1, OwnAfterWrite
  <2>6. /\ job'[p].pc = "writing" /\ job'[p].drifted = job[p].drifted
        /\ job'[p].snap = job[p].snap /\ job'[p].rule = job[p].rule
        /\ job'[p].todo = job[p].todo \ {s} /\ job'[p].text = job[p].text
        /\ job'[p].was = job[p].was /\ job'[p].begun = TRUE
    BY <2>5, <2>9
  <2>7. Tracks(job[p])'
    <3> SUFFICES ASSUME ~ job[p].drifted
                 PROVE  HeadersFollow(job[p])' /\ IndexWaits(job[p])' /\ PlanStands(job[p])'
      BY <2>6 DEF Tracks
    <3>1. HeadersFollow(job[p]) /\ IndexWaits(job[p]) /\ PlanStands(job[p])
      BY <1>0, <2>1 DEF Tracks
    <3>2. \A t \in Shards \ Changed(job[p].snap, job[p].rule) : header'[t] = job[p].snap[t]
      BY <1>0, <2>1, <2>2, <2>4, Untouched
    <3>3. ASSUME NEW t \in Shards \ (job[p].todo \ {s})
          PROVE  header'[t] = Renamed(job[p].snap[t], job[p].rule)
      <4>1. CASE t = s
        BY <2>4, <4>1
      <4>2. CASE t # s
        BY <2>1, <2>4, <3>1, <4>2 DEF HeadersFollow
      <4> QED
        BY <4>1, <4>2
    <3>4. HeadersFollow(job[p])'
      BY <2>1, <2>6, <3>2, <3>3 DEF HeadersFollow
    <3> QED
      BY <2>1, <2>3, <2>6, <3>1, <3>4 DEF IndexWaits, PlanStands
  <2> QED
    BY <2>7, <2>8, WriteTracks
<1>11. ASSUME NEW p \in Procs, BeginIndex(p) PROVE Tracked'
  <2> DEFINE j == [job[p] EXCEPT !.pc = "emptied"]
  <2>1. /\ job[p].pc = "writing" /\ job[p].todo = {} /\ index' = Torn /\ header' = header
        /\ job' = AfterWriteBy(p, IndexFile, j)
    BY <1>11 DEF BeginIndex
  <2>2. /\ j \in Jobs /\ j.pc = "emptied" /\ j.drifted = job[p].drifted /\ j.snap = job[p].snap
        /\ j.rule = job[p].rule /\ j.todo = job[p].todo /\ j.text = job[p].text
        /\ j.was = job[p].was
    BY <1>0 DEF Jobs
  <2> HIDE DEF j
  <2>3. /\ job'[p].pc = "emptied" /\ job'[p].drifted = job[p].drifted
        /\ job'[p].snap = job[p].snap /\ job'[p].rule = job[p].rule
        /\ job'[p].todo = job[p].todo /\ job'[p].text = job[p].text
        /\ job'[p].was = job[p].was /\ job'[p].begun = TRUE
    BY <2>1, <2>2, OwnAfterWrite
  <2>4. Tracks(job[p])'
    <3> SUFFICES ASSUME ~ job[p].drifted
                 PROVE  HeadersFollow(job[p])' /\ IndexWaits(job[p])' /\ PlanStands(job[p])'
      BY <2>3 DEF Tracks
    <3>1. HeadersFollow(job[p]) /\ PlanStands(job[p])
      BY <1>0, <2>1 DEF Tracks
    <3>2. \A t \in Shards \ Changed(job[p].snap, job[p].rule) : header[t] = job[p].snap[t]
      BY <1>0, <2>1, Untouched
    <3>3. job[p].rule \in Rules
      BY <2>1, <3>1 DEF PlanStands
    <3>4. HeadersFollow(job[p])'
      BY <2>1, <2>3, <3>1, <3>2, <3>3 DEF HeadersFollow
    <3> QED
      BY <2>1, <2>3, <3>1, <3>4 DEF IndexWaits, PlanStands
  <2> QED
    BY <2>1, <2>4, WriteTracks
<1>15. ASSUME NEW p \in Procs, WriteIndex(p) PROVE Tracked'
  <2>1. /\ job[p].pc = "emptied" /\ header' = header
        /\ job' = AfterWriteBy(p, IndexFile, job[p])
        /\ ~ job[p].drifted => index' = Torn
    BY <1>0, <1>15 DEF WriteIndex, JobSound
  <2>2. /\ job'[p].pc = "emptied" /\ job'[p].drifted = job[p].drifted
        /\ job'[p].snap = job[p].snap /\ job'[p].rule = job[p].rule
        /\ job'[p].todo = job[p].todo /\ job'[p].text = job[p].text
        /\ job'[p].was = job[p].was /\ job'[p].begun = TRUE
    BY <1>0, <2>1, OwnAfterWrite
  <2>3. Tracks(job[p])'
    <3> SUFFICES ASSUME ~ job[p].drifted
                 PROVE  HeadersFollow(job[p])' /\ IndexWaits(job[p])' /\ PlanStands(job[p])'
      BY <2>2 DEF Tracks
    <3>1. HeadersFollow(job[p]) /\ PlanStands(job[p])
      BY <1>0, <2>1 DEF Tracks
    <3>2. \A t \in Shards \ Changed(job[p].snap, job[p].rule) : header[t] = job[p].snap[t]
      BY <1>0, <2>1, Untouched
    <3>3. job[p].rule \in Rules
      BY <2>1, <3>1 DEF PlanStands
    <3>4. HeadersFollow(job[p])'
      BY <2>1, <2>2, <3>1, <3>2, <3>3 DEF HeadersFollow
    <3> QED
      BY <2>1, <2>2, <3>1, <3>4 DEF IndexWaits, PlanStands
  <2> QED
    BY <2>1, <2>3, WriteTracks
<1>12. ASSUME NEW p \in Procs, EndIndex(p) PROVE Tracked'
  <2> DEFINE j == [job[p] EXCEPT !.pc = "done", !.crossed = FALSE]
  <2>1. /\ job[p].pc = "emptied" /\ job[p].text # Keep
        /\ ~ job[p].drifted => index' = job[p].text
        /\ header' = header /\ job' = AfterWriteBy(p, IndexFile, j)
    BY <1>0, <1>12 DEF EndIndex, JobSound
  <2>2. /\ j \in Jobs /\ j.pc = "done" /\ j.drifted = job[p].drifted /\ j.snap = job[p].snap
        /\ j.rule = job[p].rule /\ j.todo = job[p].todo /\ j.text = job[p].text
        /\ j.was = job[p].was
    BY <1>0 DEF Jobs
  <2> HIDE DEF j
  <2>3. /\ job'[p].pc = "done" /\ job'[p].drifted = job[p].drifted
        /\ job'[p].snap = job[p].snap /\ job'[p].rule = job[p].rule
        /\ job'[p].todo = job[p].todo /\ job'[p].text = job[p].text
        /\ job'[p].was = job[p].was /\ job'[p].begun = TRUE
    BY <2>1, <2>2, OwnAfterWrite
  <2>4. Tracks(job[p])'
    <3> SUFFICES ASSUME ~ job[p].drifted
                 PROVE  HeadersFollow(job[p])' /\ IndexWaits(job[p])' /\ PlanStands(job[p])'
      BY <2>3 DEF Tracks
    <3>1. HeadersFollow(job[p]) /\ PlanStands(job[p])
      BY <1>0, <2>1 DEF Tracks
    <3>2. \A t \in Shards \ Changed(job[p].snap, job[p].rule) : header[t] = job[p].snap[t]
      BY <1>0, <2>1, Untouched
    <3>3. job[p].rule \in Rules
      BY <2>1, <3>1 DEF PlanStands
    <3>4. HeadersFollow(job[p])'
      BY <2>1, <2>3, <3>1, <3>2, <3>3 DEF HeadersFollow
    <3> QED
      BY <2>1, <2>3, <3>1, <3>4 DEF IndexWaits, PlanStands
  <2> QED
    BY <2>1, <2>4, WriteTracks
<1>13. ASSUME NEW p \in Procs, Finish(p) PROVE Tracked'
  <2> DEFINE j == [job[p] EXCEPT !.pc = "done"]
  <2>1. /\ job' = [job EXCEPT ![p] = j] /\ UNCHANGED <<header, index>>
        /\ job[p].pc = "writing" /\ job[p].todo = {} /\ job[p].text = Keep
    BY <1>13 DEF Finish
  <2>2. /\ j.pc = "done" /\ j.begun = job[p].begun /\ j.drifted = job[p].drifted
        /\ j.snap = job[p].snap /\ j.rule = job[p].rule /\ j.todo = job[p].todo
        /\ j.text = job[p].text /\ j.was = job[p].was
    BY <1>0 DEF Jobs
  <2> HIDE DEF j
  <2>3. Tracks(j)
    BY <1>0, <2>1, <2>2 DEF Tracks, HeadersFollow, IndexWaits, PlanStands
  <2> QED
    BY <2>1, <2>3, OwnStepTracks
<1>14. CASE (\E f \in Lockable : Chmod(f)) \/ UNCHANGED vars
  <2>1. UNCHANGED <<header, index, job>>
    BY <1>14 DEF Chmod, vars
  <2> QED
    BY <2>1 DEF Tracked, Tracks, HeadersFollow, IndexWaits, PlanStands
<1> QED
  BY <1>1, <1>2, <1>3, <1>4, <1>5, <1>7, <1>8, <1>9, <1>10, <1>11, <1>12, <1>13, <1>14,
     <1>15
  DEF Next, Step

\* What a plan made of the index: nothing new, or each of its keys renamed.
LEMMA NewTextIsRenamed ==
    ASSUME NEW was \in Texts \cup {Absent}, NEW rule \in Rules, NEW text \in NewTexts(was, rule)
    PROVE  /\ text = Keep => was = Absent \/ \A k \in DOMAIN was : rule[k] = k
           /\ text # Keep => /\ text \in Texts /\ was # Absent
                             /\ \A k \in DOMAIN was : rule[k] \in DOMAIN text
                             /\ \A n \in DOMAIN text : \E k \in DOMAIN was :
                                   rule[k] = n /\ text[n] = was[k]
PROOF
<1>1. CASE was = Absent \/ \A k \in DOMAIN was : rule[k] = k
  BY <1>1 DEF NewTexts
<1>2. CASE ~ (was = Absent \/ \A k \in DOMAIN was : rule[k] = k)
  <2> DEFINE keys == {rule[k] : k \in DOMAIN was}
  <2>1. text \in [keys -> Shards] /\ \A n \in keys : \E k \in DOMAIN was : rule[k] = n /\ text[n] = was[k]
    BY <1>2 DEF NewTexts
  <2>2. DOMAIN was \subseteq Names
    BY <1>2 DEF Texts
  <2>3. keys \in SUBSET Names
    BY <2>2, RulesAreMaps
  <2>4. text \in Texts
    BY <2>1, <2>3 DEF Texts
  <2>5. text # Keep
    BY <2>4, MarksAreApart
  <2>6. DOMAIN text = keys /\ \A k \in DOMAIN was : rule[k] \in keys
    BY <2>1
  <2> QED
    BY <1>2, <2>1, <2>4, <2>5, <2>6
<1> QED
  BY <1>1, <1>2

\* The image of a header parses and has the new names.
LEMMA RenamedLists ==
    ASSUME NEW snap, NEW rule \in Rules, NEW s \in Shards, snap[s] \in Headers
    PROVE  /\ Renamed(snap[s], rule) # Torn
           /\ \A k \in DOMAIN snap[s] : rule[k] \in DOMAIN Renamed(snap[s], rule)
PROOF
<1>1. Renamed(snap[s], rule) # Torn
  BY RenamedIsHeader, MarksAreApart
<1> QED
  BY <1>1 DEF Renamed

LEMMA TrackedLands == IInv /\ Tracked => RenamesLand
PROOF
<1> SUFFICES ASSUME IInv, Tracked, NEW p \in Procs, job[p].pc = "done", ~ job[p].drifted,
                    NEW s \in Shards
             PROVE  header[s] = Renamed(job[p].snap[s], job[p].rule)
  BY DEF RenamesLand
<1>1. HeadersFollow(job[p])
  BY DEF Tracked, Tracks
<1> QED
  BY <1>1 DEF HeadersFollow

LEMMA TrackedFollows == IInv /\ Tracked => IndexFollows
PROOF
<1> SUFFICES ASSUME IInv, Tracked, NEW p \in Procs, job[p].pc = "done", ~ job[p].drifted,
                    Agrees(job[p].was, job[p].snap),
                    NEW s \in Shards, NEW k \in DOMAIN job[p].snap[s],
                    Locates(job[p].was, k, s)
             PROVE  Locates(index, job[p].rule[k], s)
  BY DEF IndexFollows
<1> DEFINE was == job[p].was
           rule == job[p].rule
           text == job[p].text
<1>1. was \in Texts \cup {Absent} /\ was # Absent /\ k \in DOMAIN was /\ was[k] = s
  BY DEF IInv, TypeOK, Jobs, Locates
<1>2. /\ index = IF text = Keep THEN was ELSE text
      /\ rule \in Rules /\ Sound(job[p].snap, rule) /\ text \in NewTexts(was, rule)
  BY DEF Tracked, Tracks, IndexWaits, PlanStands
<1>3. CASE text = Keep
  <2>1. rule[k] = k
    BY <1>1, <1>2, <1>3, NewTextIsRenamed
  <2> QED
    BY <1>1, <1>2, <1>3, <2>1 DEF Locates
<1>4. CASE text # Keep
  <2>1. text \in Texts /\ rule[k] \in DOMAIN text
    BY <1>1, <1>2, <1>4, NewTextIsRenamed
  <2>2. PICK j \in DOMAIN was : rule[j] = rule[k] /\ text[rule[k]] = was[j]
    BY <1>1, <1>2, <1>4, <2>1, NewTextIsRenamed
  <2>3. was[j] \in Shards
    BY <1>1 DEF Texts
  <2>4. j \in NamesOf(job[p].snap) /\ k \in NamesOf(job[p].snap)
    BY <1>1, <2>3 DEF NamesOf, Agrees, Lists
  <2>5. j = k
    BY <1>2, <2>2, <2>4 DEF Sound, NoCollisions
  <2>6. text # Absent
    BY <2>1, MarksAreApart
  <2> QED
    BY <1>1, <1>2, <1>4, <2>1, <2>2, <2>5, <2>6 DEF Locates
<1> QED
  BY <1>3, <1>4

LEMMA TrackedNeverAhead == IInv /\ Tracked => IndexNeverAhead
PROOF
<1> SUFFICES ASSUME IInv, Tracked, NEW p \in Procs,
                    job[p].pc \in {"loaded", "writing", "inside", "emptied", "done"},
                    job[p].begun, ~ job[p].drifted, Agrees(job[p].was, job[p].snap),
                    index \notin {Torn, Absent}, NEW k \in DOMAIN index,
                    k \notin DOMAIN job[p].was
             PROVE  Lists(header[index[k]], k)
  BY DEF IndexNeverAhead
<1> DEFINE was == job[p].was
           rule == job[p].rule
           text == job[p].text
           snap == job[p].snap
<1>1. IndexWaits(job[p]) /\ HeadersFollow(job[p]) /\ PlanStands(job[p])
  BY DEF Tracked, Tracks
<1>2. job[p].pc = "done" /\ text # Keep /\ index = text
  BY <1>1 DEF IndexWaits
<1>3. rule \in Rules /\ Sound(snap, rule) /\ text \in NewTexts(was, rule)
  BY <1>1, <1>2 DEF PlanStands
<1>4. was \in Texts \cup {Absent}
  BY DEF IInv, TypeOK, Jobs
<1>5. was \in Texts /\ was # Absent
  BY <1>2, <1>3, <1>4, NewTextIsRenamed
<1>6. PICK j \in DOMAIN was : rule[j] = k /\ text[k] = was[j]
  BY <1>2, <1>3, <1>4, NewTextIsRenamed
<1>7. was[j] \in Shards /\ j \in DOMAIN snap[was[j]]
  BY <1>5 DEF Texts, Agrees, Lists
<1>8. snap[was[j]] \in Headers
  BY <1>2, <1>7 DEF IInv, JobSound
<1>9. header[was[j]] = Renamed(snap[was[j]], rule)
  BY <1>1, <1>2, <1>7 DEF HeadersFollow
<1> QED
  BY <1>2, <1>3, <1>6, <1>7, <1>8, <1>9, RenamedLists DEF Lists

\* When apply() returns Ok and nobody else meddled, every shard has the names
\* it was loaded with under the rule, be it after a second try.
THEOREM RenamesAreDone == Spec => []RenamesLand
PROOF
<1>1. Init => IInv /\ Tracked
  BY Inductive, TrackedInit
<1>2. IInv /\ Tracked /\ [Next]_vars => (IInv /\ Tracked)'
  BY Inductive, TrackedStep
<1> QED
  BY <1>1, <1>2, TrackedLands, PTL DEF Spec

\* The index is renamed with the headers and after them.
LEMMA IndexIsRenamed == Spec => [](IndexFollows /\ IndexNeverAhead)
PROOF
<1>1. Init => IInv /\ Tracked
  BY Inductive, TrackedInit
<1>2. IInv /\ Tracked /\ [Next]_vars => (IInv /\ Tracked)'
  BY Inductive, TrackedStep
<1> QED
  BY <1>1, <1>2, TrackedFollows, TrackedNeverAhead, PTL DEF Spec

\* What the index located it locates, after a rename that returned Ok, under
\* the new name.
THEOREM IndexIsDone == Spec => []IndexFollows
PROOF
  BY IndexIsRenamed, PTL

\* No key is new in the index before it is in its shard: it is written last.
THEOREM IndexComesLast == Spec => []IndexNeverAhead
PROOF
  BY IndexIsRenamed, PTL

=============================================================================
