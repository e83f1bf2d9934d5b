--------------------------- MODULE RecentsListFacts ---------------------------
(***************************************************************************)
(* What the list arithmetic of Recents returns and preserves, for lists of *)
(* any length over any set: the lemmas the proofs about its users rest on. *)
(***************************************************************************)
EXTENDS RecentsList, SequenceTheorems, FiniteSetTheorems, WellFoundedInduction, TLAPS

\* retain() leaves a list of the same kind, one shorter, with the entries on
\* either side of the gap in their old order.
LEMMA WithoutShape ==
    ASSUME NEW S, NEW list \in Seq(S), NEW spec, spec \in Entries(list)
    PROVE  \E at \in 1..Len(list) :
              /\ list[at] = spec
              /\ Without(list, spec) \in Seq(S)
              /\ Len(Without(list, spec)) = Len(list) - 1
              /\ \A i \in 1..(Len(list) - 1) :
                    Without(list, spec)[i] =
                        IF i < at THEN list[i] ELSE list[i + 1]
PROOF
<1> DEFINE at  == CHOOSE i \in 1..Len(list) : list[i] = spec
           fun == [i \in 1..(Len(list) - 1) |->
                      IF i < at THEN list[i] ELSE list[i + 1]]
<1>1. at \in 1..Len(list) /\ list[at] = spec
  BY DEF Entries
<1>2. Without(list, spec) = fun
  BY DEF Without
<1>3. Len(list) \in Nat /\ \A i \in 1..Len(list) : list[i] \in S
  BY ElementOfSeq, LenProperties
<1>4. Len(list) - 1 \in Nat
  BY <1>1, <1>3
<1>5. \A i \in 1..(Len(list) - 1) : fun[i] \in S
  BY <1>1, <1>3, <1>4
<1>6. fun \in Seq(S) /\ Len(fun) = Len(list) - 1
  BY <1>4, <1>5, IsASeq
<1> QED
  BY <1>1, <1>2, <1>6

\* retain() drops the spec and nothing else, makes no repetition, and leaves
\* the head in place unless it was the head.
LEMMA WithoutFacts ==
    ASSUME NEW S, NEW list \in Seq(S), NEW spec, NoRepeats(list)
    PROVE  /\ Without(list, spec) \in Seq(S)
           /\ Len(Without(list, spec)) \leq Len(list)
           /\ NoRepeats(Without(list, spec))
           /\ Entries(Without(list, spec)) = Entries(list) \ {spec}
           /\ Entries(Without(list, spec)) # {} /\ list[1] # spec
                 => Without(list, spec)[1] = list[1]
PROOF
<1>1. CASE spec \notin Entries(list)
  <2>1. Without(list, spec) = list
    BY <1>1 DEF Without
  <2> QED
    BY <1>1, <2>1, LenProperties
<1>2. CASE spec \in Entries(list)
  <2> DEFINE new == Without(list, spec)
  <2>1. PICK at \in 1..Len(list) :
              /\ list[at] = spec
              /\ new \in Seq(S)
              /\ Len(new) = Len(list) - 1
              /\ \A i \in 1..(Len(list) - 1) :
                    new[i] = IF i < at THEN list[i] ELSE list[i + 1]
    BY <1>2, WithoutShape
  <2> HIDE DEF new
  <2>2. Len(list) \in Nat
    BY LenProperties
  <2> DEFINE from(i) == IF i < at THEN i ELSE i + 1
  <2>a. ASSUME NEW i \in 1..Len(new)
        PROVE  from(i) \in 1..Len(list) \ {at} /\ new[i] = list[from(i)]
    BY <2>1, <2>2
  <2>b. ASSUME NEW i \in 1..Len(new), NEW j \in 1..Len(new), from(i) = from(j)
        PROVE  i = j
    <3>1. i \in Nat /\ j \in Nat /\ at \in Nat
      BY <2>1, <2>2
    <3> QED
      BY <2>b, <3>1
  <2> HIDE DEF from
  <2>3. NoRepeats(new)
    <3>1. SUFFICES ASSUME NEW i \in 1..Len(new), NEW j \in 1..Len(new),
                          new[i] = new[j]
                   PROVE  i = j
      BY DEF NoRepeats
    <3>2. list[from(i)] = list[from(j)]
      BY <2>a, <3>1
    <3>3. from(i) = from(j)
      BY <2>a, <3>2 DEF NoRepeats
    <3> QED
      BY <2>b, <3>3
  <2>4. Entries(new) \subseteq Entries(list) \ {spec}
    <3>1. SUFFICES ASSUME NEW i \in 1..Len(new)
                   PROVE  new[i] \in Entries(list) /\ new[i] # spec
      BY DEF Entries
    <3>2. list[from(i)] \in Entries(list)
      BY <2>a DEF Entries
    <3>3. list[from(i)] # list[at]
      BY <2>1, <2>a DEF NoRepeats
    <3> QED
      BY <2>1, <2>a, <3>2, <3>3
  <2>5. ASSUME NEW e \in Entries(list) \ {spec}
        PROVE  e \in Entries(new)
    <3>1. PICK j \in 1..Len(list) : list[j] = e
      BY DEF Entries
    <3>2. j # at
      BY <2>1, <3>1
    <3>3. CASE j < at
      <4>1. j \in 1..Len(new) /\ new[j] = e
        BY <2>1, <2>2, <3>1, <3>3
      <4> QED
        BY <4>1 DEF Entries
    <3>4. CASE j > at
      <4>1. j - 1 \in 1..Len(new) /\ new[j - 1] = e
        BY <2>1, <2>2, <3>1, <3>4
      <4> QED
        BY <4>1 DEF Entries
    <3> QED
      BY <3>2, <3>3, <3>4
  <2>6. Entries(new) # {} /\ list[1] # spec => new[1] = list[1]
    <3>1. Entries(new) # {} => Len(new) >= 1
      BY <2>1, <2>2 DEF Entries
    <3> QED
      BY <2>1, <2>2, <3>1
  <2> QED
    BY <2>1, <2>2, <2>3, <2>4, <2>5, <2>6 DEF new
<1> QED
  BY <1>1, <1>2

\* insert(0, spec) puts the spec first and everything else behind it.
LEMMA PushedFacts ==
    ASSUME NEW S, NEW list \in Seq(S), NEW spec \in S,
           NoRepeats(list), spec \notin Entries(list)
    PROVE  /\ <<spec>> \o list \in Seq(S)
           /\ Len(<<spec>> \o list) = Len(list) + 1
           /\ (<<spec>> \o list)[1] = spec
           /\ NoRepeats(<<spec>> \o list)
           /\ Entries(<<spec>> \o list) = Entries(list) \cup {spec}
PROOF
<1> DEFINE new == <<spec>> \o list
<1>1. Len(list) \in Nat
  BY LenProperties
<1>2. /\ new \in Seq(S)
      /\ Len(new) = Len(list) + 1
      /\ \A i \in 1..Len(new) : new[i] = IF i = 1 THEN spec ELSE list[i - 1]
  BY <1>1, ConcatProperties
<1> HIDE DEF new
<1>3. NoRepeats(new)
  <2> SUFFICES ASSUME NEW i \in 1..Len(new), NEW j \in 1..Len(new),
                      new[i] = new[j]
               PROVE  i = j
    BY DEF NoRepeats
  <2>0. \A k \in 1..Len(new) : k # 1 => new[k] # spec
    <3>1. SUFFICES ASSUME NEW k \in 1..Len(new), k # 1 PROVE new[k] # spec
      OBVIOUS
    <3>2. k - 1 \in 1..Len(list) /\ new[k] = list[k - 1]
      BY <1>1, <1>2, <3>1
    <3> QED
      BY <3>2 DEF Entries
  <2>1. CASE i = 1 \/ j = 1
    BY <2>0, <2>1, <1>1, <1>2
  <2>2. CASE i # 1 /\ j # 1
    <3>1. i - 1 \in 1..Len(list) /\ j - 1 \in 1..Len(list)
      BY <2>2, <1>1, <1>2
    <3>2. list[i - 1] = list[j - 1]
      BY <2>2, <1>1, <1>2
    <3>3. i - 1 = j - 1
      BY <3>1, <3>2 DEF NoRepeats
    <3>4. i \in Nat /\ j \in Nat
      BY <1>1, <1>2
    <3> QED
      BY <3>3, <3>4
  <2> QED
    BY <2>1, <2>2
<1>4. Entries(new) \subseteq Entries(list) \cup {spec}
  BY <1>1, <1>2 DEF Entries
<1>5. ASSUME NEW e \in Entries(list) PROVE e \in Entries(new)
  <2>1. PICK j \in 1..Len(list) : list[j] = e
    BY DEF Entries
  <2>2. j + 1 \in 1..Len(new) /\ new[j + 1] = e
    BY <2>1, <1>1, <1>2
  <2> QED
    BY <2>2 DEF Entries
<1>6. spec \in Entries(new)
  BY <1>1, <1>2 DEF Entries
<1> QED
  BY <1>1, <1>2, <1>3, <1>4, <1>5, <1>6 DEF new

\* truncate() keeps a front of the list, its head included.
LEMMA CappedFacts ==
    ASSUME NEW S, NEW list \in Seq(S), NEW cap \in Nat \ {0}, NoRepeats(list)
    PROVE  /\ Capped(list, cap) \in Seq(S)
           /\ Len(Capped(list, cap)) \leq cap
           /\ NoRepeats(Capped(list, cap))
           /\ Entries(Capped(list, cap)) \subseteq Entries(list)
           /\ Len(list) >= 1 => /\ Len(Capped(list, cap)) >= 1
                                /\ Capped(list, cap)[1] = list[1]
PROOF
<1>1. Len(list) \in Nat
  BY LenProperties
<1>2. CASE Len(list) <= cap
  BY <1>1, <1>2 DEF Capped
<1>3. CASE Len(list) > cap
  <2> DEFINE new == SubSeq(list, 1, cap)
  <2>1. Capped(list, cap) = new
    BY <1>1, <1>3 DEF Capped
  <2>2. /\ new \in Seq(S)
        /\ Len(new) = cap
        /\ \A i \in 1..cap : new[i] = list[i]
    BY <1>1, <1>3, SubSeqProperties
  <2> HIDE DEF new
  <2>3. 1..cap \subseteq 1..Len(list)
    BY <1>1, <1>3
  <2>4. NoRepeats(new)
    BY <2>2, <2>3 DEF NoRepeats
  <2>5. Entries(new) \subseteq Entries(list)
    BY <2>2, <2>3 DEF Entries
  <2>6. Len(new) >= 1 /\ new[1] = list[1]
    BY <2>2
  <2> QED
    BY <2>1, <2>2, <2>4, <2>5, <2>6
<1> QED
  BY <1>1, <1>2, <1>3

\* record() returns a list without repetitions that starts with the spec, is
\* no longer than the cap, and holds nothing that was not there before.
LEMMA RecordedFacts ==
    ASSUME NEW S, NEW list \in Seq(S), NEW spec \in S, NEW cap \in Nat \ {0},
           NoRepeats(list)
    PROVE  /\ Recorded(list, spec, cap) \in Seq(S)
           /\ Len(Recorded(list, spec, cap)) \in 1..cap
           /\ NoRepeats(Recorded(list, spec, cap))
           /\ Entries(Recorded(list, spec, cap)) \subseteq Entries(list) \cup {spec}
           /\ Recorded(list, spec, cap)[1] = spec
PROOF
<1> DEFINE rest == Without(list, spec)
           full == <<spec>> \o rest
<1>1. /\ rest \in Seq(S)
      /\ NoRepeats(rest)
      /\ Entries(rest) = Entries(list) \ {spec}
  BY WithoutFacts
<1> HIDE DEF rest
<1>2. /\ full \in Seq(S)
      /\ Len(full) = Len(rest) + 1
      /\ full[1] = spec
      /\ NoRepeats(full)
      /\ Entries(full) = Entries(rest) \cup {spec}
  BY <1>1, PushedFacts
<1>3. Len(rest) \in Nat
  BY <1>1, LenProperties
<1>4. Recorded(list, spec, cap) = Capped(full, cap)
  BY DEF Recorded, rest
<1> HIDE DEF full
<1>5. /\ Capped(full, cap) \in Seq(S)
      /\ Len(Capped(full, cap)) \leq cap
      /\ NoRepeats(Capped(full, cap))
      /\ Entries(Capped(full, cap)) \subseteq Entries(full)
      /\ Len(Capped(full, cap)) >= 1
      /\ Capped(full, cap)[1] = full[1]
  BY <1>2, <1>3, CappedFacts
<1>6. Len(Capped(full, cap)) \in Nat
  BY <1>5, LenProperties
<1> QED
  BY <1>1, <1>2, <1>4, <1>5, <1>6

----------------------------------------------------------------------------
(* read_file(): collapsing duplicates.                                     *)

\* Of some positions one is the least.
LEMMA LeastPosition ==
    ASSUME NEW N \in SUBSET Nat, N # {}
    PROVE  \E n \in N : \A m \in N : n <= m
PROOF
<1> DEFINE less == {pair \in Nat \X Nat : pair[1] < pair[2]}
<1>1. IsWellFoundedOn(less, Nat)
  BY NatLessThanWellFounded DEF OpToRel
<1>2. PICK n \in N : \A m \in N : ~ (<<m, n>> \in less)
  BY <1>1, WFMin
<1>3. ASSUME NEW m \in N PROVE n <= m
  <2>1. n \in Nat /\ m \in Nat
    OBVIOUS
  <2>2. m < n => <<m, n>> \in less
    BY <2>1
  <2> QED
    BY <1>2, <2>1, <2>2
<1> QED
  BY <1>3

\* The positions kept, and which entry of the result each becomes.
Firsts(list) == {i \in 1..Len(list) : \A j \in 1..(i - 1) : list[j] # list[i]}
UpTo(list, i) == {j \in Firsts(list) : j <= i}

LEMMA FirstsAreCounted ==
    ASSUME NEW S, NEW list \in Seq(S), NEW K \in SUBSET Firsts(list)
    PROVE  /\ IsFiniteSet(K) /\ Cardinality(K) \in Nat
           /\ Cardinality(K) <= Cardinality(Firsts(list))
PROOF
<1>1. Len(list) \in Nat
  BY LenProperties
<1>2. Firsts(list) \in SUBSET (1..Len(list)) /\ IsFiniteSet(1..Len(list))
  BY <1>1, FS_Interval DEF Firsts
<1>3. IsFiniteSet(Firsts(list))
  BY <1>2, FS_Subset
<1> QED
  BY <1>3, FS_Subset, FS_CardinalityType

LEMMA FirstsAreRanked ==
    ASSUME NEW S, NEW list \in Seq(S), NEW i \in Firsts(list), NEW j \in Firsts(list), i < j
    PROVE  Cardinality(UpTo(list, i)) < Cardinality(UpTo(list, j))
PROOF
<1>1. i \in Nat /\ j \in Nat /\ \A k \in Firsts(list) : k \in Nat
  BY LenProperties DEF Firsts
<1>2. UpTo(list, i) \in SUBSET UpTo(list, j)
  <2>1. ASSUME NEW k \in UpTo(list, i) PROVE k \in UpTo(list, j)
    <3>1. k \in Firsts(list) /\ k <= i /\ k \in Nat
      BY <1>1 DEF UpTo
    <3>2. k <= j
      BY <1>1, <3>1
    <3> QED
      BY <3>1, <3>2 DEF UpTo
  <2> QED
    BY <2>1
<1>3. j \in UpTo(list, j) /\ j \notin UpTo(list, i)
  BY <1>1 DEF UpTo
<1>4. UpTo(list, i) # UpTo(list, j)
  BY <1>3
<1>5. /\ IsFiniteSet(UpTo(list, j)) /\ Cardinality(UpTo(list, j)) \in Nat
      /\ Cardinality(UpTo(list, i)) \in Nat
  BY FirstsAreCounted DEF UpTo
<1> QED
  BY <1>2, <1>4, <1>5, FS_Subset

\* Each place of the result is one kept position's.
LEMMA RanksAreTaken ==
    ASSUME NEW S, NEW list \in Seq(S), NEW n \in 1..Cardinality(Firsts(list))
    PROVE  \E i \in Firsts(list) : Cardinality(UpTo(list, i)) = n
PROOF
<1> DEFINE rank == [i \in Firsts(list) |-> Cardinality(UpTo(list, i))]
           ranks == 1..Cardinality(Firsts(list))
<1>1. IsFiniteSet(Firsts(list)) /\ Cardinality(Firsts(list)) \in Nat
      /\ \A k \in Firsts(list) : k \in Nat
  BY FirstsAreCounted, LenProperties DEF Firsts
<1>2. ASSUME NEW i \in Firsts(list) PROVE rank[i] \in ranks
  <2>1. UpTo(list, i) \in SUBSET Firsts(list) /\ i \in UpTo(list, i)
    BY <1>1 DEF UpTo
  <2>2. IsFiniteSet(UpTo(list, i)) /\ Cardinality(UpTo(list, i)) \in Nat
        /\ Cardinality(UpTo(list, i)) <= Cardinality(Firsts(list))
    BY <2>1, FirstsAreCounted
  <2>3. Cardinality(UpTo(list, i)) # 0
    BY <2>1, <2>2, FS_EmptySet
  <2> QED
    BY <1>1, <2>2, <2>3
<1>3. ASSUME NEW i \in Firsts(list), NEW j \in Firsts(list), rank[i] = rank[j] PROVE i = j
  <2>1. Cardinality(UpTo(list, i)) = Cardinality(UpTo(list, j))
        /\ Cardinality(UpTo(list, i)) \in Nat
    BY <1>3, FirstsAreCounted DEF UpTo
  <2>2. ~ (i < j) /\ ~ (j < i)
    BY <2>1, FirstsAreRanked
  <2> QED
    BY <1>1, <2>2
<1>4. rank \in Injection(Firsts(list), ranks)
  BY <1>2, <1>3 DEF Injection, IsInjective
<1>5. IsFiniteSet(ranks) /\ Cardinality(ranks) = Cardinality(Firsts(list))
  BY <1>1, FS_Interval
<1>6. rank \in Surjection(Firsts(list), ranks)
  <2> HIDE DEF rank, ranks
  <2> QED
    BY <1>4, <1>5, FS_Injection
<1>7. \E i \in Firsts(list) : rank[i] = n
  BY <1>6 DEF Surjection
<1> QED
  BY <1>7

\* What is read back has the same entries, each once.
LEMMA DeduplicatedFacts ==
    ASSUME NEW S, NEW list \in Seq(S)
    PROVE  /\ Deduplicated(list) \in Seq(S)
           /\ NoRepeats(Deduplicated(list))
           /\ Entries(Deduplicated(list)) = Entries(list)
PROOF
<1> DEFINE size == Cardinality(Firsts(list))
           at(n) == CHOOSE i \in Firsts(list) : Cardinality(UpTo(list, i)) = n
           new == [n \in 1..size |-> list[at(n)]]
<1>1. Deduplicated(list) = new
  BY DEF Deduplicated, Firsts, UpTo
<1>2. size \in Nat /\ Len(list) \in Nat /\ \A i \in 1..Len(list) : list[i] \in S
  BY FirstsAreCounted, LenProperties, ElementOfSeq
<1>3. \A n \in 1..size : at(n) \in Firsts(list) /\ Cardinality(UpTo(list, at(n))) = n
  BY RanksAreTaken
<1> HIDE DEF at, size
<1>4. \A i \in Firsts(list) : i \in 1..Len(list) /\ i \in Nat
  BY <1>2 DEF Firsts
<1>5. new \in Seq(S) /\ Len(new) = size
  <2>1. \A n \in 1..size : list[at(n)] \in S
    BY <1>2, <1>3, <1>4
  <2> QED
    BY <1>2, <2>1, IsASeq
<1>6. NoRepeats(new)
  <2> SUFFICES ASSUME NEW m \in 1..size, NEW n \in 1..size, list[at(m)] = list[at(n)]
               PROVE  m = n
    BY <1>5 DEF NoRepeats
  <2>1. at(m) = at(n)
    <3>1. at(m) \in Firsts(list) /\ at(n) \in Firsts(list) /\ at(m) \in Nat /\ at(n) \in Nat
          /\ at(m) >= 1 /\ at(n) >= 1
      BY <1>3, <1>4
    <3>2. ~ (at(m) < at(n))
      BY <3>1 DEF Firsts
    <3>3. ~ (at(n) < at(m))
      BY <3>1 DEF Firsts
    <3> QED
      BY <3>1, <3>2, <3>3
  <2> QED
    BY <1>3, <2>1
<1>7. Entries(new) \subseteq Entries(list)
  BY <1>3, <1>4, <1>5 DEF Entries
<1>8. ASSUME NEW e \in Entries(list) PROVE e \in Entries(new)
  <2> DEFINE places == {i \in 1..Len(list) : list[i] = e}
  <2>1. places \in SUBSET Nat /\ places # {}
    BY <1>2 DEF Entries
  <2>2. PICK i \in places : \A j \in places : i <= j
    BY <2>1, LeastPosition
  <2>3. i \in Firsts(list) /\ list[i] = e
    BY <1>2, <2>2 DEF Firsts
  <2>4. Cardinality(UpTo(list, i)) \in 1..size
    <3>1. UpTo(list, i) \in SUBSET Firsts(list) /\ i \in UpTo(list, i)
      BY <1>4, <2>3 DEF UpTo
    <3>2. /\ IsFiniteSet(UpTo(list, i)) /\ Cardinality(UpTo(list, i)) \in Nat
          /\ Cardinality(UpTo(list, i)) <= size
      BY <3>1, FirstsAreCounted DEF size
    <3>3. Cardinality(UpTo(list, i)) # 0
      BY <3>1, <3>2, FS_EmptySet
    <3> QED
      BY <1>2, <3>2, <3>3
  <2>5. PICK n \in 1..size : n = Cardinality(UpTo(list, i))
    BY <2>4
  <2>6. PICK k \in Firsts(list) : k = at(n) /\ Cardinality(UpTo(list, k)) = n
    BY <1>3
  <2>7. k = i
    <3>1. k \in Nat /\ i \in Nat /\ n \in Nat
      BY <1>2, <1>4, <2>3
    <3>2. ~ (k < i)
      BY <2>3, <2>5, <2>6, <3>1, FirstsAreRanked
    <3>3. ~ (i < k)
      BY <2>3, <2>5, <2>6, <3>1, FirstsAreRanked
    <3> QED
      BY <3>1, <3>2, <3>3
  <2>8. n \in 1..Len(new) /\ new[n] = e
    BY <1>5, <2>3, <2>6, <2>7
  <2> HIDE DEF new
  <2> QED
    BY <2>8 DEF Entries
<1> QED
  BY <1>1, <1>5, <1>6, <1>7, <1>8

\* A list that a save wrote is read back as it was.
LEMMA DeduplicatedSame ==
    ASSUME NEW S, NEW list \in Seq(S), NoRepeats(list)
    PROVE  Deduplicated(list) = list
PROOF
<1>1. Len(list) \in Nat /\ list = [i \in 1..Len(list) |-> list[i]]
  BY LenProperties, SeqEqual
<1>2. Firsts(list) = 1..Len(list)
  <2>1. ASSUME NEW i \in 1..Len(list), NEW j \in 1..(i - 1) PROVE list[j] # list[i]
    <3>1. j \in 1..Len(list) /\ j # i
      BY <1>1
    <3> QED
      BY <3>1 DEF NoRepeats
  <2> QED
    BY <2>1 DEF Firsts
<1>3. \A i \in 1..Len(list) : UpTo(list, i) = 1..i
  BY <1>1, <1>2 DEF UpTo
<1>4. \A i \in 1..Len(list) : Cardinality(UpTo(list, i)) = i
  <2> SUFFICES ASSUME NEW i \in 1..Len(list) PROVE Cardinality(1..i) = i
    BY <1>3
  <2>1. 1 \in Int /\ i \in Int /\ i >= 1
    BY <1>1
  <2> QED
    BY <2>1, FS_Interval
<1>5. Cardinality(Firsts(list)) = Len(list)
  <2>1. 1 \in Int /\ Len(list) \in Int
    BY <1>1
  <2> QED
    BY <1>1, <1>2, <2>1, FS_Interval
<1>6. \A n \in 1..Len(list) :
         (CHOOSE i \in Firsts(list) : Cardinality(UpTo(list, i)) = n) = n
  BY <1>2, <1>4
<1>7. Deduplicated(list) =
         [n \in 1..Cardinality(Firsts(list)) |->
            list[CHOOSE i \in Firsts(list) : Cardinality(UpTo(list, i)) = n]]
  BY DEF Deduplicated, Firsts, UpTo
<1>8. Deduplicated(list) = [n \in 1..Len(list) |-> list[n]]
  BY <1>5, <1>6, <1>7
<1> QED
  BY <1>1, <1>8

----------------------------------------------------------------------------
(* What the entries at the front of a list are.                            *)

UpFront(list, n) == {list[i] : i \in 1..n}
Front(set, list) == \E n \in 0..Len(list) : set = UpFront(list, n)

LEMMA WholeIsFront ==
    ASSUME NEW S, NEW list \in Seq(S)
    PROVE  Front(Entries(list), list) /\ Front({}, list)
PROOF
<1>1. Len(list) \in Nat
  BY LenProperties
<1>2. Entries(list) = UpFront(list, Len(list)) /\ {} = UpFront(list, 0)
  BY <1>1 DEF Entries, UpFront
<1> QED
  BY <1>1, <1>2 DEF Front

LEMMA FrontSize ==
    ASSUME NEW S, NEW list \in Seq(S), NoRepeats(list), NEW n \in 0..Len(list)
    PROVE  Cardinality(UpFront(list, n)) = n
PROOF
<1> DEFINE entry == [i \in 1..n |-> list[i]]
<1>1. n \in Nat /\ 1..n \subseteq 1..Len(list)
  BY LenProperties
<1>2. entry \in [1..n -> UpFront(list, n)]
  BY DEF UpFront
<1>3. \A i, j \in 1..n : entry[i] = entry[j] => i = j
  BY <1>1 DEF NoRepeats
<1>4. \A e \in UpFront(list, n) : \E i \in 1..n : entry[i] = e
  BY DEF UpFront
<1>5. entry \in Bijection(1..n, UpFront(list, n))
  BY <1>2, <1>3, <1>4 DEF Bijection, Injection, IsInjective, Surjection
<1> HIDE DEF entry
<1>6. ExistsBijection(1..n, UpFront(list, n))
  BY <1>5 DEF ExistsBijection
<1> QED
  BY <1>1, <1>6, FS_CountingElements

\* Dropping an entry leaves the front at the front.
LEMMA FrontWithout ==
    ASSUME NEW S, NEW list \in Seq(S), NoRepeats(list), NEW set, Front(set, list), NEW spec
    PROVE  Front(set \ {spec}, Without(list, spec))
PROOF
<1>0. PICK n \in 0..Len(list) : set = UpFront(list, n)
  BY DEF Front
<1>1. Len(list) \in Nat /\ n \in Nat /\ n <= Len(list)
  BY LenProperties
<1>2. CASE spec \notin Entries(list)
  <2>1. Without(list, spec) = list
    BY <1>2 DEF Without
  <2>2. spec \notin set
    BY <1>0, <1>1, <1>2 DEF UpFront, Entries
  <2> QED
    BY <2>1, <2>2
<1>3. CASE spec \in Entries(list)
  <2> DEFINE new == Without(list, spec)
  <2>1. PICK at \in 1..Len(list) :
              /\ list[at] = spec
              /\ new \in Seq(S)
              /\ Len(new) = Len(list) - 1
              /\ \A i \in 1..(Len(list) - 1) :
                    new[i] = IF i < at THEN list[i] ELSE list[i + 1]
    BY <1>3, WithoutShape
  <2> HIDE DEF new
  <2>2. \A i \in 1..Len(list) : list[i] = spec => i = at
    BY <2>1 DEF NoRepeats
  <2>3. CASE n < at
    <3>1. \A i \in 1..n : i \in 1..(Len(list) - 1) /\ new[i] = list[i] /\ list[i] # spec
      BY <1>1, <2>1, <2>2, <2>3
    <3>2. set \ {spec} = UpFront(new, n)
      BY <1>0, <3>1 DEF UpFront
    <3>3. n \in 0..Len(new)
      BY <1>1, <2>1, <2>3
    <3> QED
      BY <3>2, <3>3 DEF Front, new
  <2>4. CASE n >= at
    <3>1. n - 1 \in 0..Len(new)
      BY <1>1, <2>1, <2>4
    <3>2. ASSUME NEW e \in set \ {spec} PROVE e \in UpFront(new, n - 1)
      <4>1. PICK i \in 1..n : list[i] = e
        BY <1>0 DEF UpFront
      <4>2. i # at
        BY <2>1, <4>1
      <4>3. CASE i < at
        <5>1. i \in 1..(n - 1) /\ i \in 1..(Len(list) - 1) /\ new[i] = e
          BY <1>1, <2>1, <2>4, <4>1, <4>3
        <5> QED
          BY <5>1 DEF UpFront
      <4>4. CASE i > at
        <5>1. i - 1 \in 1..(n - 1) /\ i - 1 \in 1..(Len(list) - 1) /\ ~ (i - 1 < at)
              /\ (i - 1) + 1 = i
          BY <1>1, <2>1, <2>4, <4>1, <4>4
        <5>2. new[i - 1] = e
          BY <2>1, <4>1, <5>1
        <5> QED
          BY <5>1, <5>2 DEF UpFront
      <4> QED
        BY <1>1, <2>1, <4>2, <4>3, <4>4
    <3>3. ASSUME NEW e \in UpFront(new, n - 1) PROVE e \in set \ {spec}
      <4>1. PICK i \in 1..(n - 1) : new[i] = e
        BY DEF UpFront
      <4>2. i \in 1..(Len(list) - 1) /\ i \in 1..n /\ i + 1 \in 1..n
            /\ i \in 1..Len(list) /\ i + 1 \in 1..Len(list)
        BY <1>1, <4>1
      <4>3. CASE i < at
        <5>1. e = list[i] /\ i # at
          BY <2>1, <4>1, <4>2, <4>3
        <5> QED
          BY <1>0, <2>2, <4>2, <5>1 DEF UpFront
      <4>4. CASE ~ (i < at)
        <5>1. e = list[i + 1] /\ i + 1 # at
          BY <2>1, <4>1, <4>2, <4>4
        <5> QED
          BY <1>0, <2>2, <4>2, <5>1 DEF UpFront
      <4> QED
        BY <4>3, <4>4
    <3>4. set \ {spec} = UpFront(new, n - 1)
      BY <3>2, <3>3
    <3> QED
      BY <3>1, <3>4 DEF Front, new
  <2> QED
    BY <1>1, <2>1, <2>3, <2>4
<1> QED
  BY <1>2, <1>3

\* The head of a list is at its front, and what was at the front of the rest
\* is there with it, as far as the cap lets it.
LEMMA FrontRecorded ==
    ASSUME NEW S, NEW list \in Seq(S), NoRepeats(list), NEW set, Front(set, list),
           NEW spec \in S, NEW cap \in Nat \ {0}
    PROVE  /\ Front({spec}, Recorded(list, spec, cap))
           /\ Cardinality(set \cup {spec}) <= cap
                => Front(set \cup {spec}, Recorded(list, spec, cap))
PROOF
<1> DEFINE rest == Without(list, spec)
           full == <<spec>> \o rest
<1>1. /\ rest \in Seq(S) /\ NoRepeats(rest) /\ spec \notin Entries(rest)
      /\ Front(set \ {spec}, rest)
  BY WithoutFacts, FrontWithout
<1> HIDE DEF rest
<1>2. PICK n \in 0..Len(rest) : set \ {spec} = UpFront(rest, n)
  BY <1>1 DEF Front
<1>3. Len(rest) \in Nat /\ n \in Nat /\ n <= Len(rest)
  BY <1>1, LenProperties
<1>4. /\ full \in Seq(S) /\ Len(full) = Len(rest) + 1 /\ NoRepeats(full)
      /\ \A i \in 1..Len(full) : full[i] = IF i = 1 THEN spec ELSE rest[i - 1]
  BY <1>1, <1>3, PushedFacts, ConcatProperties
<1> HIDE DEF full
<1>5. UpFront(full, 1) = {spec} /\ 1 \in 1..Len(full)
  BY <1>3, <1>4 DEF UpFront
<1>6. UpFront(full, n + 1) = set \cup {spec} /\ n + 1 \in 1..Len(full)
  <2>1. n + 1 \in 1..Len(full)
    BY <1>3, <1>4
  <2>2. ASSUME NEW e \in UpFront(full, n + 1) PROVE e \in UpFront(rest, n) \cup {spec}
    <3>1. PICK i \in 1..(n + 1) : full[i] = e
      BY DEF UpFront
    <3>2. CASE i # 1
      <4>1. i - 1 \in 1..n /\ e = rest[i - 1]
        BY <1>3, <1>4, <3>1, <3>2
      <4> QED
        BY <4>1 DEF UpFront
    <3> QED
      BY <1>4, <2>1, <3>1, <3>2
  <2>3. ASSUME NEW e \in UpFront(rest, n) PROVE e \in UpFront(full, n + 1)
    <3>1. PICK i \in 1..n : rest[i] = e
      BY DEF UpFront
    <3>2. i + 1 \in 1..(n + 1) /\ full[i + 1] = e
      BY <1>3, <1>4, <3>1
    <3> QED
      BY <3>2 DEF UpFront
  <2>4. spec \in UpFront(full, n + 1)
    BY <1>3, <1>4 DEF UpFront
  <2> QED
    BY <1>2, <2>1, <2>2, <2>3, <2>4
<1>7. Recorded(list, spec, cap) = Capped(full, cap)
  BY DEF Recorded, rest, full
<1>8. ASSUME NEW m \in 1..Len(full), m <= cap
      PROVE  Front(UpFront(full, m), Capped(full, cap))
  <2>1. CASE Len(full) <= cap
    BY <1>3, <1>4, <2>1 DEF Capped, Front
  <2>2. CASE ~ (Len(full) <= cap)
    <3> DEFINE new == SubSeq(full, 1, cap)
    <3>1. Len(new) = cap /\ \A i \in 1..cap : new[i] = full[i]
      BY <1>3, <1>4, <2>2, SubSeqProperties
    <3>2. Capped(full, cap) = new
      BY <2>2 DEF Capped
    <3> HIDE DEF new
    <3>3. UpFront(full, m) = UpFront(new, m) /\ m \in 0..Len(new)
      BY <1>3, <1>4, <1>8, <3>1 DEF UpFront
    <3> QED
      BY <3>2, <3>3 DEF Front
  <2> QED
    BY <2>1, <2>2
<1>9. Cardinality(set \cup {spec}) = n + 1
  <2>1. n + 1 \in 0..Len(full)
    BY <1>6
  <2> QED
    BY <1>4, <1>6, <2>1, FrontSize
<1>10. 1 <= cap
  OBVIOUS
<1>11. Front(UpFront(full, 1), Capped(full, cap))
  BY <1>5, <1>8, <1>10
<1>12. n + 1 <= cap => Front(UpFront(full, n + 1), Capped(full, cap))
  BY <1>6, <1>8
<1> QED
  BY <1>5, <1>6, <1>7, <1>9, <1>11, <1>12

=============================================================================
