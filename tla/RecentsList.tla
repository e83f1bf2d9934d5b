---------------------------- MODULE RecentsList ----------------------------
(***************************************************************************)
(* The list arithmetic of opening::Recents: what one call does to the      *)
(* list of recently opened checkpoints, most recent first.  A spec is an   *)
(* opaque value that normalise_spec has already given its one spelling.    *)
(* The lists of the program never hold a spec twice: read_file collapses   *)
(* duplicates on the way in and record() drops the old place of a spec.    *)
(***************************************************************************)
EXTENDS Naturals, Sequences, FiniteSets

Entries(list) == {list[i] : i \in 1..Len(list)}

NoRepeats(list) == \A i, j \in 1..Len(list) : list[i] = list[j] => i = j

\* retain(|s| *s != spec): where a spec occurs at most once, dropping every
\* occurrence closes the one gap.
Without(list, spec) ==
    IF spec \in Entries(list)
    THEN LET at == CHOOSE i \in 1..Len(list) : list[i] = spec
         IN  [i \in 1..(Len(list) - 1) |->
                  IF i < at THEN list[i] ELSE list[i + 1]]
    ELSE list

\* truncate(cap)
Capped(list, cap) == IF Len(list) <= cap THEN list ELSE SubSeq(list, 1, cap)

\* record(): insert(0, spec) after dropping its old place, then the cap.
Recorded(list, spec, cap) == Capped(<<spec>> \o Without(list, spec), cap)

\* read_file(): what was written by hand or by a save, first of each spec
\* kept.  An entry at i survives when no earlier one equals it.
Deduplicated(list) ==
    LET kept == {i \in 1..Len(list) : \A j \in 1..(i - 1) : list[j] # list[i]}
        rank(i) == {j \in kept : j <= i}
    IN  [n \in 1..Cardinality(kept) |->
            list[CHOOSE i \in kept : Cardinality(rank(i)) = n]]
============================================================================
