------------------------------ MODULE MCRename ------------------------------
(***************************************************************************)
(* Instances of Rename: two shards, the second with two tensors and no     *)
(* byte to spare, and rules that go through and rules that must not.       *)
(***************************************************************************)
EXTENDS Rename, FiniteSetsExt, TLC

CONSTANTS tui, cli, a, b, c, wide, meta

Editor  == {tui}
Command == {cli}
Nobody  == {}

AllNames == {a, b, c, wide, meta}
Metadata == {meta}

Three    == 1..3
TwoFiles == <<(a :> 1), (b :> 2) @@ (c :> 3)>>
Regions  == <<2, 2>>
Lengths  == [names \in SUBSET AllNames |->
                MapThenSumSet(LAMBDA n : IF n = wide THEN 2 ELSE 1, names)]

Both    == (a :> 1) @@ (b :> 2) @@ (c :> 2)
Partial == (a :> 1) @@ (b :> 2)

Same == [n \in AllNames |-> n]
Turn == [Same EXCEPT ![a] = b, ![b] = c, ![c] = a]
Grow == [Same EXCEPT ![a] = wide]
Onto == [Same EXCEPT ![b] = c]
Long == [Same EXCEPT ![b] = wide]
Hide == [Same EXCEPT ![c] = meta]

\* Cut between the two tensors of shard 2, a rename of b to c leaves c twice.
Cuts == (IndexFile :> {Torn}) @@ (1 :> {Torn}) @@ (2 :> {Torn, c :> 3})
OneCut == [f \in 0..2 |-> {Torn}]

AnyIndex  == {Both, Partial}
FullIndex == {Both}
AllRules  == {Turn, Grow, Onto, Long, Hide}
FewRules  == {Turn, Grow}
Flipping  == {IndexFile}
=============================================================================
