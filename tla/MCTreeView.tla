----------------------------- MODULE MCTreeView -----------------------------
(* A tree with a group of tensors beside the group of the checkpoint's own   *)
(* metadata, and a compact tree that folds two tensors into one family.  One *)
(* filter, one query with matches and one sort key under which two tensors   *)
(* are equal.                                                                *)
EXTENDS TreeView

R(n, d) == [node |-> n, depth |-> d]

MCShape ==
  (FALSE :> <<R("root", 0), R("meta", 1), R("version", 2), R("a", 1),
              R("t1", 2), R("t2", 2), R("t3", 2)>>)
  @@ (TRUE :> <<R("root", 0), R("fam", 1), R("f12", 2)>>)

MCKind ==
  [n \in {"root", "a", "fam"} |-> "group"]
  @@ ("meta" :> "config") @@ ("version" :> "metadata")
  @@ [n \in {"t1", "t2", "t3", "f12"} |-> "tensor"]

MCLetters == {"t"}
MCRanked == <<"t">> :> <<"t1", "t3", "t2">>
MCPassing == "small" :> <<"t1", "t2">>
MCSortKeys == <<"None", "Size">>
MCFacet == "Size" :> (("t1" :> 2) @@ ("t2" :> 1) @@ ("t3" :> 2) @@ ("f12" :> 3))
MCSizes == {"tall", "short"}
MCBody == ("tall" :> ((FALSE :> 3) @@ (TRUE :> 2)))
          @@ ("short" :> ((FALSE :> 2) @@ (TRUE :> 1)))
MCJumps == {1, 4}
=============================================================================
