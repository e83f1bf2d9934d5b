---------------------------- MODULE MCRemoteRead ----------------------------
(* A directory of two shards whose index is stale: it names a third one    *)
(* that is gone, puts tensor "a" where it is not, and does not know one of *)
(* the files, nor "d" in the one it does know.  "b" is in two shards.      *)
EXTENDS RemoteRead

Pair(o, n) == [s \in Sides |-> IF s = "old" THEN o ELSE n]
MCPairings == {Pair("directory", "script"), Pair("script", "script")}

MCHolds == [f \in OnDisk |-> IF f = 1 THEN {"a", "b"} ELSE {"b", "d"}]
MCWeightMap == [t \in {"a", "b", "c"} |-> IF t = "c" THEN 4 ELSE 2]
=============================================================================
