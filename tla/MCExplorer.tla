---------------------------- MODULE MCExplorer ----------------------------
(* Two checkpoints that share a tensor name.  The second can rename its    *)
(* tensor to the name it lacks, the first can swap its two.                *)
EXTENDS Explorer

MCTensorsOf == [c \in Checkpoints |-> IF c = "one" THEN {"a", "b"} ELSE {"a"}]
===========================================================================
