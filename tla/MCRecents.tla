----------------------------- MODULE MCRecents -----------------------------
(***************************************************************************)
(* Instances of Recents: one process or two, two or three specs with room  *)
(* for two, and hand edits that clear the list or write an entry twice.    *)
(***************************************************************************)
EXTENDS Recents, TLC

CONSTANTS pA, pB, ckptA, ckptB, ckptC

Alone      == {pA}
Sharing    == {pA, pB}
TwoSpecs   == {ckptA, ckptB}
ThreeSpecs == {ckptA, ckptB, ckptC}
Edits      == {<<>>, <<ckptB, ckptA, ckptB>>}
=============================================================================
