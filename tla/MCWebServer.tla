---------------------------- MODULE MCWebServer ----------------------------
(***************************************************************************)
(* Instances of WebServer: two workers, three requests of every kind, two  *)
(* checkpoints and up to two switches, one key in each memo.             *)
(***************************************************************************)
EXTENDS WebServer

CONSTANTS w1, w2, r1, r2, r3, ckptA, ckptB, tree, view

MCWorkers   == {w1, w2}
MCRequests  == {r1, r2, r3}
FewRequests == {r1, r2}
MCSpecs     == {ckptA, ckptB}
MCEndpoints == {tree}
MCViews     == {view}
============================================================================
