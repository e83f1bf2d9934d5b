---------------------------- MODULE MCBrowserTab ----------------------------
(***************************************************************************)
(* Instances of BrowserTab: the address bar and one other switcher, one    *)
(* memo key, one filter and the empty one, up to three checkpoints.        *)
(***************************************************************************)
EXTENDS BrowserTab, TLC

CONSTANTS bar, screen, tensor, layers

BarOnly  == {bar}
BothWays == {bar, screen}
OneKey   == {tensor}
OneQuery == {layers}
=============================================================================
