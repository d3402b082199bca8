----------------------------- MODULE MCBackends -----------------------------
(***************************************************************************)
(* Backends with configurations that differ in the one part, in the other, *)
(* and in whether the other is there.                                      *)
(***************************************************************************)
EXTENDS Backends

CONSTANTS w1, w2, x1, x2

\* A configuration without a key, as the parser of NetworkManager sees it.
NoKey == {[wg |-> w1, net |-> x2]}

SomeConfigs == {[wg |-> w1, net |-> x1], [wg |-> w2, net |-> x2], [wg |-> w2, net |-> None]} \cup NoKey

\* The commands whose failure the code looks at or makes good.
Checked == Commands \ {"nmcli reload", "uninstall"}
=============================================================================
