--------------------------- MODULE MCKeySequential ---------------------------
(* Instances of KeySequential for TLC.                                      *)
EXTENDS KeySequential, TLC

CONSTANTS d0, k1, k2, k3

AllKeys == <<k1, k2, k3>>

SomeStores == {s \in Stores : s[d0][k3] \in {"list", "text"}}
=============================================================================
