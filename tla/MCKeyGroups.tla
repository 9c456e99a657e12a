----------------------------- MODULE MCKeyGroups -----------------------------
(* Instances of KeyGroups for TLC.                                          *)
EXTENDS KeyGroups, TLC

CONSTANTS a, b, c, d

Names == <<"carts", "sessions", "unclassified">>
Plain == (a :> "carts") @@ (b :> "sessions") @@ (c :> "carts") @@ (d :> "unclassified")
Bytes == (a :> 1) @@ (b :> 2) @@ (c :> 2) @@ (d :> 3)
=============================================================================
