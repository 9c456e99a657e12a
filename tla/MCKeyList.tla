------------------------------ MODULE MCKeyList ------------------------------
(* Instances of KeyList for TLC.                                            *)
EXTENDS KeyList, TLC

CONSTANTS d0, d1, a, b, c, p, q

Pair(d, k) == [db |-> d, key |-> k]

\* p matches two keys, q one of them and a third
Globs == (p :> {a, b}) @@ (q :> {b, c})

\* overlapping patterns of one database, a plain key and a single key
Overlapping == <<Pair(d0, p), Pair(d1, c), Pair(d1, q)>>
OneSingle == <<Pair(d1, a)>>
CountOne == <<Pair(d0, p)>>
=============================================================================
