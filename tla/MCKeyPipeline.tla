---------------------------- MODULE MCKeyPipeline ----------------------------
(* Instances of KeyPipeline for TLC.                                        *)
EXTENDS KeyPipeline, TLC

CONSTANTS d0, d1, d2, k1, k2, k3

\* every content of some cells <<d, k>>; the other cells are missing keys
Contents(kindsOf) ==
  {[d \in DBs |-> [k \in Keys |-> IF <<d, k>> \in DOMAIN f THEN f[<<d, k>>] ELSE "none"]] :
     f \in {g \in [DOMAIN kindsOf -> Kinds] : \A c \in DOMAIN g : g[c] \in kindsOf[c]}}

CountBoth == <<d1, d0>>

(* Two databases, one of them with two keys, of every kind of value.        *)
TwoDbs == (d0 :> <<k1, k2>>) @@ (d1 :> <<k1>>)
TwoDbsStores == Contents((<<d0, k1>> :> Kinds) @@ (<<d0, k2>> :> {"number", "list"})
                         @@ (<<d1, k1>> :> {"text", "none"}))

(* Three databases, for one of them missing and a key denied in another.    *)
Three == (d0 :> <<k2>>) @@ (d1 :> <<k1, k2>>) @@ (d2 :> <<k1, k2>>)
ThreeStores == Contents((<<d0, k2>> :> {"none"}) @@ (<<d2, k1>> :> {"list"})
                        @@ (<<d2, k2>> :> {"text", "module"}))

(* Three keys of one database.                                              *)
Row == (d0 :> <<k1, k2, k3>>)
RowStores == Contents((<<d0, k1>> :> {"text"}) @@ (<<d0, k2>> :> {"list"})
                      @@ (<<d0, k3>> :> {"hll"}))
CountOne == <<d0>>
=============================================================================
