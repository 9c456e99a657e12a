------------------------------ MODULE KeySample ------------------------------
(***************************************************************************)
(* What a scrape promises about the keys of --check-keys and                *)
(* --check-single-keys, whichever way it talks to the server: clients keep  *)
(* writing the keys, and every sample the scrape exports for a key of a     *)
(* database is something that very key of that very database really was at  *)
(* some moment of the scrape.                                               *)
(***************************************************************************)
EXTENDS RedisKeys

VARIABLES store,    \* the kind of value under each key of each database
          seen,     \* the kinds each key has had since the scrape began
          emitted   \* the samples exported so far

sampleVars == <<store, seen, emitted>>

(* The kinds of value a sample of a metric may tell of.                     *)
Tells(metric) ==
  CASE metric = "key_memory_usage_bytes" -> Kinds \ {"none"}
    [] metric = "key_size"               -> Kinds \ {"module"}
    [] metric = "key_value"              -> {"number"}
    [] metric = "key_value_as_string"    -> {"text", "hll"}
    [] metric = "keys_count"             -> {"none"}

Honest(s) ==
  /\ s.from.db = s.db
  /\ s.from.key = s.key
  /\ s.from.kind \in Tells(s.metric)
  /\ s.metric # "keys_count" => s.from.kind \in seen[s.db][s.key]

(* A key's value is never exported without its size.                        *)
Sized(S) ==
  \A s \in S : s.metric \in {"key_value", "key_value_as_string"} =>
     \E t \in S : t.metric = "key_size" /\ t.db = s.db /\ t.key = s.key

Init == /\ store \in Stores
        /\ seen = [d \in DBs |-> [k \in Keys |-> {store[d][k]}]]
        /\ emitted = {}

ClientWrite(d, k, kind) ==
  /\ store' = [store EXCEPT ![d][k] = kind]
  /\ seen' = [seen EXCEPT ![d][k] = @ \cup {kind}]
  /\ UNCHANGED emitted

Export ==
  /\ emitted \subseteq emitted'
  /\ \A s \in emitted' \ emitted : Honest(s)
  /\ Sized(emitted')
  /\ UNCHANGED <<store, seen>>

Next == Export \/ \E d \in DBs, k \in Keys, kind \in Kinds : ClientWrite(d, k, kind)

Spec == Init /\ [][Next]_sampleVars
=============================================================================
