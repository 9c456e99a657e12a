------------------------------ MODULE RedisKeys ------------------------------
(***************************************************************************)
(* What the exporter relies on of the server and of the redigo client when  *)
(* it samples keys: the shape of the reply a key command gets for the kind  *)
(* of value stored under the key, and which replies the conversions         *)
(* redis.String and redis.Int64 accept.  Both are outside src/; they are    *)
(* modelled from how exporter/keys.go uses them.                            *)
(***************************************************************************)
EXTENDS Naturals, Sequences

CONSTANTS DBs,        \* database numbers named in the exporter's options
          Keys,       \* key names
          NoKey,      \* the key of a request that is not about a key
          ValidDBs,   \* the databases the server has
          DefaultDB,  \* the database a new connection is in
          DeniedKeys  \* the keys the exporter's user may not read

ASSUME RedisKeysAssumption == /\ ValidDBs \subseteq DBs
                              /\ DeniedKeys \subseteq Keys
                              /\ DefaultDB \in ValidDBs
                              /\ NoKey \notin Keys

(* Kinds of value the exporter tells apart.  "list" stands for every type   *)
(* with one length command (list, set, zset, hash, stream, array), "module" *)
(* for a type the exporter does not know.                                   *)
Kinds == {"none", "list", "hll", "text", "number", "module"}

StringKinds == {"hll", "text", "number"}

KeyCmds == {"TYPE", "MEMORY", "LEN", "PFCOUNT", "STRLEN", "GET"}

Cmds == KeyCmds \cup {"SELECT", "SCAN"}

Shapes == {"status", "int", "bulk", "nil", "array", "error"}

(* A reply carries the command it answers and the cell it was computed      *)
(* from: the database selected on the connection, the key and the kind of   *)
(* value the key had when the server ran the command.                       *)
Replies == [shape : Shapes, cmd : Cmds, db : DBs, key : Keys \cup {NoKey}, kind : Kinds]

Stores == [DBs -> [Keys -> Kinds]]

TypeOf(kind) == IF kind \in StringKinds THEN "string" ELSE kind

KeyShape(cmd, kind) ==
  CASE cmd = "TYPE"    -> "status"
    [] cmd = "MEMORY"  -> IF kind = "none" THEN "nil" ELSE "int"
    [] cmd = "LEN"     -> IF kind \in {"none", "list"} THEN "int" ELSE "error"
    [] cmd = "PFCOUNT" -> IF kind \in {"none", "hll"} THEN "int" ELSE "error"
    [] cmd = "STRLEN"  -> IF kind = "none" \/ kind \in StringKinds THEN "int" ELSE "error"
    [] cmd = "GET"     -> IF kind = "none" THEN "nil"
                          ELSE IF kind \in StringKinds THEN "bulk" ELSE "error"

KeyReply(cmd, db, key, kind) ==
  [shape |-> IF key \in DeniedKeys THEN "error" ELSE KeyShape(cmd, kind),
   cmd |-> cmd, db |-> db, key |-> key, kind |-> kind]

PlainReply(shape, cmd, db) ==
  [shape |-> shape, cmd |-> cmd, db |-> db, key |-> NoKey, kind |-> "none"]

(* redis.String and redis.Int64: which replies convert without an error.    *)
IsString(r) == r.shape \in {"status", "bulk"}

IsInt64(r) == r.shape = "int" \/ (r.shape = "bulk" /\ r.kind = "number")

(* A sample of a per-key metric: its labels and the reply it was made from. *)
Metrics == {"key_memory_usage_bytes", "key_size", "key_value", "key_value_as_string",
            "keys_count"}

Samples == [metric : Metrics, db : DBs, key : Keys \cup {NoKey}, from : Replies]

Sample(metric, d, k, r) == [metric |-> metric, db |-> d, key |-> k, from |-> r]

(* The type name a reply to TYPE holds; any other string is no type name.   *)
TypeName(r) == IF IsString(r)
               THEN IF r.cmd = "TYPE" THEN TypeOf(r.kind) ELSE "unknown"
               ELSE ""
=============================================================================
