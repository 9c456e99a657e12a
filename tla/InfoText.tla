------------------------------- MODULE InfoText -------------------------------
(***************************************************************************)
(* What a server answers to the commands the instance metrics come from:    *)
(* INFO ALL as a sequence of lines, CONFIG GET, CLUSTER INFO, CLIENT LIST    *)
(* and the SENTINEL commands.  A line is a section header or a field: a     *)
(* key, the number the key may hold (db2, slave1, master_1_host) and a      *)
(* value, a text or, where it has fields of its own, a record.              *)
(***************************************************************************)
EXTENDS Integers, Sequences, FiniteSets, SequencesExt

CONSTANTS
  Servers,   \* what the instance may be when a scrape finds it
  Denied     \* the answer of a command that fails

(* The texts that are numbers, and the numbers they are.                    *)
Number == [text \in {"-1", "0", "1", "2", "3"} |->
             CASE text = "-1" -> -1 [] text = "0" -> 0 [] text = "1" -> 1
               [] text = "2" -> 2 [] text = "3" -> 3]

IsNumber(text) == text \in DOMAIN Number

(* What is answered; nothing, if the command fails.                         *)
Answer(reply) == IF reply = Denied THEN <<>> ELSE reply

Section(name) == [key |-> "#", n |-> 0, value |-> name]

Numbered(key, n, value) == [key |-> key, n |-> n, value |-> value]

Field(key, value) == Numbered(key, 0, value)

IsSentinel(s) == s.kind = "sentinel"

IsValkey(s) == s.kind = "valkey"

ServerLines(s) ==
  <<Section("Server"), Field("uptime_in_seconds", s.uptime)>>
  \o (IF IsValkey(s)
      THEN <<Field("server_mode", s.mode), Field("valkey_version", "9.1"),
             Field("availability_zone", s.zone)>>
      ELSE <<Field("redis_mode", s.mode)>>)

(* A replica of several masters (KeyDB) numbers the second and later ones.  *)
MasterLine(m, n) ==
  <<Numbered("master_host", n, m.host), Numbered("master_port", n, m.port),
    Numbered("master_link_status", n, m.link), Numbered("master_last_io_seconds_ago", n, m.io),
    Field("slave_repl_offset", m.offset)>>

MasterLines(s) ==
  [i \in 1 .. 5 * Len(s.masters) |->
     MasterLine(s.masters[(i - 1) \div 5 + 1], (i - 1) \div 5)[1 + ((i - 1) % 5)]]

ReplicationLines(s) ==
  <<Section("Replication"), Field("role", s.role)>>
  \o MasterLines(s)
  \o (IF s.masters = <<>> THEN <<>> ELSE <<Field("slave_read_only", "1")>>)
  \o <<Field("connected_slaves", "2")>>
  \o [i \in DOMAIN s.slaves |-> Numbered("slave", i - 1, s.slaves[i])]

CommandLines(s) ==
  <<Section("Commandstats")>>
  \o [i \in DOMAIN s.commands |-> Field("cmdstat", s.commands[i])]
  \o <<Section("Errorstats"), Field("errorstat", [err |-> "ERR", count |-> 3]),
       Section("Latencystats")>>
  \o [i \in DOMAIN s.latencies |-> Field("latency_percentiles_usec", s.latencies[i])]

ClusterReply == <<Field("cluster_state", "ok"), Field("cluster_known_nodes", "3")>>

(* Valkey 9.1 repeats CLUSTER INFO in INFO ALL.                             *)
ClusterLines(s) ==
  <<Section("Cluster"), Field("cluster_enabled", IF s.cluster = "off" THEN "0" ELSE "1")>>
  \o (IF IsValkey(s) /\ s.cluster # "off" THEN <<Section("Cluster Info")>> \o ClusterReply
                                          ELSE <<>>)

ValkeyLines(s) ==
  IF IsValkey(s)
  THEN <<Section("TLS"), Field("tls_server_cert_serial", "a1"),
         Field("tls_server_cert_expires_in_seconds", "3"),
         Section("Scripting Engines"), Field("engines_count", "1"),
         Numbered("engine_", 0, [name |-> "LUA", module |-> "lua", abi |-> "4", memory |-> 2])>>
  ELSE <<>>

KeyspaceLines(s) ==
  <<Section("Keyspace")>>
  \o [i \in DOMAIN s.keyspace |-> Numbered("db", s.keyspace[i].db, s.keyspace[i])]

SentinelLines(s) ==
  <<Section("Sentinel"), Field("sentinel_masters", "2")>>
  \o [i \in DOMAIN s.watched |-> Numbered("master", i - 1, s.watched[i])]

InfoAll(s) ==
  IF IsSentinel(s) THEN ServerLines(s) \o SentinelLines(s)
  ELSE ServerLines(s) \o ReplicationLines(s) \o CommandLines(s) \o ValkeyLines(s)
       \o ClusterLines(s) \o KeyspaceLines(s)

Holds(s, key, value) ==
  \E i \in DOMAIN InfoAll(s) : InfoAll(s)[i].key = key /\ InfoAll(s)[i].value = value

(* client-output-buffer-limit is told by class of client.                   *)
Limits == [class |-> "normal", hard |-> 0, soft |-> 2, seconds |-> 3]

-----------------------------------------------------------------------------
(* What a server may be.  Its answers have these forms: ...                 *)
Maybe(answers) == {Denied} \cup answers

IsMap(f) == IsFiniteSet(DOMAIN f) /\ \A key \in DOMAIN f : key \in STRING /\ f[key] \in STRING

Peers == Seq([name : STRING, flags : SUBSET STRING])

ServerTypes(s) ==
  /\ s.kind \in {"redis", "valkey", "sentinel"} /\ s.uptime \in DOMAIN Number
  /\ {s.mode, s.zone, s.role} \subseteq STRING /\ s.cluster \in Maybe({"off", "ok"})
  /\ s.masters \in Seq([host : STRING, port : STRING, link : STRING,
                        io : DOMAIN Number, offset : DOMAIN Number])
  /\ s.slaves \in Seq([whole : BOOLEAN, ip : STRING, port : STRING, state : STRING,
                       offset : Nat, lag : Nat \cup {-1}])
  /\ s.commands \in Seq([cmd : STRING, of : STRING, plain : BOOLEAN, calls : Nat, usec : Nat,
                         rejected : Nat, slow : Nat \cup {-1}, fields : Nat])
  /\ s.latencies \in Seq(STRING)
  /\ s.keyspace \in Seq([whole : BOOLEAN, db : Nat, keys : Nat, expires : Nat,
                         ttl : Nat \cup {-1}])
  /\ s.config = Denied \/ IsMap(s.config)
  /\ s.sentinelConfig = Denied \/ IsMap(s.sentinelConfig)
  /\ s.rdb \in Maybe(Nat) /\ s.slowLength \in Maybe(Nat)
  /\ s.spikes \in Maybe(Seq([event : STRING, last : Nat, ms : Nat]))
  /\ s.histograms \in Maybe(Seq([cmd : STRING, calls : Nat, whole : BOOLEAN]))
  /\ s.slowest \in Maybe(Seq([id : Nat, seconds : Nat]))
  /\ s.commandLog \in Maybe([slow : Maybe(Nat), large_request : Maybe(Nat)])
  /\ s.modules \in Maybe(Seq(
       [key : {"module"}, n : {0}, value : [name : STRING, ver : STRING, fields : Nat]]
       \cup [key : {"search_total_indexing_time"}, n : {0}, value : DOMAIN Number]))
  /\ s.indexes \in Maybe(Seq([name : STRING, wanted : BOOLEAN, docs : Nat,
                              dropped : BOOLEAN, readable : BOOLEAN]))
  /\ s.watched \in Seq([name : STRING, address : STRING, status : STRING, slaves : Nat,
                        quorum : Nat, ckquorum : Maybe(STRING),
                        sentinels : Maybe(Peers), replicas : Maybe(Peers)])
  /\ s.clients \in Maybe(Seq([wellFormed : BOOLEAN, id : STRING, name : STRING, user : STRING,
                              resp : STRING, port : STRING, age : Nat, ssub : Nat \cup {-1},
                              events : Nat \cup {-1}]))

Injective(seq) == \A i, j \in DOMAIN seq : seq[i] = seq[j] => i = j

(* ... they name no command and no Sentinel twice, a replica has masters (as *)
(* an active replica of KeyDB has, which tells another role), a command     *)
(* without totals has no latencies, a Sentinel holds no keys, is not in a   *)
(* cluster and tells no role, there is at least no database, and one entry  *)
(* of the slow log was asked for.                                           *)
Consistent(s) ==
  /\ s.role = "slave" => s.masters # <<>>
  /\ \A i, j \in DOMAIN s.commands : s.commands[i].cmd = s.commands[j].cmd => i = j
  /\ \A i \in DOMAIN s.commands :
       s.commands[i].fields < 3 => s.commands[i].cmd \notin ToSet(s.latencies)
  /\ \A i \in DOMAIN s.watched : /\ Injective(Answer(s.watched[i].sentinels))
                                 /\ Injective(Answer(s.watched[i].replicas))
  /\ IsSentinel(s) => s.role = "" /\ s.masters = <<>> /\ s.cluster = "off" /\ s.keyspace = <<>>
  /\ s.config # Denied /\ "databases" \in DOMAIN s.config => s.config["databases"] # "-1"
  /\ Len(Answer(s.slowest)) <= 1

ASSUME ServersAssumption ==
  Denied # <<>> /\ \A s \in Servers : ServerTypes(s) /\ Consistent(s)
=============================================================================
