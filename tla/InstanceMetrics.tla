--------------------------- MODULE InstanceMetrics ---------------------------
(***************************************************************************)
(* The rest of a scrape's instance metrics, the masters of a Sentinel and   *)
(* the connected clients, and what the whole scrape promises of a server.   *)
(***************************************************************************)
EXTENDS InstanceCommands

(* extractSentinelMetrics, one master: whether its quorum can be reached    *)
(* and how many of its Sentinels and replicas are up; a command about them  *)
(* that fails is like an empty answer.                                      *)
Up(flags) == flags # {} /\ flags \cap {"o_down", "s_down"} = {}

CountUp(reply) == Cardinality({i \in DOMAIN Answer(reply) : Up(Answer(reply)[i].flags)})

PeerInfo(x, m, peer) ==
  IF InclSentinelPeerInfo
  THEN Gauge(x, "sentinel_peer_info", 1, <<m.name, m.address, peer.name>>) ELSE x

SentinelMaster ==
  /\ pc = "sentinel" /\ server.mastersReply # Denied /\ at <= Len(server.watched)
  /\ LET m == server.watched[at]
         master == <<m.name, m.address>>
         quorum == Gauge(Gauge(exporter,
           "sentinel_master_ckquorum_status", IF m.ckquorum = Denied THEN 0 ELSE 1,
           <<m.name, IF m.ckquorum = Denied THEN "NOQUORUM" ELSE m.ckquorum>>),
           "sentinel_master_setting_ckquorum", m.quorum, master)
         peers == FoldLeft(LAMBDA x, p : PeerInfo(x, m, p), quorum, Answer(m.sentinels))
     IN Becomes(Gauge(Gauge(peers,
          "sentinel_master_ok_sentinels", 1 + CountUp(m.sentinels), master),
          "sentinel_master_ok_slaves", CountUp(m.replicas), master))
  /\ at' = at + 1
  /\ UNCHANGED <<instanceRole, server, pc, scrapes, settings, dbCount, reader>>

(* extractSentinelConfig, whether the masters were told or not.             *)
SentinelSetting(x, key) ==
  LET text == server.sentinelConfig[key]
      y == Gauge(x, "sentinel_config_key_value", 1, <<key, text>>)
  IN IF IsNumber(text) THEN Gauge(y, "sentinel_config_value", Number[text], <<key>>) ELSE y

SentinelOver ==
  /\ pc = "sentinel"
  /\ server.mastersReply = Denied \/ at > Len(server.watched)
  /\ Becomes(IF InclConfigMetrics /\ server.sentinelConfig # Denied
             THEN FoldLeft(SentinelSetting, exporter, SetToSeq(DOMAIN server.sentinelConfig))
             ELSE exporter)
  /\ GoOn("clients")

-----------------------------------------------------------------------------
(* parseConnectedClientMetrics: the labels of connected_client_info are     *)
(* those the line has, and a line with a field that is not one key and one  *)
(* value is dropped.                                                        *)
InfoLabels(c) ==
  <<"id", "name">> \o (IF ExportClientsInclPort THEN <<"port">> ELSE <<>>)
                   \o (IF c.user # "" THEN <<"user">> ELSE <<>>)
                   \o (IF c.resp # "" THEN <<"resp">> ELSE <<>>)

InfoValues(c) ==
  <<c.id, c.name>> \o (IF ExportClientsInclPort THEN <<c.port>> ELSE <<>>)
                   \o (IF c.user # "" THEN <<c.user>> ELSE <<>>)
                   \o (IF c.resp # "" THEN <<c.resp>> ELSE <<>>)

parseConnectedClient(x, c) ==
  LET base == <<c.id, c.name>>
      Base(y, metric) == createMetricDescription(y, metric, <<"id", "name">>)
      info == Gauge(createMetricDescription(x, "connected_client_info", InfoLabels(c)),
                    "connected_client_info", 1, InfoValues(c))
      described == Base(Base(info, "connected_client_created_at_timestamp"),
                        "connected_client_read_events_total")
      age == Gauge(described, "connected_client_created_at_timestamp", Now - c.age, base)
      events == IF c.events = -1 THEN age
                ELSE Gauge(age, "connected_client_read_events_total", c.events, base)
      shard == "connected_client_shard_channel_subscriptions_count"
  IN IF c.ssub = -1 THEN events ELSE Gauge(Base(events, shard), shard, c.ssub, base)

Listed(s) == Answer(s.clients)

Client ==
  /\ pc = "clients" /\ at <= Len(Listed(server))
  /\ LET c == Listed(server)[at]
     IN Becomes(IF c.wellFormed THEN parseConnectedClient(exporter, c) ELSE exporter)
  /\ at' = at + 1
  /\ UNCHANGED <<instanceRole, server, pc, scrapes, settings, dbCount, reader>>

ClientsOver ==
  /\ pc = "clients" /\ at > Len(Listed(server))
  /\ Becomes(exporter)
  /\ GoOn("modules")

InfoLine ==
  \/ SectionLine \/ Replication \/ ServerField \/ TLSField \/ ScriptingEngine \/ CommandStats
  \/ LatencyStats \/ ErrorStats \/ RepeatedClusterInfo \/ Keyspace \/ Sentinel \/ OtherField

Over == pc \in {"done", "failed"} /\ scrapes = MaxScrapes /\ UNCHANGED vars

Next ==
  \/ \E s \in Servers : Begin(s)
  \/ \E key \in settings : ConfigEntry(key)
  \/ ConfigOver \/ ClusterInfo \/ InfoLine \/ InfoEnd
  \/ Latency \/ SlowLog \/ CommandLog
  \/ SentinelMaster \/ SentinelOver \/ Client \/ ClientsOver
  \/ Modules \/ SearchIndexes \/ Over

Spec == Init /\ [][Next]_vars

-----------------------------------------------------------------------------
(* What a scrape promises, told of the server itself.                       *)
Told(s, metric, labels, values, v) ==
  [metric |-> metric, value |-> v,
   labels |-> Paired(WithRole(metric, labels, "instance_role"), WithRole(metric, values, s.role))]

Plain(s, metric, v) == Told(s, metric, <<>>, <<>>, v)

(* The count and the sum of a summary or a histogram, under its labels.     *)
CountTold(sample) == [sample EXCEPT !.metric = CountOf(@)]

SumTold(sample) == [sample EXCEPT !.metric = SumOf(@)]

PromisedInstance(s) ==
  {Plain(s, "exporter_last_scrape_connect_time_seconds", 1),
   Plain(s, "uptime_in_seconds", Number[s.uptime]),
   Plain(s, "start_time_seconds", Now - Number[s.uptime]),
   CASE ~ IsValkey(s) -> Told(s, "instance_info", <<"role", "redis_mode">>, <<s.role, s.mode>>, 1)
     [] IsValkey(s) /\ s.zone = "" ->
          Told(s, "instance_info", <<"role", "redis_mode", "valkey_version">>,
               <<s.role, s.mode, "9.1">>, 1)
     [] OTHER ->
          Told(s, "instance_info",
               <<"role", "redis_mode", "valkey_version", "availability_zone">>,
               <<s.role, s.mode, "9.1", s.zone>>, 1)}
  \cup IF ~ IsValkey(s) THEN {} ELSE
  {Told(s, "tls_certificate_info", <<"certificate", "serial">>, <<"server", "a1">>, 1),
   Plain(s, "tls_server_cert_expires_in_seconds", 3), Plain(s, "scripting_engines_count", 1),
   Told(s, "scripting_engine_info", <<"engine", "module", "abi_version">>, <<"LUA", "lua", "4">>, 1),
   Told(s, "scripting_engine_memory_used_bytes", <<"engine", "module", "abi_version">>,
        <<"LUA", "lua", "4">>, 2)}

(* Each master's link, and each replica connected, under its own address.   *)
PromisedReplication(s) ==
  LET OfMaster(metric, m, v) ==
        Told(s, metric, <<"master_host", "master_port">>, <<m.host, m.port>>, v)
      OfSlave(metric, r, v) ==
        Told(s, metric, <<"slave_ip", "slave_port", "slave_state">>, <<r.ip, r.port, r.state>>, v)
      masters == ToSet(s.masters)
      slaves == {r \in ToSet(s.slaves) : r.whole}
  IN {Plain(s, "connected_slaves", 2), Told(s, "errors_total", <<"err">>, <<"ERR">>, 3)}
     \cup {OfMaster("master_link_up", m, IF m.link = "up" THEN 1 ELSE 0) : m \in masters}
     \cup {OfMaster("master_last_io_seconds_ago", m, Number[m.io]) : m \in masters}
     \cup {OfMaster("slave_repl_offset", m, Number[m.offset]) : m \in masters}
     \cup {Told(s, "slave_info", <<"master_host", "master_port", "read_only">>,
                <<s.masters[1].host, s.masters[1].port, "1">>, 1) : role \in {"slave"} \cap {s.role}}
     \cup {OfSlave("connected_slave_offset_bytes", r, r.offset) : r \in slaves}
     \cup {OfSlave("connected_slave_lag_seconds", r, r.lag) : r \in {q \in slaves : q.lag # -1}}

PromisedCommands(s) ==
  LET OfCommand(metric, c, v) == Told(s, metric, <<"cmd">>, <<c.cmd>>, v)
      known == {c \in ToSet(s.commands) : c.fields >= 3}
      timed == {c \in known : c.cmd \in ToSet(s.latencies)}
  IN {OfCommand("commands_total", c, c.calls) : c \in known}
     \cup {OfCommand("commands_rejected_calls_total", c, c.rejected) :
             c \in {k \in known : k.fields >= 5}}
     \cup {OfCommand("commands_slowlog_total", c, c.slow) : c \in {k \in known : k.slow # -1}}
     \cup {CountTold(OfCommand("latency_percentiles_usec", c, c.calls)) : c \in timed}
     \cup {SumTold(OfCommand("latency_percentiles_usec", c, c.usec)) : c \in timed}

(* Every database that tells of its keys, and the other ones with zeros.    *)
Databases(s) ==
  LET numbered == s.config # Denied /\ "databases" \in DOMAIN s.config
                  /\ IsNumber(s.config["databases"])
      configured == IF numbered THEN Number[s.config["databases"]] ELSE 0
  IN CASE s.cluster \notin {"off", Denied} -> 1
       [] s.cluster = "off" /\ configured = 0 -> DefaultDatabases
       [] OTHER -> configured

PromisedKeyspace(s) ==
  LET OfDb(metric, n, v) == Told(s, metric, <<"db">>, <<DbName(n)>>, v)
      full == {d \in ToSet(s.keyspace) : d.whole}
      empty == {n \in 0 .. Databases(s) - 1 : \A d \in full : d.db # n}
  IN {OfDb("db_keys", d.db, d.keys) : d \in full}
     \cup {OfDb("db_keys_expiring", d.db, d.expires) : d \in full}
     \cup {OfDb("db_avg_ttl_seconds", d.db, d.ttl \div 1000) : d \in {e \in full : e.ttl # -1}}
     \cup {OfDb(metric, n, 0) : metric \in {"db_keys", "db_keys_expiring"}, n \in empty}

PromisedCluster(s) ==
  {Plain(s, "cluster_enabled", IF s.cluster = "off" THEN 0 ELSE 1)}
  \cup IF s.cluster \in {"off", Denied} THEN {}
       ELSE {Plain(s, "cluster_state", 1), Plain(s, "cluster_known_nodes", 3)}

PromisedConfig(s) ==
  LET keys == IF s.config = Denied THEN {} ELSE DOMAIN s.config
      shown == {k \in keys : Shown(k)}
      numbers == {k \in keys : IsNumber(s.config[k])}
      Limit(metric, limit, v) == Told(s, metric, <<"class", "limit">>, <<Limits.class, limit>>, v)
  IN {Told(s, "config_key_value", <<"key", "value">>, <<k, s.config[k]>>, 1) : k \in shown}
     \cup {Told(s, "config_value", <<"key">>, <<k>>, Number[s.config[k]]) : k \in shown \cap numbers}
     \cup {Plain(s, "config_maxmemory", Number[s.config[k]]) : k \in numbers \cap {"maxmemory"}}
     \cup (IF s.config = Denied \/ ~ InclRdbFileSizeMetric \/ s.rdb = Denied THEN {}
           ELSE {Plain(s, "rdb_current_size_bytes", s.rdb)})
     \cup IF "client-output-buffer-limit" \notin keys THEN {} ELSE
          {Limit("config_client_output_buffer_limit_bytes", "hard", Limits.hard),
           Limit("config_client_output_buffer_limit_bytes", "soft", Limits.soft),
           Limit("config_client_output_buffer_limit_overcome_seconds", "soft", Limits.seconds)}

OfWatched(s, metric, m, v) ==
  Told(s, metric, <<"master_name", "master_address">>, <<m.name, m.address>>, v)

(* Every master that INFO tells a Sentinel watches, ...                     *)
PromisedWatched(s) ==
  LET told == ToSet(s.watched)
  IN {Plain(s, "sentinel_masters", 2)}
     \cup {Told(s, "sentinel_master_status", <<"master_name", "master_address", "master_status">>,
                <<m.name, m.address, m.status>>, IF m.status = "ok" THEN 1 ELSE 0) : m \in told}
     \cup {OfWatched(s, "sentinel_master_slaves", m, m.slaves) : m \in told}

(* ... with those that agree on it, ...                                     *)
KnownUp(reply) == {p \in ToSet(Answer(reply)) : Up(p.flags)}

PromisedMaster(s, m) ==
  {Told(s, "sentinel_master_ckquorum_status", <<"master_name", "message">>,
        <<m.name, IF m.ckquorum = Denied THEN "NOQUORUM" ELSE m.ckquorum>>,
        IF m.ckquorum = Denied THEN 0 ELSE 1),
   OfWatched(s, "sentinel_master_setting_ckquorum", m, m.quorum),
   OfWatched(s, "sentinel_master_ok_sentinels", m, Cardinality(KnownUp(m.sentinels)) + 1),
   OfWatched(s, "sentinel_master_ok_slaves", m, Cardinality(KnownUp(m.replicas)))}
  \cup {Told(s, "sentinel_peer_info", <<"master_name", "master_address", "name">>,
             <<m.name, m.address, p.name>>, 1) :
          p \in IF InclSentinelPeerInfo THEN ToSet(Answer(m.sentinels)) ELSE {}}

(* ... and the Sentinel's own settings.                                     *)
PromisedSettings(s) ==
  LET keys == IF ~ InclConfigMetrics \/ s.sentinelConfig = Denied THEN {}
              ELSE DOMAIN s.sentinelConfig
  IN {Told(s, "sentinel_config_key_value", <<"key", "value">>, <<k, s.sentinelConfig[k]>>, 1) :
        k \in keys}
     \cup {Told(s, "sentinel_config_value", <<"key">>, <<k>>, Number[s.sentinelConfig[k]]) :
             k \in {n \in keys : IsNumber(s.sentinelConfig[n])}}

PromisedSentinel(s) ==
  PromisedWatched(s) \cup PromisedSettings(s)
  \cup UNION {PromisedMaster(s, m) : m \in IF s.mastersReply = Denied THEN {} ELSE ToSet(s.watched)}

PromisedClients(s) ==
  LET OfClient(metric, c, v) == Told(s, metric, <<"id", "name">>, <<c.id, c.name>>, v)
      listed == {c \in ToSet(Listed(s)) : c.wellFormed}
      Labels(c) == {"id", "name"} \cup (IF ExportClientsInclPort THEN {"port"} ELSE {})
                   \cup ({l \in {"user", "resp"} : c[l] # ""})
                   \cup (IF appendRole THEN {"instance_role"} ELSE {})
      Info(c) == [metric |-> "connected_client_info", value |-> 1,
                  labels |-> [l \in Labels(c) |-> IF l = "instance_role" THEN s.role ELSE c[l]]]
  IN {Info(c) : c \in listed}
     \cup {OfClient("connected_client_created_at_timestamp", c, Now - c.age) : c \in listed}
     \cup {OfClient("connected_client_read_events_total", c, c.events) :
             c \in {d \in listed : d.events # -1}}
     \cup {OfClient("connected_client_shard_channel_subscriptions_count", c, c.ssub) :
             c \in {d \in listed : d.ssub # -1}}

(* The sum of a histogram is that of all lines of INFO that are the         *)
(* command's.                                                               *)
Usec(s, cmd) ==
  MapThenSumSet(LAMBDA c : IF c.plain /\ cmd \in {c.cmd, c.of} THEN c.usec ELSE 0, ToSet(s.commands))

PromisedLatency(s) ==
  LET OfEvent(metric, l, v) == Told(s, metric, <<"event_name">>, <<l.event>>, v)
      OfTimed(h, v) == Told(s, "commands_latencies_usec", <<"cmd">>, <<h.cmd>>, v)
      spikes == ToSet(Answer(s.spikes))
      hs == Answer(s.histograms)
      timed == {hs[i] : i \in {j \in DOMAIN hs : \A k \in 1 .. j : hs[k].whole}}
  IN {OfEvent("latency_spike_last", l, l.last) : l \in spikes}
     \cup {OfEvent("latency_spike_duration_seconds", l, l.ms \div 1000) : l \in spikes}
     \cup {CountTold(OfTimed(h, h.calls)) : h \in timed}
     \cup {SumTold(OfTimed(h, Usec(s, h.cmd))) : h \in timed}

PromisedSlowLog(s) ==
  LET slowest == ToSet(Answer(s.slowest))
  IN {Plain(s, "slowlog_length", n) : n \in {s.slowLength} \ {Denied}}
     \cup {Plain(s, "slowlog_last_id", e.id) : e \in slowest}
     \cup {Plain(s, "last_slow_execution_duration_seconds", e.seconds) : e \in slowest}
     \cup IF s.slowest # <<>> THEN {} ELSE
          {Plain(s, "slowlog_last_id", 0), Plain(s, "last_slow_execution_duration_seconds", 0)}

PromisedCommandLog(s) ==
  LET told == {t \in DOMAIN commandLogTypes : s.commandLog[t] # Denied}
      known == {k \in DOMAIN commandLogConfig : k \in DOMAIN s.config /\ IsNumber(s.config[k])}
  IN IF s.commandLog = Denied THEN {}
     ELSE {Plain(s, commandLogTypes[t], s.commandLog[t]) : t \in told}
          \cup IF s.config = Denied THEN {}
               ELSE {Plain(s, commandLogConfig[k], Number[s.config[k]]) : k \in known}

PromisedModules(s) ==
  LET lines == ToSet(Answer(s.modules))
      modules == {l \in lines : l.key = "module"}
  IN {Told(s, "module_info", <<"name", "ver">>, <<l.value.name, l.value.ver>>, 1) :
        l \in {m \in modules : m.value.fields = 7}}
     \cup {Plain(s, "search_indexing_time_ms_total", Number[l.value]) : l \in lines \ modules}

(* A search index is told unless one before it was dropped.                 *)
PromisedIndexes(s) ==
  LET is == Answer(s.indexes)
      asked == {is[i] : i \in {j \in DOMAIN is : \A k \in 1 .. j : is[k].wanted => ~ is[k].dropped}}
  IN {Told(s, "search_index_num_docs", <<"index_name">>, <<i.name>>, i.docs) :
        i \in {j \in asked : j.wanted /\ j.readable}}

Promised(s) ==
  PromisedInstance(s) \cup PromisedConfig(s) \cup PromisedKeyspace(s) \cup PromisedClients(s)
  \cup PromisedLatency(s) \cup PromisedSlowLog(s) \cup PromisedCommandLog(s)
  \cup PromisedModules(s) \cup PromisedIndexes(s)
  \cup IF IsSentinel(s) THEN PromisedSentinel(s)
       ELSE PromisedReplication(s) \cup PromisedCommands(s) \cup PromisedCluster(s)

-----------------------------------------------------------------------------
TypeOK ==
  /\ appendRole \in BOOLEAN /\ server \in Servers /\ pc \in PCs
  /\ scrapes \in 0 .. MaxScrapes /\ dbCount \in Nat /\ at \in Nat \ {0}
  /\ settings \subseteq (IF server.config = Denied THEN {} ELSE DOMAIN server.config)
  /\ \A i \in DOMAIN samples : DOMAIN samples[i] = {"metric", "labels", "value"}
  /\ lost \subseteq STRING

(* A scrape exports what the server of that scrape is, of each of its       *)
(* masters, replicas, databases, commands and clients under their own       *)
(* labels, and nothing of the server scraped before; one that gave up has   *)
(* exported a part of it.                                                   *)
ExportsTheServer ==
  /\ pc = "done" => ToSet(samples) = Promised(server)
  /\ pc = "failed" => ToSet(samples) \subseteq Promised(server)

(* No two samples of a scrape have the same metric and the same labels:     *)
(* the registry would refuse the second one.                                *)
ExportedOnce ==
  Cardinality({[metric |-> samples[i].metric, labels |-> samples[i].labels] :
               i \in DOMAIN samples}) = Len(samples)

(* Whatever servers were scraped before, no metric comes with more or fewer *)
(* label values than its description has labels (the sample is dropped), or *)
(* before it has one (the process panics).                                  *)
NothingLost == lost = {}
=============================================================================
