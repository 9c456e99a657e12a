----------------------------- MODULE InfoMetrics -----------------------------
(***************************************************************************)
(* The instance metrics of a scrape: scrapeRedisHost takes CONFIG GET,      *)
(* CLUSTER INFO and INFO ALL, which extractInfoMetrics reads one line after *)
(* the other, then asks a Sentinel for its masters and lists the clients.   *)
(* The same Exporter scrapes again later, when the server may have become   *)
(* another one (a failover, an upgrade), with the metric descriptions that  *)
(* the scrapes before have left.                                            *)
(***************************************************************************)
EXTENDS MetricDescriptions, InfoText

CONSTANTS
  Now,                   \* the time of a scrape
  DefaultDatabases,      \* databases of a server that does not tell: 16 in the code
  InclConfigMetrics, RedactConfigMetrics, ExportClientsInclPort,   \* options
  InclSentinelPeerInfo, InclRdbFileSizeMetric,
  MaxScrapes             \* bound: scrapes of one Exporter

ASSUME InfoMetricsAssumption ==
  /\ DefaultDatabases \in Nat \ {0} /\ MaxScrapes \in Nat /\ Now \in Nat
  /\ {InclConfigMetrics, RedactConfigMetrics, ExportClientsInclPort,
      InclSentinelPeerInfo, InclRdbFileSizeMetric} \subseteq BOOLEAN

VARIABLES
  server,       \* the instance scraped
  pc,           \* the part of the scrape
  scrapes,      \* scrapes begun
  settings,     \* the entries of CONFIG's answer still to be read
  dbCount,
  at,           \* the next line of INFO, master of a Sentinel or client
  fieldClass,
  masterHost, masterPort,
  keyValues,    \* of its entries those that are read again
  handledDBs,
  cmdTotals,    \* cmdCount and cmdSum by command
  cmdLatencies  \* cmdLatencyMap: the commands it has

reader == <<fieldClass, masterHost, masterPort, keyValues, handledDBs, cmdTotals, cmdLatencies>>
vars == <<exporterVars, server, pc, scrapes, settings, dbCount, at, reader>>

PCs == {"idle", "config", "cluster", "info", "latency", "slowlog", "commandlog", "sentinel",
        "clients", "modules", "indexes", "done", "failed"}

Value(key) == IF key \in DOMAIN keyValues THEN keyValues[key] ELSE ""

Gauge(x, metric, value, values) == registerConstMetric(x, metric, value, values)

InitReader ==
  /\ fieldClass = "" /\ masterHost = "" /\ masterPort = ""
  /\ keyValues = <<>> /\ handledDBs = {} /\ cmdTotals = <<>> /\ cmdLatencies = {}

Init ==
  /\ appendRole \in BOOLEAN /\ instanceRole = ""
  /\ descriptions = Described /\ samples = <<>> /\ lost = {}
  /\ server \in Servers /\ pc = "idle" /\ scrapes = 0
  /\ settings = {} /\ dbCount = 0 /\ at = 1
  /\ InitReader

-----------------------------------------------------------------------------
(* The connection, INFO ALL, and CONFIG GET, whose failure is not an error. *)
Begin(s) ==
  /\ pc \in {"idle", "done", "failed"} /\ scrapes < MaxScrapes
  /\ scrapes' = scrapes + 1 /\ server' = s /\ pc' = "config"
  /\ Becomes(Gauge([exporter EXCEPT !.samples = <<>>],
                   "exporter_last_scrape_connect_time_seconds", 1, <<>>))
  /\ instanceRole' = IF appendRole THEN s.role ELSE instanceRole
  /\ settings' = IF s.config = Denied THEN {} ELSE DOMAIN s.config
  /\ dbCount' = 0 /\ at' = 1
  /\ UNCHANGED reader

Secrets == {"masterauth", "requirepass", "tls-key-file-pass", "tls-client-key-file-pass"}

Shown(key) == InclConfigMetrics /\ ~ (RedactConfigMetrics /\ key \in Secrets)

ConfigSamples(x, key, text) ==
  LET told == Gauge(x, "config_key_value", 1, <<key, text>>)
      y == CASE Shown(key) /\ IsNumber(text) ->
                  Gauge(told, "config_value", Number[text], <<key>>)
             [] Shown(key) /\ ~ IsNumber(text) -> told
             [] OTHER -> x
  IN CASE key = "maxmemory" /\ IsNumber(text) ->
            Gauge(y, "config_maxmemory", Number[text], <<>>)
       [] key = "client-output-buffer-limit" ->
            Gauge(Gauge(Gauge(y,
              "config_client_output_buffer_limit_bytes", Limits.hard, <<Limits.class, "hard">>),
              "config_client_output_buffer_limit_bytes", Limits.soft, <<Limits.class, "soft">>),
              "config_client_output_buffer_limit_overcome_seconds", Limits.seconds,
              <<Limits.class, "soft">>)
       [] OTHER -> y

(* Were a text that is no number taken as a number that means unknown.      *)
UnknownDatabases(key) ==
  /\ pc = "config" /\ key \in settings
  /\ settings' = settings \ {key}
  /\ dbCount' = CASE key # "databases" -> dbCount
                  [] IsNumber(server.config[key]) -> Number[server.config[key]]
                  [] OTHER -> -1
  /\ Becomes(ConfigSamples(exporter, key, server.config[key]))
  /\ UNCHANGED <<pc, instanceRole, server, scrapes, at, reader>>

(* extractConfigMetrics reads a map, in no order, and gives the scrape up   *)
(* at a number of databases that is none.                                   *)
ConfigEntry(key) ==
  /\ pc = "config" /\ key \in settings
  /\ settings' = settings \ {key}
  /\ IF key = "databases" /\ ~ IsNumber(server.config[key])
     THEN pc' = "failed" /\ UNCHANGED <<dbCount, descriptions, samples, lost, appendRole>>
     ELSE /\ dbCount' = IF key = "databases" THEN Number[server.config[key]] ELSE dbCount
          /\ Becomes(ConfigSamples(exporter, key, server.config[key]))
          /\ UNCHANGED pc
  /\ UNCHANGED <<instanceRole, server, scrapes, at, reader>>

-----------------------------------------------------------------------------
(* parseAndRegisterConstMetric: the metrics told by a field of their name.  *)
metricMap == [connected_slaves |-> "connected_slaves",
              uptime_in_seconds |-> "uptime_in_seconds",
              tls_server_cert_expires_in_seconds |-> "tls_server_cert_expires_in_seconds",
              engines_count |-> "scripting_engines_count",
              search_total_indexing_time |-> "search_indexing_time_ms_total"]

includeMetric(key) == key \in {"db", "cmdstat", "cluster_enabled", "cluster_state",
                               "cluster_known_nodes"} \cup DOMAIN metricMap

parseAndRegister(x, key, text) ==
  LET metric == IF key \in DOMAIN metricMap THEN metricMap[key] ELSE key
  IN CASE text = "ok"    -> Gauge(x, metric, 1, <<>>)
       [] text = "fail"  -> Gauge(x, metric, 0, <<>>)
       [] IsNumber(text) -> Gauge(x, metric, Number[text], <<>>)
       [] OTHER          -> x

FromField(x, f) == IF includeMetric(f.key) THEN parseAndRegister(x, f.key, f.value) ELSE x

(* extractClusterInfoMetrics; otherwise the default stands in for a number  *)
(* of databases that CONFIG did not tell.                                   *)
ClusterInfo ==
  /\ pc = "cluster"
  /\ IF Holds(server, "cluster_enabled", "1")
     THEN IF server.cluster = Denied
          THEN Becomes(exporter) /\ UNCHANGED dbCount
          ELSE Becomes(FoldLeft(FromField, exporter, ClusterReply)) /\ dbCount' = 1
     ELSE /\ Becomes(exporter)
          /\ dbCount' = IF dbCount = 0 THEN DefaultDatabases ELSE dbCount
  /\ pc' = "info"
  /\ UNCHANGED <<instanceRole, server, scrapes, settings, at, reader>>

(* extractRdbFileSizeMetric, when CONFIG told the file: zero if it is missing. *)
RdbFileSize(x) ==
  IF server.config = Denied \/ ~ InclRdbFileSizeMetric \/ server.rdb = Denied THEN x
  ELSE Gauge(x, "rdb_current_size_bytes", server.rdb, <<>>)

ConfigOver ==
  /\ pc = "config" /\ settings = {}
  /\ pc' = "cluster"
  /\ Becomes(RdbFileSize(exporter))
  /\ UNCHANGED <<instanceRole, server, scrapes, settings, dbCount, at, reader>>

-----------------------------------------------------------------------------
(* extractInfoMetrics, line by line.                                        *)
Lines == [s \in Servers |-> InfoAll(s)]

Line == Lines[server][at]

NextLine == /\ pc = "info" /\ at <= Len(Lines[server])
            /\ at' = at + 1
            /\ UNCHANGED <<instanceRole, server, pc, scrapes, settings, dbCount>>

SectionLine ==
  /\ NextLine /\ Line.key = "#"
  /\ fieldClass' = Line.value
  /\ UNCHANGED <<exporterVars, masterHost, masterPort, keyValues, handledDBs, cmdTotals,
                 cmdLatencies>>

Remembered == {"role", "redis_mode", "server_mode", "valkey_version", "availability_zone",
               "master_host", "master_port", "slave_read_only"}

(* A field: every section remembers it, and the master it may name.         *)
FieldOf(class) ==
  /\ fieldClass = class /\ NextLine /\ Line.key # "#"
  /\ keyValues' = IF Line.key \in Remembered /\ Line.n = 0
                  THEN Put(keyValues, Line.key, Line.value) ELSE keyValues
  /\ masterHost' = IF Line.key = "master_host" THEN Line.value ELSE masterHost
  /\ masterPort' = IF Line.key = "master_port" THEN Line.value ELSE masterPort
  /\ UNCHANGED fieldClass

UnlessMatched == UNCHANGED <<handledDBs, cmdTotals, cmdLatencies>>

(* Only replicas have the first two kinds of field; a replica connected to  *)
(* this instance has no lag before Redis 3.0, and is told nothing of when   *)
(* its line lacks a field.                                                  *)
Replication ==
  /\ FieldOf("Replication") /\ UnlessMatched
  /\ LET master == <<masterHost', masterPort'>>
         v == Line.value
     IN CASE Line.key = "master_link_status" ->
               Becomes(Gauge(exporter, "master_link_up", IF v = "up" THEN 1 ELSE 0, master))
          [] Line.key \in {"master_last_io_seconds_ago", "slave_repl_offset"} ->
               Becomes(Gauge(exporter, Line.key, IF IsNumber(v) THEN Number[v] ELSE 0, master))
          [] Line.key = "slave" /\ ~ v.whole -> Becomes(exporter)
          [] Line.key = "slave" /\ v.whole ->
               LET slave == <<v.ip, v.port, v.state>>
                   x == Gauge(exporter, "connected_slave_offset_bytes", v.offset, slave)
               IN Becomes(IF v.lag > -1
                          THEN Gauge(x, "connected_slave_lag_seconds", v.lag, slave) ELSE x)
          [] OTHER -> Becomes(FromField(exporter, Line))

ServerField ==
  /\ FieldOf("Server") /\ UnlessMatched
  /\ LET x == IF Line.key = "uptime_in_seconds" /\ IsNumber(Line.value)
              THEN Gauge(exporter, "start_time_seconds", Now - Number[Line.value], <<>>)
              ELSE exporter
     IN Becomes(FromField(x, Line))

TLSField ==
  /\ FieldOf("TLS") /\ UnlessMatched
  /\ IF Line.key = "tls_server_cert_serial"
     THEN Becomes(Gauge(exporter, "tls_certificate_info", 1, <<"server", Line.value>>))
     ELSE Becomes(FromField(exporter, Line))

ScriptingEngine ==
  /\ FieldOf("Scripting Engines") /\ UnlessMatched
  /\ IF Line.key = "engine_"
     THEN LET labels == <<Line.value.name, Line.value.module, Line.value.abi>>
          IN Becomes(Gauge(Gauge(exporter, "scripting_engine_info", 1, labels),
                           "scripting_engine_memory_used_bytes", Line.value.memory, labels))
     ELSE Becomes(FromField(exporter, Line))

(* A line of fewer than three fields is not parsed, but leaves its command  *)
(* with the totals zero; the rejected calls are told since Redis 6.2, those *)
(* in the slow log by some servers.                                         *)
CommandStats ==
  /\ FieldOf("Commandstats") /\ UNCHANGED <<handledDBs, cmdLatencies>>
  /\ LET c == Line.value
         Created(x, metric) == createMetricDescription(x, metric, <<"cmd">>)
         Told(x, metric, v) == registerConstMetric(Created(x, metric), metric, v, <<c.cmd>>)
         basic == Told(exporter, "commands_total", c.calls)
         extended == IF c.fields < 5 THEN basic
                     ELSE Told(basic, "commands_rejected_calls_total", c.rejected)
     IN /\ cmdTotals' = Put(cmdTotals, c.cmd, IF c.fields < 3 THEN [count |-> 0, sum |-> 0]
                                               ELSE [count |-> c.calls, sum |-> c.usec])
        /\ Becomes(CASE c.fields < 3 -> exporter
                     [] c.fields >= 3 /\ c.slow = -1 -> extended
                     [] OTHER -> Told(extended, "commands_slowlog_total", c.slow))

LatencyStats ==
  /\ FieldOf("Latencystats") /\ UNCHANGED <<handledDBs, cmdTotals>>
  /\ cmdLatencies' = cmdLatencies \cup {Line.value}
  /\ Becomes(exporter)

ErrorStats ==
  /\ FieldOf("Errorstats") /\ UnlessMatched
  /\ Becomes(registerConstMetric(exporter, "errors_total", Line.value.count, <<Line.value.err>>))

(* Were the section read as any other one.                                  *)
ClusterInfoRead ==
  FieldOf("Cluster Info") /\ UnlessMatched /\ Becomes(FromField(exporter, Line))

(* Collected separately, with CLUSTER INFO.                                 *)
RepeatedClusterInfo == FieldOf("Cluster Info") /\ UnlessMatched /\ Becomes(exporter)

DbName(n) == "db" \o ToString(n)

(* parseDBKeyspaceString: the average TTL, in milliseconds, is optional; a  *)
(* line without a required field tells nothing, nor is it a metric.         *)
Keyspace ==
  /\ FieldOf("Keyspace") /\ UNCHANGED <<cmdTotals, cmdLatencies>>
  /\ LET d == Line.value
         name == DbName(Line.n)
         x == Gauge(Gauge(exporter, "db_keys", d.keys, <<name>>),
                    "db_keys_expiring", d.expires, <<name>>)
     IN /\ Becomes(CASE ~ d.whole -> exporter
                     [] d.whole /\ d.ttl = -1 -> x
                     [] OTHER -> Gauge(x, "db_avg_ttl_seconds", d.ttl \div 1000, <<name>>))
        /\ handledDBs' = IF d.whole THEN handledDBs \cup {Line.n} ELSE handledDBs

Sentinel ==
  /\ FieldOf("Sentinel") /\ UnlessMatched
  /\ LET m == Line.value
     IN Becomes(FromField(
          IF Line.key = "sentinel_masters"
          THEN Gauge(exporter, "sentinel_masters", IF IsNumber(m) THEN Number[m] ELSE 0, <<>>)
          ELSE Gauge(Gauge(exporter,
                 "sentinel_master_status", IF m.status = "ok" THEN 1 ELSE 0,
                 <<m.name, m.address, m.status>>),
                 "sentinel_master_slaves", m.slaves, <<m.name, m.address>>), Line))

OtherField == FieldOf("Cluster") /\ UnlessMatched /\ Becomes(FromField(exporter, Line))

-----------------------------------------------------------------------------
(* After the last line.                                                     *)
Summarised(x, cmd) ==
  LET y == createMetricDescription(x, "latency_percentiles_usec", <<"cmd">>)
  IN IF cmd \in DOMAIN cmdTotals
     THEN registerConstSummary(y, "latency_percentiles_usec", cmdTotals[cmd].count,
                               cmdTotals[cmd].sum, <<cmd>>)
     ELSE x

Padded(x, n) ==
  IF n \in handledDBs THEN x
  ELSE Gauge(Gauge(x, "db_keys", 0, <<DbName(n)>>), "db_keys_expiring", 0, <<DbName(n)>>)

InstanceInfo(x) ==
  LET mode == IF Value("redis_mode") = "" THEN Value("server_mode") ELSE Value("redis_mode")
      version == "valkey_version" \in DOMAIN keyValues
      zone == Value("availability_zone") # ""
      labels == <<"role", "redis_mode">> \o (IF version THEN <<"valkey_version">> ELSE <<>>)
                                         \o (IF zone THEN <<"availability_zone">> ELSE <<>>)
      values == <<Value("role"), mode>>
                \o (IF version THEN <<Value("valkey_version")>> ELSE <<>>)
                \o (IF zone THEN <<Value("availability_zone")>> ELSE <<>>)
  IN Gauge(createMetricDescription(x, "instance_info", labels), "instance_info", 1, values)

SlaveInfo(x) ==
  IF Value("role") = "slave"
  THEN Gauge(x, "slave_info", 1,
             <<Value("master_host"), Value("master_port"), Value("slave_read_only")>>)
  ELSE x

(* The databases and the commands are looped over in no order that matters. *)
InfoEnd ==
  /\ pc = "info" /\ at > Len(Lines[server])
  /\ LET summaries == FoldLeft(Summarised, exporter, SetToSeq(cmdLatencies))
         padded == FoldLeft(Padded, summaries, [i \in 1 .. dbCount |-> i - 1])
     IN Becomes(SlaveInfo(InstanceInfo(padded)))
  /\ pc' = "latency"
  /\ at' = 1
  /\ fieldClass' = "" /\ masterHost' = "" /\ masterPort' = ""
  /\ keyValues' = <<>> /\ handledDBs' = {} /\ cmdTotals' = <<>> /\ cmdLatencies' = {}
  /\ UNCHANGED <<instanceRole, server, scrapes, settings, dbCount>>
=============================================================================
