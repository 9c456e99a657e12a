-------------------------- MODULE MetricDescriptions --------------------------
(***************************************************************************)
(* createMetricDescription, registerConstMetric and registerConstSummary:   *)
(* a sample pairs the label values it is given with the labels of the       *)
(* description its metric has at that moment.  The descriptions are those   *)
(* of NewRedisExporter, outlive the scrape, and are replaced when a metric  *)
(* comes with other labels.                                                 *)
(***************************************************************************)
EXTENDS Integers, Sequences, FiniteSets, SequencesExt

VARIABLES
  appendRole,      \* --append-instance-role-label
  instanceRole,    \* the role the label tells, of this scrape's INFO
  descriptions,    \* metricDescriptions with metricDescriptionLabels, by metric
  samples,         \* what this scrape has sent to its channel
  lost             \* auxiliary: the metrics dropped, or looked up in vain

exporterVars == <<appendRole, instanceRole, descriptions, samples, lost>>

(* Collected before the role is known.                                      *)
Roleless == {"exporter_last_scrape_connect_time_seconds",
             "exporter_last_scrape_ping_time_seconds"}

WithRole(metric, list, role) ==
  IF appendRole /\ metric \notin Roleless THEN Append(list, role) ELSE list

(* The table NewRedisExporter starts with, of the metrics modelled.         *)
ByMaster == {"master_link_up", "master_last_io_seconds_ago", "master_sync_in_progress",
             "slave_repl_offset"}
BySlave == {"connected_slave_offset_bytes", "connected_slave_lag_seconds"}
ByDb == {"db_keys", "db_keys_expiring", "db_avg_ttl_seconds"}
ByCommand == {"commands_total", "commands_rejected_calls_total", "commands_slowlog_total",
              "latency_percentiles_usec", "commands_latencies_usec"}
ByEngine == {"scripting_engine_info", "scripting_engine_memory_used_bytes"}
BySetting == {"config_key_value", "sentinel_config_key_value"}
ByNumber == {"config_value", "sentinel_config_value"}
ByLimit == {"config_client_output_buffer_limit_bytes",
            "config_client_output_buffer_limit_overcome_seconds"}
ByWatched == {"sentinel_master_slaves", "sentinel_master_ok_sentinels",
              "sentinel_master_ok_slaves", "sentinel_master_setting_ckquorum"}
ByClient == {"connected_client_read_events_total"}
BySpike == {"latency_spike_last", "latency_spike_duration_seconds"}
Unlabelled == {"start_time_seconds", "rdb_current_size_bytes", "slowlog_length",
               "slowlog_last_id", "last_slow_execution_duration_seconds",
               "commandlog_slow_length", "commandlog_large_request_length",
               "commandlog_request_larger_than", "sentinel_masters"}
Single == {"slave_info", "errors_total", "tls_certificate_info", "sentinel_master_status",
           "sentinel_master_ckquorum_status", "sentinel_peer_info", "module_info",
           "search_index_num_docs"}

LabelsOf(metric) ==
  CASE metric \in ByMaster  -> <<"master_host", "master_port">>
    [] metric \in BySlave   -> <<"slave_ip", "slave_port", "slave_state">>
    [] metric \in ByDb      -> <<"db">>
    [] metric \in ByCommand -> <<"cmd">>
    [] metric \in ByEngine  -> <<"engine", "module", "abi_version">>
    [] metric \in BySetting -> <<"key", "value">>
    [] metric \in ByNumber  -> <<"key">>
    [] metric \in ByLimit   -> <<"class", "limit">>
    [] metric \in ByWatched -> <<"master_name", "master_address">>
    [] metric \in ByClient  -> <<"id", "name">>
    [] metric \in BySpike   -> <<"event_name">>
    [] metric = "slave_info" -> <<"master_host", "master_port", "read_only">>
    [] metric = "errors_total" -> <<"err">>
    [] metric = "tls_certificate_info" -> <<"certificate", "serial">>
    [] metric = "sentinel_master_status" -> <<"master_name", "master_address", "master_status">>
    [] metric = "sentinel_master_ckquorum_status" -> <<"master_name", "message">>
    [] metric = "sentinel_peer_info" -> <<"master_name", "master_address", "name">>
    [] metric = "module_info" -> <<"name", "ver">>
    [] metric = "search_index_num_docs" -> <<"index_name">>
    [] OTHER -> <<>>

Described ==
  [metric \in UNION {ByMaster, BySlave, ByDb, ByCommand, ByEngine, BySetting, ByNumber, ByLimit,
                     ByWatched, ByClient, BySpike, Unlabelled, Single} |->
     WithRole(metric, LabelsOf(metric), "instance_role")]

Put(f, key, value) == [k \in DOMAIN f \cup {key} |-> IF k = key THEN value ELSE f[k]]

(* A step of a scrape maps what the exporter has to what it has next.       *)
exporter == [descriptions |-> descriptions, samples |-> samples, lost |-> lost]

Becomes(x) == /\ descriptions' = x.descriptions /\ samples' = x.samples /\ lost' = x.lost
              /\ UNCHANGED appendRole

(* Were a description never replaced, or only for more or fewer labels.     *)
NeverReplaced(x, metric, labels) ==
  IF metric \in DOMAIN x.descriptions THEN x
  ELSE [x EXCEPT !.descriptions = Put(@, metric, WithRole(metric, labels, "instance_role"))]

ReplacedByLength(x, metric, labels) ==
  LET all == WithRole(metric, labels, "instance_role")
  IN IF metric \in DOMAIN x.descriptions /\ Len(x.descriptions[metric]) = Len(all) THEN x
     ELSE [x EXCEPT !.descriptions = Put(@, metric, all)]

createMetricDescription(x, metric, labels) ==
  LET all == WithRole(metric, labels, "instance_role")
  IN IF metric \in DOMAIN x.descriptions /\ (all = <<>> \/ x.descriptions[metric] = all)
     THEN x
     ELSE [x EXCEPT !.descriptions = Put(@, metric, all)]

(* NewConstMetric refuses values that are not as many as the labels.        *)
Paired(labels, values) ==
  [l \in ToSet(labels) |-> values[CHOOSE i \in DOMAIN labels : labels[i] = l]]

Send(x, metric, values, told) ==
  IF metric \in DOMAIN x.descriptions /\ Len(x.descriptions[metric]) = Len(values)
  THEN [x EXCEPT !.samples = @ \o
          [i \in DOMAIN told |-> [metric |-> told[i].series, value |-> told[i].value,
                                  labels |-> Paired(x.descriptions[metric], values)]]]
  ELSE [x EXCEPT !.lost = @ \cup {metric}]

registerConstMetric(x, metric, value, values) ==
  LET y == IF values = <<>> THEN createMetricDescription(x, metric, <<>>) ELSE x
  IN Send(y, metric, WithRole(metric, values, instanceRole),
          <<[series |-> metric, value |-> value]>>)

(* A summary is told as the series of its count and of its sum.             *)
CountOf(metric) == metric \o "_count"

SumOf(metric) == metric \o "_sum"

registerConstSummary(x, metric, count, sum, values) ==
  Send(x, metric, WithRole(metric, values, instanceRole),
       <<[series |-> CountOf(metric), value |-> count],
         [series |-> SumOf(metric), value |-> sum]>>)

(* So is a histogram.                                                       *)
registerConstHistogram(x, metric, count, sum, values) ==
  registerConstSummary(x, metric, count, sum, values)
=============================================================================
