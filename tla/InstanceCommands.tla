-------------------------- MODULE InstanceCommands --------------------------
(***************************************************************************)
(* The parts of a scrape that ask a command or two each: latencies, the     *)
(* slow log and the command log, modules and search indexes.  An error of   *)
(* one of them never ends the scrape.                                       *)
(***************************************************************************)
EXTENDS InfoMetrics

(* The rest of the scrape goes on with the next part.                       *)
GoOn(part) == /\ pc' = part /\ at' = 1
              /\ UNCHANGED <<instanceRole, server, scrapes, settings, dbCount, reader>>

(* The entries before the first one of those that end the loop.             *)
Before(reply, ends) == IF ends = {} THEN reply ELSE SubSeq(reply, 1, Min(ends) - 1)

-----------------------------------------------------------------------------
(* extractLatencyMetrics: the last spike of every event, then a histogram   *)
(* by command.                                                              *)
Spike(x, l) ==
  Gauge(Gauge(x, "latency_spike_last", l.last, <<l.event>>),
        "latency_spike_duration_seconds", l.ms \div 1000, <<l.event>>)

(* INFO does not tell the time of a command with subcommands, only theirs;  *)
(* names with other characters than letters, digits and | are not matched.  *)
extractTotalUsec(s, cmd) ==
  FoldLeft(LAMBDA total, c : IF c.plain /\ cmd \in {c.cmd, c.of} THEN total + c.usec ELSE total,
           0, s.commands)

Histogram(x, h) ==
  registerConstHistogram(
    createMetricDescription(x, "commands_latencies_usec", <<"cmd">>),
    "commands_latencies_usec", h.calls, extractTotalUsec(server, h.cmd), <<h.cmd>>)

Latency ==
  /\ pc = "latency"
  /\ LET hs == Answer(server.histograms)
     IN Becomes(FoldLeft(Histogram, FoldLeft(Spike, exporter, Answer(server.spikes)),
                         Before(hs, {i \in DOMAIN hs : ~ hs[i].whole})))
  /\ GoOn("slowlog")

(* An empty slow log has the last id 0.                                     *)
SlowLog ==
  /\ pc = "slowlog"
  /\ LET told == IF server.slowLength = Denied THEN exporter
                 ELSE Gauge(exporter, "slowlog_length", server.slowLength, <<>>)
         last == IF Answer(server.slowest) = <<>> THEN [id |-> 0, seconds |-> 0]
                 ELSE server.slowest[1]
     IN Becomes(IF server.slowest = Denied THEN told
                ELSE Gauge(Gauge(told, "slowlog_last_id", last.id, <<>>),
                           "last_slow_execution_duration_seconds", last.seconds, <<>>))
  /\ GoOn("commandlog")

(* Valkey's command log: an entry of the table is a kind of log and a       *)
(* setting; CONFIG GET is asked for the settings again.                     *)
commandLogTypes ==
  [slow |-> "commandlog_slow_length", large_request |-> "commandlog_large_request_length"]

commandLogConfig == [key \in {"commandlog-request-larger-than"} |-> "commandlog_request_larger_than"]

CommandLogLength(x, type) ==
  IF server.commandLog[type] = Denied THEN x
  ELSE Gauge(x, commandLogTypes[type], server.commandLog[type], <<>>)

CommandLogSetting(x, key) ==
  IF key \in DOMAIN server.config /\ IsNumber(server.config[key])
  THEN Gauge(x, commandLogConfig[key], Number[server.config[key]], <<>>) ELSE x

CommandLog ==
  /\ pc = "commandlog"
  /\ LET lengths == FoldLeft(CommandLogLength, exporter, SetToSeq(DOMAIN commandLogTypes))
     IN Becomes(CASE server.commandLog = Denied -> exporter
                  [] server.commandLog # Denied /\ server.config = Denied -> lengths
                  [] OTHER -> FoldLeft(CommandLogSetting, lengths,
                                       SetToSeq(DOMAIN commandLogConfig)))
  /\ GoOn(IF IsSentinel(server) THEN "sentinel" ELSE "clients")

-----------------------------------------------------------------------------
(* extractModulesMetrics: a module has seven fields, and the modules'       *)
(* sections have metrics of their own.                                      *)
ModuleLine(x, line) ==
  CASE line.key # "module" -> FromField(x, line)
    [] line.key = "module" /\ line.value.fields = 7 ->
         Gauge(x, "module_info", 1, <<line.value.name, line.value.ver>>)
    [] OTHER -> x

Modules ==
  /\ pc = "modules"
  /\ Becomes(FoldLeft(ModuleLine, exporter, Answer(server.modules)))
  /\ GoOn("indexes")

(* extractSearchIndexesMetrics: FT._LIST, then FT.INFO of every index that  *)
(* --check-search-indexes wants; an index may be dropped in between, which  *)
(* ends the loop, and one that cannot be read is left out.                  *)
SearchIndex(x, i) ==
  IF i.wanted /\ i.readable THEN Gauge(x, "search_index_num_docs", i.docs, <<i.name>>) ELSE x

SearchIndexes ==
  /\ pc = "indexes"
  /\ LET is == Answer(server.indexes)
     IN Becomes(FoldLeft(SearchIndex, exporter,
                         Before(is, {i \in DOMAIN is : is[i].wanted /\ is[i].dropped})))
  /\ GoOn("done")
=============================================================================
