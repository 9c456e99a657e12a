-------------------------- MODULE MCInstanceMetrics --------------------------
(* An instance of InstanceMetrics for TLC: a master with nothing unusual,   *)
(* and the servers that differ from it in one or two respects.              *)
EXTENDS InstanceMetrics

Settings(databases) == ("databases" :> databases) @@ ("maxmemory" :> "3")

AllSettings(databases) ==
  Settings(databases) @@ ("requirepass" :> "secret")
  @@ ("client-output-buffer-limit" :> "normal 0 2 3")

Master(n, link, io, offset) ==
  [host |-> "h" \o ToString(n), port |-> "p" \o ToString(n), link |-> link, io |-> io,
   offset |-> offset]

Slave(n, lag) ==
  [whole |-> TRUE, ip |-> "i" \o ToString(n), port |-> "p", state |-> "online", offset |-> n, lag |-> lag]

Command(cmd, calls, fields) ==
  [cmd |-> cmd, of |-> "", plain |-> TRUE, calls |-> calls, usec |-> calls + 1, rejected |-> 1,
   slow |-> -1, fields |-> fields]

Subcommand(cmd, of, calls) == [Command(cmd, calls, 5) EXCEPT !.of = of]

Timed(cmd, calls) == [cmd |-> cmd, calls |-> calls, whole |-> TRUE]

Slow(cmd, calls) == [Command(cmd, calls, 5) EXCEPT !.slow = 1]

Db(n, keys, ttl) == [whole |-> TRUE, db |-> n, keys |-> keys, expires |-> 1, ttl |-> ttl]

Client1 == [wellFormed |-> TRUE, id |-> "1", name |-> "a", user |-> "", resp |-> "",
            port |-> "80", age |-> 1, ssub |-> -1, events |-> -1]
Client2 == [Client1 EXCEPT !.id = "2", !.user = "u", !.events = 2]
Client3 == [Client1 EXCEPT !.id = "3", !.resp = "3", !.ssub = 1]
Client4 == [Client1 EXCEPT !.id = "4", !.user = "u", !.resp = "3", !.age = 2]
Client5 == [Client1 EXCEPT !.id = "5", !.wellFormed = FALSE]

Watched(n, status, quorum, sentinels, replicas) ==
  [name |-> "m" \o ToString(n), address |-> "h" \o ToString(n), status |-> status, slaves |-> 2,
   quorum |-> 2, ckquorum |-> quorum, sentinels |-> sentinels, replicas |-> replicas]

Peer(n, flags) == [name |-> "n" \o ToString(n), flags |-> flags]

Base ==
  [kind |-> "redis", uptime |-> "3", mode |-> "standalone", zone |-> "", role |-> "master",
   masters |-> <<>>, slaves |-> <<Slave(1, 0), [Slave(3, 0) EXCEPT !.whole = FALSE], Slave(2, -1)>>,
   commands |-> <<Command("get", 2, 5), Subcommand("config|get", "config", 1)>>,
   latencies |-> <<"get", "config|get">>, spikes |-> <<>>, histograms |-> <<Timed("get", 2)>>,
   slowLength |-> 0, slowest |-> <<>>, commandLog |-> Denied, rdb |-> 0, modules |-> <<>>,
   indexes |-> Denied, sentinelConfig |-> Denied,
   cluster |-> "off", config |-> "databases" :> "2", keyspace |-> <<Db(0, 3, 2000)>>,
   watched |-> <<>>, mastersReply |-> "ok", clients |-> <<Client4>>]

Replicas == {[Base EXCEPT !.role = "slave", !.slaves = <<>>, !.masters = m] :
               m \in {<<Master(1, "up", "1", "2")>>, <<Master(1, "down", "-1", "0")>>,
                      <<Master(1, "up", "0", "1"), Master(2, "down", "-1", "2")>>}}
            \cup {[Base EXCEPT !.role = "active-replica", !.masters = <<Master(1, "up", "1", "2")>>]}

Valkeys == {[s EXCEPT !.kind = "valkey", !.zone = z, !.cluster = c] :
              s \in {Base}, z \in {"", "z1"}, c \in {"off", "ok"}}
           \cup {[s EXCEPT !.kind = "valkey", !.zone = "z1"] : s \in Replicas}

Stores == {[Base EXCEPT !.keyspace = k, !.config = d, !.cluster = c] :
             k \in {<<>>, <<Db(0, 1, 1000), [Db(1, 1, 0) EXCEPT !.whole = FALSE], Db(2, 2, -1)>>},
             d \in {Denied, AllSettings("3")},
             c \in {"off", "ok", Denied}}
          \cup {[Base EXCEPT !.config = Settings("many")]}

Commanded == {[Base EXCEPT !.commands = c, !.latencies = l] :
                c \in {<<Command("set", 3, 2), Command("get", 2, 5)>>,
                       <<Slow("get", 2), Command("set", 1, 3)>>},
                l \in {<<>>, <<"get", "ping">>}}

Clienteles == {[Base EXCEPT !.clients = c] :
                 c \in {Denied, <<>>, <<Client1, Client5, Client2>>, <<Client2, Client3>>,
                        <<Client3, Client4, Client1>>}}

Sentinels == {[Base EXCEPT !.kind = "sentinel", !.mode = "sentinel", !.role = "",
                           !.config = Denied, !.slaves = <<>>, !.commands = <<>>,
                           !.sentinelConfig = IF r = Denied THEN Denied
                                              ELSE ("loglevel" :> "notice") @@ ("port" :> "3"),
                           !.latencies = <<>>, !.keyspace = <<>>, !.watched = w,
                           !.mastersReply = r] :
                r \in {"ok", Denied},
                w \in {<<Watched(1, "ok", "OK", <<Peer(1, {"sentinel"}), Peer(2, {"sentinel", "s_down"}),
                                                  Peer(3, {})>>, <<Peer(1, {"slave"})>>)>>,
                       <<Watched(1, "odown", Denied, Denied, <<Peer(1, {"slave", "o_down"})>>),
                         Watched(2, "ok", "OK", <<>>, Denied)>>}}

(* Latencies with a subcommand, a name that is not matched and a reply that  *)
(* cannot be read; logs that are empty, refused or not there.               *)
Timings == {[Base EXCEPT !.commands = @ \o <<Subcommand("config|set", "config", 2),
                                             [Command("georadius_ro", 1, 5) EXCEPT !.plain = FALSE]>>,
                         !.histograms = h, !.spikes = p, !.rdb = 3] :
              h \in {Denied, <<Timed("config", 3), Timed("georadius_ro", 1)>>,
                     <<Timed("get", 1), [Timed("config", 3) EXCEPT !.whole = FALSE], Timed("config|get", 1)>>},
              p \in {Denied, <<[event |-> "fork", last |-> 3, ms |-> 2000]>>}}

Logged == {[Base EXCEPT !.kind = "valkey", !.slowLength = n, !.slowest = l, !.rdb = Denied,
                        !.commandLog = [slow |-> 1, large_request |-> Denied], !.config = d] :
             n \in {Denied, 1}, l \in {Denied, <<[id |-> 7, seconds |-> 1]>>},
             d \in {Denied, Settings("2") @@ ("commandlog-request-larger-than" :> "3")}}

Index(n, state) == [name |-> "x" \o ToString(n), wanted |-> state # "unwanted", docs |-> n,
                    dropped |-> state = "dropped", readable |-> state # "unreadable"]

Searching == {[Base EXCEPT !.modules = m, !.indexes = i] :
                m \in {Denied, <<Field("module", [name |-> "search", ver |-> "1", fields |-> 7]),
                                 Field("module", [name |-> "old", ver |-> "1", fields |-> 3]),
                                 Field("search_total_indexing_time", "3")>>},
                i \in {<<Index(1, "ok"), Index(2, "unwanted"), Index(3, "unreadable"), Index(4, "ok")>>,
                       <<Index(1, "ok"), Index(2, "dropped"), Index(3, "ok")>>}}

AllServers == {Base} \cup Replicas \cup Valkeys \cup Stores \cup Commanded \cup Clienteles
              \cup Sentinels \cup Timings \cup Logged \cup Searching
=============================================================================
