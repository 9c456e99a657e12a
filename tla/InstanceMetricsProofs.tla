------------------------ MODULE InstanceMetricsProofs ------------------------
(***************************************************************************)
(* Proofs about InstanceMetrics, for any servers that answer what servers   *)
(* answer (ServersAssumption), in any order, and any options.  Every step   *)
(* of a scrape adds some samples to those there are: what it adds is told   *)
(* of the server, and together they are what the scrape promises.           *)
(***************************************************************************)
EXTENDS InstanceMetrics, SequenceFacts

(* The labels of every metric but the two whose labels depend on the line.  *)
Dynamic == {"instance_info", "connected_client_info"}

LabelsIn(metric) ==
  IF metric \in {"connected_client_created_at_timestamp",
                 "connected_client_shard_channel_subscriptions_count"}
  THEN <<"id", "name">> ELSE LabelsOf(metric)

DescriptionOf(metric) == WithRole(metric, LabelsIn(metric), "instance_role")

(* The metrics that are not in the table: created when they are told.       *)
Created == {"exporter_last_scrape_connect_time_seconds", "config_maxmemory", "cluster_enabled",
            "cluster_state", "cluster_known_nodes", "connected_slaves", "uptime_in_seconds",
            "tls_server_cert_expires_in_seconds", "scripting_engines_count",
            "search_indexing_time_ms_total", "connected_client_created_at_timestamp",
            "connected_client_shard_channel_subscriptions_count"}

Static == DOMAIN Described \cup Created

(* The lists of labels there may be.                                        *)
InstanceLabels ==
  {<<"role", "redis_mode">> \o version \o zone :
     version \in {<<>>, <<"valkey_version">>}, zone \in {<<>>, <<"availability_zone">>}}

ClientLabels == UNION {{InfoLabels(c) : c \in ToSet(Listed(s))} : s \in Servers}

AnyLabels ==
  {DescriptionOf(metric) : metric \in Static}
  \cup {WithRole("instance_info", labels, "instance_role") : labels \in InstanceLabels}
  \cup {WithRole("connected_client_info", labels, "instance_role") : labels \in ClientLabels}

(* Descriptions that the scrapes before may have left.                      *)
Fitting ==
  {d \in UNION {[D -> AnyLabels] : D \in SUBSET (Static \cup Dynamic)} :
     /\ DOMAIN Described \subseteq DOMAIN d
     /\ \A metric \in DOMAIN d \ Dynamic : d[metric] = DescriptionOf(metric)}

Sampled(S) == \A sample \in S : DOMAIN sample = {"metric", "labels", "value"}

(* What an exporter may be: nothing is lost.                                *)
Fit(x) ==
  /\ x \in [descriptions : Fitting, samples : Seq(ToSet(x.samples)), lost : {{}}]
  /\ Sampled(ToSet(x.samples))

(* The step from x to y adds the samples A, and forgets no metric.          *)
Adds(x, y, A) ==
  Fit(x) => /\ Fit(y) /\ ToSet(y.samples) = ToSet(x.samples) \cup A
            /\ DOMAIN x.descriptions \subseteq DOMAIN y.descriptions

(* Doing nothing adds nothing, ...                                          *)
LEMMA AddsNone == ASSUME NEW x PROVE Adds(x, x, {})
BY DEF Adds

(* ... and one step after another adds what both add.                       *)
LEMMA AddsThen ==
  ASSUME NEW x, NEW y, NEW z, NEW A, NEW B, Adds(x, y, A), Adds(y, z, B)
  PROVE  Adds(x, z, A \cup B)
BY DEF Adds

-----------------------------------------------------------------------------
(* A sequence over some elements is one over more.                          *)
LEMMA SeqGrows ==
  ASSUME NEW S, NEW T, S \subseteq T, NEW s \in Seq(S)
  PROVE  s \in Seq(T)
<1>1. Len(s) \in Nat /\ DOMAIN s = 1 .. Len(s) /\ s = [i \in 1 .. Len(s) |-> s[i]]
  BY LenProperties
<1>2. \A i \in 1 .. Len(s) : s[i] \in T
  BY <1>1, ElementOfSeq
<1> QED
  BY <1>1, <1>2

(* The role is one more label, and one more value.                          *)
LEMMA WithRoleIs ==
  ASSUME NEW S, NEW list \in Seq(S), NEW role \in S, NEW metric
  PROVE  /\ WithRole(metric, list, role) \in Seq(S)
         /\ Len(WithRole(metric, list, role)) =
              IF appendRole /\ metric \notin Roleless THEN Len(list) + 1 ELSE Len(list)
BY AppendProperties DEF WithRole

(* Values that are as many as the labels stay so with the role.             *)
LEMMA RoleFits ==
  ASSUME NEW S, NEW labels \in Seq(S), NEW T, NEW values \in Seq(T), Len(labels) = Len(values),
         NEW role, NEW value, NEW metric
  PROVE  Len(WithRole(metric, labels, role)) = Len(WithRole(metric, values, value))
<1>1. labels \in Seq(S \cup {role}) /\ values \in Seq(T \cup {value})
  BY SeqGrows
<1> QED
  BY <1>1, WithRoleIs

(* The metrics of the table are those of its groups.                        *)
LEMMA NamesAre ==
  /\ DOMAIN Described =
       UNION {ByMaster, BySlave, ByDb, ByCommand, ByEngine, BySetting, ByNumber, ByLimit,
              ByWatched, ByClient, BySpike, Unlabelled, Single}
  /\ Static \cap Dynamic = {}
<1>1. DOMAIN Described =
        UNION {ByMaster, BySlave, ByDb, ByCommand, ByEngine, BySetting, ByNumber, ByLimit,
               ByWatched, ByClient, BySpike, Unlabelled, Single}
  BY DEF Described
<1>2. (ByMaster \cup BySlave \cup ByDb \cup ByCommand) \cap Dynamic = {}
  BY DEF ByMaster, BySlave, ByDb, ByCommand, Dynamic
<1>3. (ByEngine \cup BySetting \cup ByNumber \cup ByLimit \cup ByWatched) \cap Dynamic = {}
  BY DEF ByEngine, BySetting, ByNumber, ByLimit, ByWatched, Dynamic
<1>4. (ByClient \cup BySpike \cup Unlabelled \cup Single \cup Created) \cap Dynamic = {}
  BY DEF ByClient, BySpike, Unlabelled, Single, Created, Dynamic
<1> QED
  BY <1>1, <1>2, <1>3, <1>4 DEF Static

(* The labels the table gives.                                              *)
LEMMA LabelsAre ==
  /\ \A m \in ByMaster : LabelsIn(m) = <<"master_host", "master_port">>
  /\ \A m \in BySlave : LabelsIn(m) = <<"slave_ip", "slave_port", "slave_state">>
  /\ \A m \in ByDb : LabelsIn(m) = <<"db">>
  /\ \A m \in ByCommand : LabelsIn(m) = <<"cmd">>
  /\ \A m \in ByEngine : LabelsIn(m) = <<"engine", "module", "abi_version">>
  /\ \A m \in BySetting : LabelsIn(m) = <<"key", "value">>
  /\ \A m \in ByNumber : LabelsIn(m) = <<"key">>
  /\ \A m \in ByLimit : LabelsIn(m) = <<"class", "limit">>
  /\ \A m \in ByWatched : LabelsIn(m) = <<"master_name", "master_address">>
  /\ \A m \in BySpike : LabelsIn(m) = <<"event_name">>
  /\ \A m \in Unlabelled : LabelsIn(m) = <<>>
  /\ LabelsIn("slave_info") = <<"master_host", "master_port", "read_only">>
  /\ LabelsIn("errors_total") = <<"err">>
  /\ LabelsIn("tls_certificate_info") = <<"certificate", "serial">>
  /\ LabelsIn("sentinel_master_status") = <<"master_name", "master_address", "master_status">>
  /\ LabelsIn("sentinel_master_ckquorum_status") = <<"master_name", "message">>
  /\ LabelsIn("sentinel_peer_info") = <<"master_name", "master_address", "name">>
  /\ LabelsIn("module_info") = <<"name", "ver">>
  /\ LabelsIn("search_index_num_docs") = <<"index_name">>
  /\ LabelsIn("connected_client_created_at_timestamp") = <<"id", "name">>
  /\ LabelsIn("connected_client_read_events_total") = <<"id", "name">>
  /\ LabelsIn("connected_client_shard_channel_subscriptions_count") = <<"id", "name">>
<1> USE DEF LabelsIn, LabelsOf, ByMaster, BySlave, ByDb, ByCommand, ByEngine, BySetting,
            ByNumber, ByLimit, ByWatched, ByClient, BySpike, Unlabelled
<1>1. \A m \in ByMaster : LabelsIn(m) = <<"master_host", "master_port">>
  OBVIOUS
<1>2. \A m \in BySlave : LabelsIn(m) = <<"slave_ip", "slave_port", "slave_state">>
  OBVIOUS
<1>3. \A m \in ByDb : LabelsIn(m) = <<"db">>
  OBVIOUS
<1>4. \A m \in ByCommand : LabelsIn(m) = <<"cmd">>
  OBVIOUS
<1>5. \A m \in ByEngine : LabelsIn(m) = <<"engine", "module", "abi_version">>
  OBVIOUS
<1>6. \A m \in BySetting : LabelsIn(m) = <<"key", "value">>
  OBVIOUS
<1>7. \A m \in ByNumber : LabelsIn(m) = <<"key">>
  OBVIOUS
<1>8. \A m \in ByLimit : LabelsIn(m) = <<"class", "limit">>
  OBVIOUS
<1>9. \A m \in ByWatched : LabelsIn(m) = <<"master_name", "master_address">>
  OBVIOUS
<1>10. \A m \in BySpike : LabelsIn(m) = <<"event_name">>
  OBVIOUS
<1>11. \A m \in Unlabelled : LabelsIn(m) = <<>>
  OBVIOUS
<1>12. LabelsIn("slave_info") = <<"master_host", "master_port", "read_only">>
  OBVIOUS
<1>13. LabelsIn("errors_total") = <<"err">>
  OBVIOUS
<1>14. LabelsIn("tls_certificate_info") = <<"certificate", "serial">>
  OBVIOUS
<1>15. LabelsIn("sentinel_master_status") = <<"master_name", "master_address", "master_status">>
  OBVIOUS
<1>16. LabelsIn("sentinel_master_ckquorum_status") = <<"master_name", "message">>
  OBVIOUS
<1>17. LabelsIn("sentinel_peer_info") = <<"master_name", "master_address", "name">>
  OBVIOUS
<1>18. LabelsIn("module_info") = <<"name", "ver">>
  OBVIOUS
<1>19. LabelsIn("search_index_num_docs") = <<"index_name">>
  OBVIOUS
<1>20. LabelsIn("connected_client_created_at_timestamp") = <<"id", "name">>
  OBVIOUS
<1>21. LabelsIn("connected_client_read_events_total") = <<"id", "name">>
  OBVIOUS
<1>22. LabelsIn("connected_client_shard_channel_subscriptions_count") = <<"id", "name">>
  OBVIOUS
<1> QED
  BY <1>1, <1>2, <1>3, <1>4, <1>5, <1>6, <1>7, <1>8, <1>9, <1>10, <1>11, <1>12, <1>13, <1>14,
     <1>15, <1>16, <1>17, <1>18, <1>19, <1>20, <1>21, <1>22

(* The metrics that are created without labels have none.                   *)
LEMMA CreatedAre ==
  \A m \in Created \ {"connected_client_created_at_timestamp",
                      "connected_client_shard_channel_subscriptions_count"} : LabelsIn(m) = <<>>
BY DEF LabelsIn, LabelsOf, Created, ByMaster, BySlave, ByDb, ByCommand, ByEngine, BySetting,
       ByNumber, ByLimit, ByWatched, ByClient, BySpike

-----------------------------------------------------------------------------
(* A tuple is a sequence of its elements.                                   *)
LEMMA TuplesAre ==
  /\ <<>> \in Seq({}) /\ Len(<<>>) = 0
  /\ \A a : <<a>> \in Seq({a}) /\ Len(<<a>>) = 1
  /\ \A a, b : <<a, b>> \in Seq({a, b}) /\ Len(<<a, b>>) = 2
  /\ \A a, b, c : <<a, b, c>> \in Seq({a, b, c}) /\ Len(<<a, b, c>>) = 3
OBVIOUS

(* A description may be put in place of another one.                        *)
LEMMA PutFits ==
  ASSUME NEW d \in Fitting, NEW m \in Static \cup Dynamic, NEW all \in AnyLabels,
         m \in Dynamic \/ all = DescriptionOf(m)
  PROVE  /\ Put(d, m, all) \in Fitting /\ m \in DOMAIN Put(d, m, all) /\ Put(d, m, all)[m] = all
         /\ DOMAIN d \subseteq DOMAIN Put(d, m, all)
<1> DEFINE e == Put(d, m, all)
<1>1. DOMAIN e = DOMAIN d \cup {m} /\ e[m] = all /\ \A k \in DOMAIN d \ {m} : e[k] = d[k]
  BY DEF Put
<1>2. DOMAIN d \subseteq Static \cup Dynamic /\ \A k \in DOMAIN d : d[k] \in AnyLabels
  BY DEF Fitting
<1>3. e = [k \in DOMAIN e |-> e[k]]
  BY DEF Put
<1>4. e \in [DOMAIN e -> AnyLabels] /\ DOMAIN e \subseteq Static \cup Dynamic
  <2> HIDE DEF e
  <2> QED
    BY <1>1, <1>2, <1>3
<1>5. DOMAIN Described \subseteq DOMAIN e
  BY <1>1 DEF Fitting
<1>6. \A k \in DOMAIN e \ Dynamic : e[k] = DescriptionOf(k)
  BY <1>1 DEF Fitting
<1> HIDE DEF e
<1>7. e \in Fitting
  BY <1>4, <1>5, <1>6 DEF Fitting
<1> QED
  BY <1>1, <1>7 DEF e

(* createMetricDescription leaves the labels it was given.                  *)
LEMMA DescribedAs ==
  ASSUME NEW x, Fit(x), NEW m \in Static \cup Dynamic, NEW labels,
         WithRole(m, labels, "instance_role") \in AnyLabels,
         m \in Dynamic => WithRole(m, labels, "instance_role") # <<>>,
         m \in Dynamic \/ labels = LabelsIn(m),
         NEW y, y = createMetricDescription(x, m, labels)
  PROVE  /\ Adds(x, y, {}) /\ Fit(y)
         /\ m \in DOMAIN y.descriptions
         /\ y.descriptions[m] = WithRole(m, labels, "instance_role")
<1> DEFINE all == WithRole(m, labels, "instance_role")
<1>1. m \in Dynamic \/ all = DescriptionOf(m)
  BY DEF DescriptionOf
<1>2. /\ x.descriptions \in Fitting /\ x.samples \in Seq(ToSet(x.samples)) /\ x.lost = {}
      /\ Sampled(ToSet(x.samples))
  BY DEF Fit
<1>3. CASE m \in DOMAIN x.descriptions /\ (all = <<>> \/ x.descriptions[m] = all)
  <2>1. y = x
    BY <1>3 DEF createMetricDescription
  <2>2. x.descriptions[m] = all
    BY <1>1, <1>2, <1>3 DEF Fitting
  <2> QED
    BY <1>3, <2>1, <2>2, AddsNone
<1>4. CASE ~ (m \in DOMAIN x.descriptions /\ (all = <<>> \/ x.descriptions[m] = all))
  <2>1. y = [x EXCEPT !.descriptions = Put(@, m, all)]
    BY <1>4 DEF createMetricDescription
  <2>2. y = [descriptions |-> Put(x.descriptions, m, all), samples |-> x.samples, lost |-> {}]
    BY <1>2, <2>1 DEF Fit
  <2>3. /\ Put(x.descriptions, m, all) \in Fitting /\ m \in DOMAIN Put(x.descriptions, m, all)
        /\ Put(x.descriptions, m, all)[m] = all
        /\ DOMAIN x.descriptions \subseteq DOMAIN Put(x.descriptions, m, all)
    BY <1>1, <1>2, PutFits
  <2>4. Fit(y) /\ y.samples = x.samples
    BY <1>2, <2>2, <2>3 DEF Fit
  <2> QED
    BY <2>2, <2>3, <2>4 DEF Adds
<1> QED
  BY <1>3, <1>4


(* The labels of a metric are a sequence.                                   *)
IsList(x) == \E S : x \in Seq(S)

(* Tuples are lists.                                                        *)
LEMMA TuplesListed ==
  /\ IsList(<<>>)
  /\ \A a : IsList(<<a>>)
  /\ \A a, b : IsList(<<a, b>>)
  /\ \A a, b, c : IsList(<<a, b, c>>)
BY TuplesAre DEF IsList

(* So are the labels of a metric.                                           *)
LEMMA LabelsListed == \A m \in Static : IsList(LabelsIn(m))
<1>1. \A m \in ByMaster \cup BySlave \cup ByDb \cup ByCommand \cup ByEngine : IsList(LabelsIn(m))
  BY LabelsAre, TuplesListed
<1>2. \A m \in BySetting \cup ByNumber \cup ByLimit \cup ByWatched : IsList(LabelsIn(m))
  BY LabelsAre, TuplesListed
<1>3. \A m \in BySpike \cup Unlabelled : IsList(LabelsIn(m))
  BY LabelsAre, TuplesListed
<1>4. \A m \in ByClient : IsList(LabelsIn(m))
  BY LabelsAre, TuplesListed DEF ByClient
<1>5. \A m \in Single : IsList(LabelsIn(m))
  BY LabelsAre, TuplesListed DEF Single
<1>6. \A m \in Created : IsList(LabelsIn(m))
  BY LabelsAre, CreatedAre, TuplesListed
<1> QED
  BY <1>1, <1>2, <1>3, <1>4, <1>5, <1>6, NamesAre DEF Static

(* A sample for each of the series told.                                    *)
LEMMA SendAdds ==
  ASSUME NEW x, NEW m, NEW values, NEW told,
         m \in DOMAIN x.descriptions, Len(x.descriptions[m]) = Len(values),
         Len(told) \in Nat, DOMAIN told = 1 .. Len(told),
         NEW y, y = Send(x, m, values, told)
  PROVE  Adds(x, y, {[metric |-> told[i].series, value |-> told[i].value,
                      labels |-> Paired(x.descriptions[m], values)] : i \in DOMAIN told})
<1> DEFINE new == [i \in DOMAIN told |-> [metric |-> told[i].series, value |-> told[i].value,
                                          labels |-> Paired(x.descriptions[m], values)]]
           A == {[metric |-> told[i].series, value |-> told[i].value,
                  labels |-> Paired(x.descriptions[m], values)] : i \in DOMAIN told}
<1> SUFFICES ASSUME Fit(x)
             PROVE  Fit(y) /\ ToSet(y.samples) = ToSet(x.samples) \cup A
                    /\ DOMAIN x.descriptions \subseteq DOMAIN y.descriptions
  BY DEF Adds
<1>1. /\ x.descriptions \in Fitting /\ x.samples \in Seq(ToSet(x.samples)) /\ x.lost = {}
      /\ x = [descriptions |-> x.descriptions, samples |-> x.samples, lost |-> {}]
      /\ Sampled(ToSet(x.samples))
  BY DEF Fit
<1>2. y = [x EXCEPT !.samples = @ \o new]
  BY DEF Send
<1>3. y = [descriptions |-> x.descriptions, samples |-> x.samples \o new, lost |-> {}]
  <2> HIDE DEF new
  <2> QED
    BY <1>1, <1>2
<1>4. new \in Seq(A) /\ ToSet(new) = A
  <2>1. new \in [1 .. Len(told) -> A]
    OBVIOUS
  <2>2. ToSet(new) = A
    BY DEF ToSet
  <2> HIDE DEF new, A
  <2> QED
    BY <2>1, <2>2
<1>8. Sampled(A)
  BY DEF Sampled
<1> HIDE DEF new, A
<1> DEFINE U == ToSet(x.samples) \cup A
<1>9. Sampled(U)
  BY <1>1, <1>8 DEF Sampled
<1>5. x.samples \in Seq(U) /\ new \in Seq(U)
  BY <1>1, <1>4, SeqGrows
<1>6. x.samples \o new \in Seq(U)
  BY <1>5, ConcatProperties
<1>7. ToSet(x.samples \o new) = U
  BY <1>4, <1>5, ToSetConcat
<1> HIDE DEF U
<1>10. Fit(y)
  BY <1>1, <1>3, <1>6, <1>7, <1>9 DEF Fit
<1> QED
  BY <1>3, <1>7, <1>10 DEF U

(* The sample of one metric.                                                *)
Sample(metric, value, values) ==
  [metric |-> metric, value |-> value,
   labels |-> Paired(DescriptionOf(metric), WithRole(metric, values, instanceRole))]

(* registerConstMetric adds its sample.                                     *)
LEMMA GaugeAdds ==
  ASSUME NEW x, NEW m \in Static, NEW v, NEW T, NEW values \in Seq(T),
         Len(values) = Len(LabelsIn(m)),
         m \in DOMAIN Described \/ m \in DOMAIN x.descriptions \/ values = <<>>,
         NEW y, y = Gauge(x, m, v, values)
  PROVE  Adds(x, y, {Sample(m, v, values)})
<1> SUFFICES ASSUME Fit(x) PROVE Adds(x, y, {Sample(m, v, values)})
  BY DEF Adds
<1> DEFINE z == IF values = <<>> THEN createMetricDescription(x, m, <<>>) ELSE x
<1>1. PICK S : LabelsIn(m) \in Seq(S)
  BY LabelsListed DEF IsList
<1>2. m \notin Dynamic /\ DescriptionOf(m) \in AnyLabels
  BY NamesAre DEF AnyLabels
<1>3. Adds(x, z, {}) /\ Fit(z) /\ m \in DOMAIN z.descriptions /\ z.descriptions[m] = DescriptionOf(m)
  <2>1. CASE values = <<>>
    <3>1. LabelsIn(m) = <<>>
      BY <1>1, <2>1, EmptySeq
    <3>2. WithRole(m, <<>>, "instance_role") = DescriptionOf(m)
      BY <3>1 DEF DescriptionOf
    <3>3. z = createMetricDescription(x, m, <<>>)
      BY <2>1
    <3> HIDE DEF z
    <3> QED
      BY <1>2, <3>1, <3>2, <3>3, DescribedAs
  <2>2. CASE values # <<>>
    <3>1. z = x /\ (m \in DOMAIN Described \/ m \in DOMAIN x.descriptions)
      BY <2>2
    <3>2. x.descriptions \in Fitting
      BY DEF Fit
    <3> HIDE DEF z
    <3> QED
      BY <1>2, <3>1, <3>2, AddsNone DEF Fitting
  <2> QED
    BY <2>1, <2>2
<1> DEFINE all == WithRole(m, values, instanceRole)
           told == <<[series |-> m, value |-> v]>>
<1>4. y = Send(z, m, all, told)
  BY DEF Gauge, registerConstMetric
<1>5. Len(DescriptionOf(m)) = Len(all)
  BY <1>1, RoleFits DEF DescriptionOf
<1>6. Len(told) = 1 /\ DOMAIN told = 1 .. 1 /\ told[1].series = m /\ told[1].value = v
  OBVIOUS
<1> HIDE DEF z, all, told
<1>7. Adds(z, y, {[metric |-> told[i].series, value |-> told[i].value,
                   labels |-> Paired(z.descriptions[m], all)] : i \in DOMAIN told})
  BY <1>3, <1>4, <1>5, <1>6, SendAdds
<1>8. {[metric |-> told[i].series, value |-> told[i].value,
        labels |-> Paired(z.descriptions[m], all)] : i \in DOMAIN told} = {Sample(m, v, values)}
  <2>1. DOMAIN told = {1}
    BY <1>6
  <2> QED
    BY <1>3, <1>6, <2>1 DEF Sample, all
<1>9. Adds(z, y, {Sample(m, v, values)})
  BY <1>7, <1>8
<1> QED
  BY <1>3, <1>9, AddsThen

(* The role the labels tell is that of the server scraped.                  *)
RoleTold == appendRole => instanceRole = server.role

(* A sample a step of the code makes is one told of the server.             *)
LEMMA SampleIs ==
  ASSUME RoleTold, NEW m, NEW v, NEW values
  PROVE  Sample(m, v, values) = Told(server, m, LabelsIn(m), values, v)
BY DEF RoleTold, Sample, Told, DescriptionOf, WithRole

(* A value for each label of a metric of the table, under those labels.     *)
Telling(m, v, values) == \A x : Adds(x, Gauge(x, m, v, values), {Told(server, m, LabelsIn(m), values, v)})

(* registerConstMetricGauge adds that sample and loses nothing.             *)
LEMMA GaugeTells ==
  ASSUME RoleTold, NEW m \in Static, NEW v, NEW values, IsList(values),
         Len(values) = Len(LabelsIn(m)), m \in DOMAIN Described \/ values = <<>>
  PROVE  Telling(m, v, values)
<1> SUFFICES ASSUME NEW x
             PROVE  Adds(x, Gauge(x, m, v, values), {Told(server, m, LabelsIn(m), values, v)})
  BY DEF Telling
<1>1. PICK T : values \in Seq(T)
  BY DEF IsList
<1>2. Adds(x, Gauge(x, m, v, values), {Sample(m, v, values)})
  <2> DEFINE y == Gauge(x, m, v, values)
  <2>1. y = Gauge(x, m, v, values)
    OBVIOUS
  <2> HIDE DEF y
  <2>2. Adds(x, y, {Sample(m, v, values)})
    BY <1>1, <2>1, GaugeAdds
  <2> QED
    BY <2>1, <2>2
<1> QED
  BY <1>2, SampleIs

(* The groups are in the table.                                             *)
LEMMA InTable ==
  /\ ByMaster \cup BySlave \cup ByDb \cup ByCommand \cup ByEngine \cup BySetting \cup ByNumber
     \cup ByLimit \cup ByWatched \cup BySpike \cup Unlabelled \cup Single
     \subseteq DOMAIN Described
  /\ "connected_client_read_events_total" \in DOMAIN Described
  /\ DOMAIN Described \subseteq Static /\ Created \subseteq Static
BY NamesAre DEF ByClient, Static

(* registerConstMetric, by the number of labels.                            *)
LEMMA TellsPlain ==
  ASSUME RoleTold, NEW m, NEW v, m \in Unlabelled \cup Created, LabelsIn(m) = <<>>, NEW x
  PROVE  Adds(x, Gauge(x, m, v, <<>>), {Plain(server, m, v)})
BY GaugeTells, InTable, TuplesListed DEF Telling, Plain

(* Metrics of one label, ...                                                *)
LEMMA TellsOne ==
  ASSUME RoleTold, NEW m \in DOMAIN Described, NEW v, NEW l, LabelsIn(m) = <<l>>, NEW a, NEW x
  PROVE  Adds(x, Gauge(x, m, v, <<a>>), {Told(server, m, <<l>>, <<a>>, v)})
BY GaugeTells, InTable, TuplesListed, TuplesAre DEF Telling

(* ... of two ...                                                           *)
LEMMA TellsTwo ==
  ASSUME RoleTold, NEW m \in DOMAIN Described, NEW v, NEW k, NEW l, LabelsIn(m) = <<k, l>>,
         NEW a, NEW b, NEW x
  PROVE  Adds(x, Gauge(x, m, v, <<a, b>>), {Told(server, m, <<k, l>>, <<a, b>>, v)})
BY GaugeTells, InTable, TuplesListed, TuplesAre DEF Telling

(* ... and of three.                                                        *)
LEMMA TellsThree ==
  ASSUME RoleTold, NEW m \in DOMAIN Described, NEW v, NEW j, NEW k, NEW l,
         LabelsIn(m) = <<j, k, l>>, NEW a, NEW b, NEW c, NEW x
  PROVE  Adds(x, Gauge(x, m, v, <<a, b, c>>), {Told(server, m, <<j, k, l>>, <<a, b, c>>, v)})
BY GaugeTells, InTable, TuplesListed, TuplesAre DEF Telling

(* A summary and a histogram of a command tell the series of their count    *)
(* and of their sum.                                                        *)
LEMMA SummaryTells ==
  ASSUME RoleTold, NEW m \in ByCommand, NEW count, NEW sum, NEW c, NEW x, NEW y,
         y = registerConstSummary(createMetricDescription(x, m, <<"cmd">>), m, count, sum, <<c>>)
  PROVE  Adds(x, y, {CountTold(Told(server, m, <<"cmd">>, <<c>>, count)),
                     SumTold(Told(server, m, <<"cmd">>, <<c>>, sum))})
<1> DEFINE z == createMetricDescription(x, m, <<"cmd">>)
           all == WithRole(m, <<c>>, instanceRole)
           told == <<[series |-> CountOf(m), value |-> count], [series |-> SumOf(m), value |-> sum]>>
           L == Paired(DescriptionOf(m), all)
<1> SUFFICES ASSUME Fit(x)
             PROVE  Adds(x, y, {CountTold(Told(server, m, <<"cmd">>, <<c>>, count)),
                                SumTold(Told(server, m, <<"cmd">>, <<c>>, sum))})
  BY DEF Adds
<1>1. m \in Static /\ m \notin Dynamic /\ LabelsIn(m) = <<"cmd">> /\ DescriptionOf(m) \in AnyLabels
  BY InTable, NamesAre, LabelsAre DEF AnyLabels
<1>2. Adds(x, z, {}) /\ m \in DOMAIN z.descriptions /\ z.descriptions[m] = DescriptionOf(m)
  <2>1. WithRole(m, <<"cmd">>, "instance_role") = DescriptionOf(m)
    BY <1>1 DEF DescriptionOf
  <2>2. z = createMetricDescription(x, m, <<"cmd">>)
    OBVIOUS
  <2> HIDE DEF z
  <2> QED
    BY <1>1, <2>1, <2>2, DescribedAs
<1>3. y = Send(z, m, all, told)
  BY DEF registerConstSummary
<1>4. Len(DescriptionOf(m)) = Len(all)
  <2> DEFINE p == <<"cmd">>
             q == <<c>>
  <2>1. p \in Seq({"cmd"}) /\ q \in Seq({c}) /\ Len(p) = Len(q)
    OBVIOUS
  <2> HIDE DEF p, q
  <2>2. Len(WithRole(m, p, "instance_role")) = Len(WithRole(m, q, instanceRole))
    BY <2>1, RoleFits
  <2> QED
    BY <1>1, <2>2 DEF DescriptionOf, p, q
<1>5. /\ Len(told) = 2 /\ DOMAIN told = 1 .. 2 /\ told[1].series = CountOf(m) /\ told[1].value = count
      /\ told[2].series = SumOf(m) /\ told[2].value = sum
  OBVIOUS
<1> HIDE DEF z, told
<1> DEFINE A == {[metric |-> told[i].series, value |-> told[i].value,
                  labels |-> Paired(z.descriptions[m], all)] : i \in DOMAIN told}
<1>6. Adds(z, y, A)
  <2> HIDE DEF all
  <2> QED
    BY <1>2, <1>3, <1>4, <1>5, SendAdds
<1>7. A = {[metric |-> CountOf(m), value |-> count, labels |-> L],
           [metric |-> SumOf(m), value |-> sum, labels |-> L]}
  <2>1. DOMAIN told = {1, 2}
    BY <1>5
  <2> HIDE DEF all
  <2> QED
    BY <1>2, <1>5, <2>1
<1>8. L = Told(server, m, <<"cmd">>, <<c>>, count).labels /\ L = Told(server, m, <<"cmd">>, <<c>>, sum).labels
  BY <1>1 DEF RoleTold, Told, DescriptionOf, WithRole
<1>9. /\ CountTold(Told(server, m, <<"cmd">>, <<c>>, count)) = [metric |-> CountOf(m), value |-> count, labels |-> L]
      /\ SumTold(Told(server, m, <<"cmd">>, <<c>>, sum)) = [metric |-> SumOf(m), value |-> sum, labels |-> L]
  <2> HIDE DEF L
  <2> QED
    BY <1>8 DEF CountTold, SumTold, Told
<1>10. Adds(z, y, {CountTold(Told(server, m, <<"cmd">>, <<c>>, count)),
                   SumTold(Told(server, m, <<"cmd">>, <<c>>, sum))})
  BY <1>6, <1>7, <1>9
<1> HIDE DEF L, A
<1> QED
  BY <1>2, <1>10, AddsThen

(* A metric that comes with its labels each time it is told.                *)
LEMMA CreatedTells ==
  ASSUME RoleTold, NEW m \in Static \cup Dynamic, NEW labels,
         WithRole(m, labels, "instance_role") \in AnyLabels,
         m \in Dynamic => WithRole(m, labels, "instance_role") # <<>>,
         m \in Dynamic \/ labels = LabelsIn(m), labels # <<>>,
         NEW v, NEW values, IsList(labels), IsList(values), Len(values) = Len(labels),
         values # <<>>, NEW x, NEW y,
         y = Gauge(createMetricDescription(x, m, labels), m, v, values)
  PROVE  Adds(x, y, {Told(server, m, labels, values, v)})
<1> DEFINE z == createMetricDescription(x, m, labels)
           all == WithRole(m, values, instanceRole)
           told == <<[series |-> m, value |-> v]>>
<1> SUFFICES ASSUME Fit(x) PROVE Adds(x, y, {Told(server, m, labels, values, v)})
  BY DEF Adds
<1>1. /\ Adds(x, z, {}) /\ m \in DOMAIN z.descriptions
      /\ z.descriptions[m] = WithRole(m, labels, "instance_role")
  <2>1. z = createMetricDescription(x, m, labels)
    OBVIOUS
  <2> HIDE DEF z
  <2> QED
    BY <2>1, DescribedAs
<1>2. y = Send(z, m, all, told)
  BY DEF Gauge, registerConstMetric
<1>3. Len(WithRole(m, labels, "instance_role")) = Len(all)
  BY RoleFits DEF IsList
<1>4. Len(told) = 1 /\ DOMAIN told = 1 .. 1 /\ told[1].series = m /\ told[1].value = v
  OBVIOUS
<1> HIDE DEF z, all, told
<1> DEFINE A == {[metric |-> told[i].series, value |-> told[i].value,
                  labels |-> Paired(z.descriptions[m], all)] : i \in DOMAIN told}
<1>5. Adds(z, y, A)
  BY <1>1, <1>2, <1>3, <1>4, SendAdds
<1>6. A = {[metric |-> m, value |-> v, labels |-> Paired(WithRole(m, labels, "instance_role"), all)]}
  <2>1. DOMAIN told = {1}
    BY <1>4
  <2> QED
    BY <1>1, <1>4, <2>1
<1>7. all = WithRole(m, values, server.role)
  BY DEF all, RoleTold, WithRole
<1>8. A = {Told(server, m, labels, values, v)}
  BY <1>6, <1>7 DEF Told
<1> HIDE DEF A
<1> QED
  BY <1>1, <1>5, <1>8, AddsThen

(* The indices of a sequence.                                               *)
LEMMA IndicesAre ==
  ASSUME NEW S, NEW seq \in Seq(S)
  PROVE  DOMAIN seq \in SUBSET Nat /\ IsFiniteSet(DOMAIN seq)
<1>1. Len(seq) \in Nat /\ DOMAIN seq = 1 .. Len(seq)
  BY LenProperties
<1>2. 1 \in Int /\ Len(seq) \in Int
  BY <1>1
<1>3. IsFiniteSet(1 .. Len(seq))
  BY <1>2, FS_Interval
<1> QED
  BY <1>1, <1>3

(* There is a function that satisfies the recursion of a fold, when a step  *)
(* stays in a set.                                                          *)
FoldStep(it, x, step, s) ==
  it[s] = IF s = {} THEN x ELSE step[<<it[s \ {Largest(s)}], Largest(s)>>]

Iterates(it, x, step, D, T) ==
  it \in [SUBSET D -> T] /\ \A s \in SUBSET D : FoldStep(it, x, step, s)

(* There is such a function, by induction over finite sets of numbers.      *)
LEMMA FoldExists ==
  ASSUME NEW D \in SUBSET Nat, IsFiniteSet(D), NEW T, NEW x \in T, NEW step \in [T \X D -> T]
  PROVE  \E it : Iterates(it, x, step, D, T)
<1> DEFINE Small(n) == {s \in SUBSET D : Cardinality(s) <= n}
           Stepped(n) == \E it \in [Small(n) -> T] : \A s \in Small(n) : FoldStep(it, x, step, s)
           P == {n \in Nat : Stepped(n)}
<1>1. \A s \in SUBSET D : IsFiniteSet(s) /\ Cardinality(s) \in Nat /\ s \in SUBSET Nat
  BY FS_Subset, FS_CardinalityType
<1>2. 0 \in P
  <2> DEFINE none == [t \in Small(0) |-> x]
  <2>1. \A s \in Small(0) : s = {}
    BY <1>1, NoneLeft
  <2>2. none \in [Small(0) -> T] /\ \A s \in Small(0) : FoldStep(none, x, step, s)
    BY <2>1 DEF FoldStep
  <2> QED
    BY <2>2
<1>3. ASSUME NEW n \in P PROVE n + 1 \in P
  <2>1. PICK it \in [Small(n) -> T] : \A s \in Small(n) : FoldStep(it, x, step, s)
    OBVIOUS
  <2> DEFINE new == [s \in Small(n + 1) |->
               IF s = {} THEN x ELSE step[<<it[s \ {Largest(s)}], Largest(s)>>]]
  <2>2. ASSUME NEW s \in Small(n + 1), s # {}
        PROVE  s \ {Largest(s)} \in Small(n) /\ Largest(s) \in D
    <3>1. Largest(s) \in s
      BY <1>1, <2>2, LargestIs
    <3>2. Cardinality(s \ {Largest(s)}) = Cardinality(s) - 1
      BY <1>1, <3>1, FS_RemoveElement
    <3>3. Cardinality(s \ {Largest(s)}) <= n /\ s \ {Largest(s)} \in SUBSET D /\ Largest(s) \in D
      <4>1. s \in SUBSET D /\ Cardinality(s) <= n + 1 /\ Cardinality(s) \in Nat /\ n \in Nat
        BY <1>1
      <4> DEFINE l == Largest(s)
                 r == s \ {l}
      <4> HIDE DEF P, Small
      <4>2. l \in D /\ r \in SUBSET D /\ Cardinality(r) = Cardinality(s) - 1
        BY <3>1, <3>2, <4>1
      <4> HIDE DEF l, r
      <4>3. Cardinality(r) <= n
        BY <4>1, <4>2
      <4> QED
        BY <4>2, <4>3 DEF l, r
    <3> QED
      BY <3>3
  <2>3. \A s \in Small(n) : s \in Small(n + 1) /\ new[s] = it[s]
    <3> TAKE s \in Small(n)
    <3>1. s \in SUBSET D /\ Cardinality(s) <= n /\ Cardinality(s) \in Nat /\ n \in Nat
      BY <1>1
    <3>2. s \in Small(n + 1)
      BY <3>1
    <3>3. FoldStep(it, x, step, s)
      BY <2>1
    <3> QED
      BY <3>2, <3>3 DEF FoldStep
  <2>4. ASSUME NEW s \in Small(n + 1) PROVE FoldStep(new, x, step, s)
    <3>1. CASE s = {}
      BY <3>1 DEF FoldStep
    <3>2. CASE s # {}
      <4>1. new[s \ {Largest(s)}] = it[s \ {Largest(s)}]
        BY <2>2, <2>3, <3>2
      <4>2. new[s] = step[<<it[s \ {Largest(s)}], Largest(s)>>]
        BY <3>2
      <4> HIDE DEF new
      <4> QED
        BY <3>2, <4>1, <4>2 DEF FoldStep
    <3> QED
      BY <3>1, <3>2
  <2>5. new \in [Small(n + 1) -> T]
    <3>1. ASSUME NEW s \in Small(n + 1)
          PROVE  (IF s = {} THEN x ELSE step[<<it[s \ {Largest(s)}], Largest(s)>>]) \in T
      <4> DEFINE l == Largest(s)
      <4>1. s # {} => s \ {l} \in Small(n) /\ l \in D
        BY <2>2
      <4> HIDE DEF l, Small
      <4>2. s # {} => it[s \ {l}] \in T
        BY <2>1, <4>1
      <4>3. s # {} => <<it[s \ {l}], l>> \in T \X D
        BY <4>1, <4>2
      <4>4. s # {} => step[<<it[s \ {l}], l>>] \in T
        BY <4>3
      <4> QED
        BY <4>4 DEF l
    <3> QED
      BY <3>1
  <2>6. Stepped(n + 1)
    <3> HIDE DEF new
    <3> QED
      BY <2>4, <2>5
  <2> HIDE DEF Stepped
  <2> QED
    BY <2>6
<1>4. Cardinality(D) \in P
  <2> HIDE DEF P
  <2>1. P \in SUBSET Nat
    BY DEF P
  <2> QED
    BY <1>1, <1>2, <1>3, <2>1, NumberInduction
<1>5. PICK it \in [Small(Cardinality(D)) -> T] :
        \A s \in Small(Cardinality(D)) : FoldStep(it, x, step, s)
  BY <1>4
<1>6. Small(Cardinality(D)) = SUBSET D
  BY FS_Subset
<1> QED
  BY <1>5, <1>6 DEF Iterates

-----------------------------------------------------------------------------
All(add, D) == UNION {add[i] : i \in D}

(* A fold adds what its steps add.                                          *)
LEMMA FoldAdds ==
  ASSUME NEW S, NEW seq \in Seq(S), NEW it, NEW add,
         \A s \in SUBSET DOMAIN seq :
           s # {} => Adds(it[s \ {Largest(s)}], it[s], add[seq[Largest(s)]])
  PROVE  Adds(it[{}], it[DOMAIN seq], All(add, ToSet(seq)))
<1> DEFINE D == DOMAIN seq
           Of(s) == All(add, {seq[i] : i \in s})
           Q == {n \in Nat : \A s \in SUBSET D : Cardinality(s) <= n => Adds(it[{}], it[s], Of(s))}
<1>0. D \in SUBSET Nat /\ IsFiniteSet(D)
  BY IndicesAre
<1>1. \A s \in SUBSET D : IsFiniteSet(s) /\ Cardinality(s) \in Nat /\ s \in SUBSET Nat
  BY <1>0, FS_Subset, FS_CardinalityType
<1>1a. Adds(it[{}], it[{}], Of({}))
  BY AddsNone DEF All
<1>2. 0 \in Q
  <2>1. \A s \in SUBSET D : Cardinality(s) <= 0 => s = {}
    BY <1>1, NoneLeft
  <2> HIDE DEF Of
  <2> QED
    BY <1>1a, <2>1
<1>3. ASSUME NEW n \in Q PROVE n + 1 \in Q
  <2>1. ASSUME NEW s \in SUBSET D, Cardinality(s) <= n + 1, s # {}
        PROVE  Adds(it[{}], it[s], Of(s))
    <3> DEFINE l == Largest(s)
               r == s \ {l}
    <3>1. l \in s
      BY <1>1, <2>1, LargestIs
    <3>2. Cardinality(r) = Cardinality(s) - 1
      BY <1>1, <3>1, FS_RemoveElement
    <3>3. r \in SUBSET D /\ Cardinality(r) <= n
      <4>1. Cardinality(s) \in Nat /\ Cardinality(s) <= n + 1 /\ n \in Nat
        BY <1>1, <2>1
      <4> HIDE DEF Q, Of, l
      <4>2. r \in SUBSET D
        OBVIOUS
      <4> HIDE DEF r
      <4> QED
        BY <3>2, <4>1, <4>2
    <3>4. Adds(it[{}], it[r], Of(r))
      <4> HIDE DEF r, Of
      <4> QED
        BY <1>3, <3>3
    <3>5. Adds(it[r], it[s], add[seq[l]])
      BY <2>1
    <3>6. Of(s) = Of(r) \cup add[seq[l]]
      <4> HIDE DEF l
      <4> QED
        BY <3>1 DEF All
    <3> HIDE DEF l, r, Of
    <3> QED
      BY <3>4, <3>5, <3>6, AddsThen
  <2>2. \A s \in SUBSET D : Cardinality(s) <= n + 1 => Adds(it[{}], it[s], Of(s))
    <3> TAKE s \in SUBSET D
    <3>1. CASE s = {}
      BY <1>1a, <3>1
    <3>2. CASE s # {}
      BY <2>1, <3>2
    <3> QED
      BY <3>1, <3>2
  <2> HIDE DEF Of
  <2> QED
    BY <2>2
<1>4. Cardinality(D) \in Q
  <2> HIDE DEF Q
  <2>1. Q \in SUBSET Nat
    BY DEF Q
  <2> QED
    BY <1>1, <1>2, <1>3, <2>1, NumberInduction
<1>5. Adds(it[{}], it[D], Of(D))
  <2> HIDE DEF Of
  <2> QED
    BY <1>4
<1>6. Of(D) = All(add, ToSet(seq))
  BY DEF ToSet
<1> QED
  BY <1>5, <1>6

(* What x may have become, with samples of add.                             *)
Ways(x, add, seq) ==
  {y \in [descriptions : Fitting, samples : Seq(ToSet(x.samples) \cup All(add, ToSet(seq))), lost : {{}}] :
     Sampled(ToSet(y.samples))}

(* What may be reached from an exporter contains it.                        *)
LEMMA WaysAre ==
  ASSUME NEW x, Fit(x), NEW add, NEW seq
  PROVE  /\ x \in Ways(x, add, seq)
         /\ \A z, y : \A i \in DOMAIN seq : z \in Ways(x, add, seq) /\ Adds(z, y, add[seq[i]]) => y \in Ways(x, add, seq)
<1> DEFINE U == ToSet(x.samples) \cup All(add, ToSet(seq))
<1>0. \A i \in DOMAIN seq : add[seq[i]] \subseteq U
  BY DEF All, ToSet
<1>1. ASSUME NEW y, Fit(y), ToSet(y.samples) \subseteq U
      PROVE  y \in Ways(x, add, seq)
  <2> HIDE DEF U
  <2>1. /\ y = [descriptions |-> y.descriptions, samples |-> y.samples, lost |-> {}]
        /\ y.descriptions \in Fitting /\ y.samples \in Seq(ToSet(y.samples))
        /\ Sampled(ToSet(y.samples))
    BY <1>1 DEF Fit
  <2>2. y.samples \in Seq(U)
    BY <1>1, <2>1, SeqGrows
  <2> QED
    BY <2>1, <2>2 DEF Ways, U
<1>2. ASSUME NEW z \in Ways(x, add, seq) PROVE Fit(z) /\ ToSet(z.samples) \subseteq U
  <2> HIDE DEF U
  <2>1. /\ z = [descriptions |-> z.descriptions, samples |-> z.samples, lost |-> {}]
        /\ z.descriptions \in Fitting /\ z.samples \in Seq(U) /\ Sampled(ToSet(z.samples))
    BY DEF Ways, U
  <2>2. ToSet(z.samples) \subseteq U /\ z.samples \in Seq(ToSet(z.samples))
    <3>1. Len(z.samples) \in Nat /\ DOMAIN z.samples = 1 .. Len(z.samples)
          /\ z.samples = [i \in 1 .. Len(z.samples) |-> z.samples[i]]
      BY <2>1, LenProperties
    <3>2. \A i \in 1 .. Len(z.samples) : z.samples[i] \in ToSet(z.samples)
      BY <3>1 DEF ToSet
    <3> QED
      BY <2>1, <3>1, <3>2, ToSetType
  <2> QED
    BY <2>1, <2>2 DEF Fit
<1>3. x \in Ways(x, add, seq)
  BY <1>1
<1>4. ASSUME NEW z, NEW y, NEW i \in DOMAIN seq, z \in Ways(x, add, seq), Adds(z, y, add[seq[i]])
      PROVE  y \in Ways(x, add, seq)
  <2>1. Fit(z) /\ ToSet(z.samples) \subseteq U
    BY <1>2, <1>4
  <2>2. Fit(y) /\ ToSet(y.samples) = ToSet(z.samples) \cup add[seq[i]]
    BY <1>4, <2>1 DEF Adds
  <2> QED
    BY <1>0, <1>1, <2>1, <2>2
<1> QED
  BY <1>3, <1>4

(* A fold, if there is a function that satisfies its recursion.             *)
Steps(step, W, seq, add) ==
  /\ step = [p \in W \X DOMAIN seq |-> step[p]]
  /\ \A z \in W : \A i \in DOMAIN seq : Adds(z, step[<<z, i>>], add[seq[i]])

Folds(it, x, step, W, D) ==
  /\ it = [s \in SUBSET D |-> it[s]] /\ it[{}] = x
  /\ \A s \in SUBSET D : s # {} =>
       /\ it[s \ {Largest(s)}] \in W /\ Largest(s) \in D
       /\ it[s] = step[<<it[s \ {Largest(s)}], Largest(s)>>]

(* So there is a function a fold of adding steps satisfies.                 *)
LEMMA FoldWays ==
  ASSUME NEW x, Fit(x), NEW S, NEW seq \in Seq(S), NEW add, NEW step,
         Steps(step, Ways(x, add, seq), seq, add)
  PROVE  \E it : Folds(it, x, step, Ways(x, add, seq), DOMAIN seq)
<1> DEFINE D == DOMAIN seq
           T == Ways(x, add, seq)
<1>1. D \in SUBSET Nat /\ IsFiniteSet(D)
  BY IndicesAre
<1> HIDE DEF D, T
<1>2. x \in T /\ \A z, y : \A i \in D : z \in T /\ Adds(z, y, add[seq[i]]) => y \in T
  BY WaysAre DEF T, D
<1>3. step \in [T \X D -> T]
  <2>1. step = [p \in T \X D |-> step[p]] /\ \A z \in T : \A i \in D : Adds(z, step[<<z, i>>], add[seq[i]])
    BY DEF T, D, Steps
  <2>2. \A z \in T : \A i \in D : step[<<z, i>>] \in T
    BY <1>2, <2>1
  <2>3. \A p \in T \X D : step[p] \in T
    <3> TAKE p \in T \X D
    <3>1. p = <<p[1], p[2]>> /\ p[1] \in T /\ p[2] \in D
      OBVIOUS
    <3> QED
      BY <2>2, <3>1
  <2> QED
    BY <2>1, <2>3
<1>4. x \in T
  BY <1>2
<1>5. PICK it : Iterates(it, x, step, D, T)
  BY <1>1, <1>3, <1>4, FoldExists
<1>6. it = [s \in SUBSET D |-> it[s]] /\ it[{}] = x
  BY <1>5 DEF FoldStep, Iterates
<1>7. ASSUME NEW s \in SUBSET D, s # {}
      PROVE  /\ it[s \ {Largest(s)}] \in T /\ Largest(s) \in D
             /\ it[s] = step[<<it[s \ {Largest(s)}], Largest(s)>>]
  <2>1. s \in SUBSET Nat /\ IsFiniteSet(s)
    BY <1>1, FS_Subset
  <2>2. Largest(s) \in s
    BY <1>7, <2>1, LargestIs
  <2>3. s \ {Largest(s)} \in SUBSET D
    OBVIOUS
  <2> QED
    BY <1>5, <1>7, <2>2, <2>3 DEF FoldStep, Iterates
<1> QED
  BY <1>6, <1>7 DEF D, T, Folds

-----------------------------------------------------------------------------
(* The folds of a scrape: over the spikes ...                                *)
SpikeRec(it, x, seq) ==
  it = [s \in SUBSET DOMAIN seq |->
          IF s = {} THEN x ELSE Spike(it[s \ {Largest(s)}], seq[Largest(s)])]

(* The folds of the code, one by one: what the steps add, they add.         *)
LEMMA SpikesAdd ==
  ASSUME NEW x, NEW S, NEW seq \in Seq(S), NEW add,
         \A z : \A e \in ToSet(seq) : Adds(z, Spike(z, e), add[e])
  PROVE  Adds(x, FoldLeft(Spike, x, seq), All(add, ToSet(seq)))
<1> DEFINE D == DOMAIN seq
           W == Ways(x, add, seq)
           step == [p \in W \X D |-> Spike(p[1], seq[p[2]])]
           y == FoldLeft(Spike, x, seq)
<1> SUFFICES ASSUME Fit(x) PROVE Adds(x, y, All(add, ToSet(seq)))
  BY DEF Adds
<1>1. y = (CHOOSE it : SpikeRec(it, x, seq))[D]
  BY DEF FoldLeft, MapThenFoldSet, SpikeRec, Largest, Max
<1>2. \A z : \A i \in D : Adds(z, Spike(z, seq[i]), add[seq[i]])
  BY DEF ToSet
<1>3. \A z \in W : \A i \in D : step[<<z, i>>] = Spike(z, seq[i])
  OBVIOUS
<1>4. step = [p \in W \X D |-> step[p]]
  OBVIOUS
<1> HIDE DEF step, W, y
<1>5. Steps(step, W, seq, add)
  <2>1. \A z \in W : \A i \in D : Adds(z, step[<<z, i>>], add[seq[i]])
    BY <1>2, <1>3
  <2> QED
    BY <1>4, <2>1 DEF Steps
<1>6. PICK it : Folds(it, x, step, W, D)
  BY <1>5, FoldWays DEF W
<1>7. SpikeRec(it, x, seq)
  BY <1>3, <1>6 DEF SpikeRec, Folds
<1> DEFINE f == CHOOSE i : SpikeRec(i, x, seq)
<1>8. SpikeRec(f, x, seq)
  BY <1>7, Zenon
<1> HIDE DEF f
<1>9. /\ f[{}] = x
      /\ \A s \in SUBSET D : s # {} =>
           Largest(s) \in D /\ f[s] = Spike(f[s \ {Largest(s)}], seq[Largest(s)])
  BY <1>6, <1>8 DEF SpikeRec, Folds
<1>10. \A s \in SUBSET D : s # {} => Adds(f[s \ {Largest(s)}], f[s], add[seq[Largest(s)]])
  BY <1>2, <1>9
<1>11. Adds(f[{}], f[D], All(add, ToSet(seq)))
  BY <1>10, FoldAdds, Zenon
<1> QED
  BY <1>1, <1>9, <1>11 DEF f

(* ... the histograms, ...                                                  *)
HistogramRec(it, x, seq) ==
  it = [s \in SUBSET DOMAIN seq |->
          IF s = {} THEN x ELSE Histogram(it[s \ {Largest(s)}], seq[Largest(s)])]

(* Histograms, ...                                                          *)
LEMMA HistogramsAdd ==
  ASSUME NEW x, NEW S, NEW seq \in Seq(S), NEW add,
         \A z : \A e \in ToSet(seq) : Adds(z, Histogram(z, e), add[e])
  PROVE  Adds(x, FoldLeft(Histogram, x, seq), All(add, ToSet(seq)))
<1> DEFINE D == DOMAIN seq
           W == Ways(x, add, seq)
           step == [p \in W \X D |-> Histogram(p[1], seq[p[2]])]
           y == FoldLeft(Histogram, x, seq)
<1> SUFFICES ASSUME Fit(x) PROVE Adds(x, y, All(add, ToSet(seq)))
  BY DEF Adds
<1>1. y = (CHOOSE it : HistogramRec(it, x, seq))[D]
  BY DEF FoldLeft, MapThenFoldSet, HistogramRec, Largest, Max
<1>2. \A z : \A i \in D : Adds(z, Histogram(z, seq[i]), add[seq[i]])
  BY DEF ToSet
<1>3. \A z \in W : \A i \in D : step[<<z, i>>] = Histogram(z, seq[i])
  OBVIOUS
<1>4. step = [p \in W \X D |-> step[p]]
  OBVIOUS
<1> HIDE DEF step, W, y
<1>5. Steps(step, W, seq, add)
  <2>1. \A z \in W : \A i \in D : Adds(z, step[<<z, i>>], add[seq[i]])
    BY <1>2, <1>3
  <2> QED
    BY <1>4, <2>1 DEF Steps
<1>6. PICK it : Folds(it, x, step, W, D)
  BY <1>5, FoldWays DEF W
<1>7. HistogramRec(it, x, seq)
  BY <1>3, <1>6 DEF HistogramRec, Folds
<1> DEFINE f == CHOOSE i : HistogramRec(i, x, seq)
<1>8. HistogramRec(f, x, seq)
  BY <1>7, Zenon
<1> HIDE DEF f
<1>9. /\ f[{}] = x
      /\ \A s \in SUBSET D : s # {} =>
           Largest(s) \in D /\ f[s] = Histogram(f[s \ {Largest(s)}], seq[Largest(s)])
  BY <1>6, <1>8 DEF HistogramRec, Folds
<1>10. \A s \in SUBSET D : s # {} => Adds(f[s \ {Largest(s)}], f[s], add[seq[Largest(s)]])
  BY <1>2, <1>9
<1>11. Adds(f[{}], f[D], All(add, ToSet(seq)))
  BY <1>10, FoldAdds, Zenon
<1> QED
  BY <1>1, <1>9, <1>11 DEF f

(* ... the kinds of command log, ...                                        *)
LogLengthRec(it, x, seq) ==
  it = [s \in SUBSET DOMAIN seq |->
          IF s = {} THEN x ELSE CommandLogLength(it[s \ {Largest(s)}], seq[Largest(s)])]

(* ... lengths of the command logs, ...                                     *)
LEMMA LogLengthsAdd ==
  ASSUME NEW x, NEW S, NEW seq \in Seq(S), NEW add,
         \A z : \A e \in ToSet(seq) : Adds(z, CommandLogLength(z, e), add[e])
  PROVE  Adds(x, FoldLeft(CommandLogLength, x, seq), All(add, ToSet(seq)))
<1> DEFINE D == DOMAIN seq
           W == Ways(x, add, seq)
           step == [p \in W \X D |-> CommandLogLength(p[1], seq[p[2]])]
           y == FoldLeft(CommandLogLength, x, seq)
<1> SUFFICES ASSUME Fit(x) PROVE Adds(x, y, All(add, ToSet(seq)))
  BY DEF Adds
<1>1. y = (CHOOSE it : LogLengthRec(it, x, seq))[D]
  BY DEF FoldLeft, MapThenFoldSet, LogLengthRec, Largest, Max
<1>2. \A z : \A i \in D : Adds(z, CommandLogLength(z, seq[i]), add[seq[i]])
  BY DEF ToSet
<1>3. \A z \in W : \A i \in D : step[<<z, i>>] = CommandLogLength(z, seq[i])
  OBVIOUS
<1>4. step = [p \in W \X D |-> step[p]]
  OBVIOUS
<1> HIDE DEF step, W, y
<1>5. Steps(step, W, seq, add)
  <2>1. \A z \in W : \A i \in D : Adds(z, step[<<z, i>>], add[seq[i]])
    BY <1>2, <1>3
  <2> QED
    BY <1>4, <2>1 DEF Steps
<1>6. PICK it : Folds(it, x, step, W, D)
  BY <1>5, FoldWays DEF W
<1>7. LogLengthRec(it, x, seq)
  BY <1>3, <1>6 DEF LogLengthRec, Folds
<1> DEFINE f == CHOOSE i : LogLengthRec(i, x, seq)
<1>8. LogLengthRec(f, x, seq)
  BY <1>7, Zenon
<1> HIDE DEF f
<1>9. /\ f[{}] = x
      /\ \A s \in SUBSET D : s # {} =>
           Largest(s) \in D /\ f[s] = CommandLogLength(f[s \ {Largest(s)}], seq[Largest(s)])
  BY <1>6, <1>8 DEF LogLengthRec, Folds
<1>10. \A s \in SUBSET D : s # {} => Adds(f[s \ {Largest(s)}], f[s], add[seq[Largest(s)]])
  BY <1>2, <1>9
<1>11. Adds(f[{}], f[D], All(add, ToSet(seq)))
  BY <1>10, FoldAdds, Zenon
<1> QED
  BY <1>1, <1>9, <1>11 DEF f

(* ... the settings of the command log, ...                                 *)
LogSettingRec(it, x, seq) ==
  it = [s \in SUBSET DOMAIN seq |->
          IF s = {} THEN x ELSE CommandLogSetting(it[s \ {Largest(s)}], seq[Largest(s)])]

(* ... their settings, ...                                                  *)
LEMMA LogSettingsAdd ==
  ASSUME NEW x, NEW S, NEW seq \in Seq(S), NEW add,
         \A z : \A e \in ToSet(seq) : Adds(z, CommandLogSetting(z, e), add[e])
  PROVE  Adds(x, FoldLeft(CommandLogSetting, x, seq), All(add, ToSet(seq)))
<1> DEFINE D == DOMAIN seq
           W == Ways(x, add, seq)
           step == [p \in W \X D |-> CommandLogSetting(p[1], seq[p[2]])]
           y == FoldLeft(CommandLogSetting, x, seq)
<1> SUFFICES ASSUME Fit(x) PROVE Adds(x, y, All(add, ToSet(seq)))
  BY DEF Adds
<1>1. y = (CHOOSE it : LogSettingRec(it, x, seq))[D]
  BY DEF FoldLeft, MapThenFoldSet, LogSettingRec, Largest, Max
<1>2. \A z : \A i \in D : Adds(z, CommandLogSetting(z, seq[i]), add[seq[i]])
  BY DEF ToSet
<1>3. \A z \in W : \A i \in D : step[<<z, i>>] = CommandLogSetting(z, seq[i])
  OBVIOUS
<1>4. step = [p \in W \X D |-> step[p]]
  OBVIOUS
<1> HIDE DEF step, W, y
<1>5. Steps(step, W, seq, add)
  <2>1. \A z \in W : \A i \in D : Adds(z, step[<<z, i>>], add[seq[i]])
    BY <1>2, <1>3
  <2> QED
    BY <1>4, <2>1 DEF Steps
<1>6. PICK it : Folds(it, x, step, W, D)
  BY <1>5, FoldWays DEF W
<1>7. LogSettingRec(it, x, seq)
  BY <1>3, <1>6 DEF LogSettingRec, Folds
<1> DEFINE f == CHOOSE i : LogSettingRec(i, x, seq)
<1>8. LogSettingRec(f, x, seq)
  BY <1>7, Zenon
<1> HIDE DEF f
<1>9. /\ f[{}] = x
      /\ \A s \in SUBSET D : s # {} =>
           Largest(s) \in D /\ f[s] = CommandLogSetting(f[s \ {Largest(s)}], seq[Largest(s)])
  BY <1>6, <1>8 DEF LogSettingRec, Folds
<1>10. \A s \in SUBSET D : s # {} => Adds(f[s \ {Largest(s)}], f[s], add[seq[Largest(s)]])
  BY <1>2, <1>9
<1>11. Adds(f[{}], f[D], All(add, ToSet(seq)))
  BY <1>10, FoldAdds, Zenon
<1> QED
  BY <1>1, <1>9, <1>11 DEF f

(* ... the lines of INFO MODULES, ...                                       *)
ModuleLineRec(it, x, seq) ==
  it = [s \in SUBSET DOMAIN seq |->
          IF s = {} THEN x ELSE ModuleLine(it[s \ {Largest(s)}], seq[Largest(s)])]

(* ... modules, ...                                                         *)
LEMMA ModuleLinesAdd ==
  ASSUME NEW x, NEW S, NEW seq \in Seq(S), NEW add,
         \A z : \A e \in ToSet(seq) : Adds(z, ModuleLine(z, e), add[e])
  PROVE  Adds(x, FoldLeft(ModuleLine, x, seq), All(add, ToSet(seq)))
<1> DEFINE D == DOMAIN seq
           W == Ways(x, add, seq)
           step == [p \in W \X D |-> ModuleLine(p[1], seq[p[2]])]
           y == FoldLeft(ModuleLine, x, seq)
<1> SUFFICES ASSUME Fit(x) PROVE Adds(x, y, All(add, ToSet(seq)))
  BY DEF Adds
<1>1. y = (CHOOSE it : ModuleLineRec(it, x, seq))[D]
  BY DEF FoldLeft, MapThenFoldSet, ModuleLineRec, Largest, Max
<1>2. \A z : \A i \in D : Adds(z, ModuleLine(z, seq[i]), add[seq[i]])
  BY DEF ToSet
<1>3. \A z \in W : \A i \in D : step[<<z, i>>] = ModuleLine(z, seq[i])
  OBVIOUS
<1>4. step = [p \in W \X D |-> step[p]]
  OBVIOUS
<1> HIDE DEF step, W, y
<1>5. Steps(step, W, seq, add)
  <2>1. \A z \in W : \A i \in D : Adds(z, step[<<z, i>>], add[seq[i]])
    BY <1>2, <1>3
  <2> QED
    BY <1>4, <2>1 DEF Steps
<1>6. PICK it : Folds(it, x, step, W, D)
  BY <1>5, FoldWays DEF W
<1>7. ModuleLineRec(it, x, seq)
  BY <1>3, <1>6 DEF ModuleLineRec, Folds
<1> DEFINE f == CHOOSE i : ModuleLineRec(i, x, seq)
<1>8. ModuleLineRec(f, x, seq)
  BY <1>7, Zenon
<1> HIDE DEF f
<1>9. /\ f[{}] = x
      /\ \A s \in SUBSET D : s # {} =>
           Largest(s) \in D /\ f[s] = ModuleLine(f[s \ {Largest(s)}], seq[Largest(s)])
  BY <1>6, <1>8 DEF ModuleLineRec, Folds
<1>10. \A s \in SUBSET D : s # {} => Adds(f[s \ {Largest(s)}], f[s], add[seq[Largest(s)]])
  BY <1>2, <1>9
<1>11. Adds(f[{}], f[D], All(add, ToSet(seq)))
  BY <1>10, FoldAdds, Zenon
<1> QED
  BY <1>1, <1>9, <1>11 DEF f

(* ... the search indexes, ...                                              *)
IndexRec(it, x, seq) ==
  it = [s \in SUBSET DOMAIN seq |->
          IF s = {} THEN x ELSE SearchIndex(it[s \ {Largest(s)}], seq[Largest(s)])]

(* ... search indexes, ...                                                  *)
LEMMA IndexesAdd ==
  ASSUME NEW x, NEW S, NEW seq \in Seq(S), NEW add,
         \A z : \A e \in ToSet(seq) : Adds(z, SearchIndex(z, e), add[e])
  PROVE  Adds(x, FoldLeft(SearchIndex, x, seq), All(add, ToSet(seq)))
<1> DEFINE D == DOMAIN seq
           W == Ways(x, add, seq)
           step == [p \in W \X D |-> SearchIndex(p[1], seq[p[2]])]
           y == FoldLeft(SearchIndex, x, seq)
<1> SUFFICES ASSUME Fit(x) PROVE Adds(x, y, All(add, ToSet(seq)))
  BY DEF Adds
<1>1. y = (CHOOSE it : IndexRec(it, x, seq))[D]
  BY DEF FoldLeft, MapThenFoldSet, IndexRec, Largest, Max
<1>2. \A z : \A i \in D : Adds(z, SearchIndex(z, seq[i]), add[seq[i]])
  BY DEF ToSet
<1>3. \A z \in W : \A i \in D : step[<<z, i>>] = SearchIndex(z, seq[i])
  OBVIOUS
<1>4. step = [p \in W \X D |-> step[p]]
  OBVIOUS
<1> HIDE DEF step, W, y
<1>5. Steps(step, W, seq, add)
  <2>1. \A z \in W : \A i \in D : Adds(z, step[<<z, i>>], add[seq[i]])
    BY <1>2, <1>3
  <2> QED
    BY <1>4, <2>1 DEF Steps
<1>6. PICK it : Folds(it, x, step, W, D)
  BY <1>5, FoldWays DEF W
<1>7. IndexRec(it, x, seq)
  BY <1>3, <1>6 DEF IndexRec, Folds
<1> DEFINE f == CHOOSE i : IndexRec(i, x, seq)
<1>8. IndexRec(f, x, seq)
  BY <1>7, Zenon
<1> HIDE DEF f
<1>9. /\ f[{}] = x
      /\ \A s \in SUBSET D : s # {} =>
           Largest(s) \in D /\ f[s] = SearchIndex(f[s \ {Largest(s)}], seq[Largest(s)])
  BY <1>6, <1>8 DEF IndexRec, Folds
<1>10. \A s \in SUBSET D : s # {} => Adds(f[s \ {Largest(s)}], f[s], add[seq[Largest(s)]])
  BY <1>2, <1>9
<1>11. Adds(f[{}], f[D], All(add, ToSet(seq)))
  BY <1>10, FoldAdds, Zenon
<1> QED
  BY <1>1, <1>9, <1>11 DEF f

(* ... the Sentinels of a master, ...                                       *)
PeerRec(it, m, x, seq) ==
  it = [s \in SUBSET DOMAIN seq |->
          IF s = {} THEN x ELSE PeerInfo(it[s \ {Largest(s)}], m, seq[Largest(s)])]

PeersTold(x, m, seq) == FoldLeft(LAMBDA z, p : PeerInfo(z, m, p), x, seq)

(* ... Sentinels, ...                                                       *)
LEMMA PeersAdd ==
  ASSUME NEW m, NEW x, NEW S, NEW seq \in Seq(S), NEW add,
         \A z : \A e \in ToSet(seq) : Adds(z, PeerInfo(z, m, e), add[e])
  PROVE  Adds(x, PeersTold(x, m, seq), All(add, ToSet(seq)))
<1> DEFINE D == DOMAIN seq
           W == Ways(x, add, seq)
           step == [p \in W \X D |-> PeerInfo(p[1], m, seq[p[2]])]
           y == PeersTold(x, m, seq)
<1> SUFFICES ASSUME Fit(x) PROVE Adds(x, y, All(add, ToSet(seq)))
  BY DEF Adds
<1>1. y = (CHOOSE it : PeerRec(it, m, x, seq))[D]
  BY DEF PeersTold, FoldLeft, MapThenFoldSet, PeerRec, Largest, Max
<1>2. \A z : \A i \in D : Adds(z, PeerInfo(z, m, seq[i]), add[seq[i]])
  BY DEF ToSet
<1>3. \A z \in W : \A i \in D : step[<<z, i>>] = PeerInfo(z, m, seq[i])
  OBVIOUS
<1>4. step = [p \in W \X D |-> step[p]]
  OBVIOUS
<1> HIDE DEF step, W, y
<1>5. Steps(step, W, seq, add)
  <2>1. \A z \in W : \A i \in D : Adds(z, step[<<z, i>>], add[seq[i]])
    BY <1>2, <1>3
  <2> QED
    BY <1>4, <2>1 DEF Steps
<1>6. PICK it : Folds(it, x, step, W, D)
  BY <1>5, FoldWays DEF W
<1>7. PeerRec(it, m, x, seq)
  BY <1>3, <1>6 DEF PeerRec, Folds
<1> DEFINE f == CHOOSE i : PeerRec(i, m, x, seq)
<1>8. PeerRec(f, m, x, seq)
  BY <1>7, Zenon
<1> HIDE DEF f
<1>9. /\ f[{}] = x
      /\ \A s \in SUBSET D : s # {} =>
           Largest(s) \in D /\ f[s] = PeerInfo(f[s \ {Largest(s)}], m, seq[Largest(s)])
  BY <1>6, <1>8 DEF PeerRec, Folds
<1>10. \A s \in SUBSET D : s # {} => Adds(f[s \ {Largest(s)}], f[s], add[seq[Largest(s)]])
  BY <1>2, <1>9
<1>11. Adds(f[{}], f[D], All(add, ToSet(seq)))
  BY <1>10, FoldAdds, Zenon
<1> QED
  BY <1>1, <1>9, <1>11 DEF f

(* ... the settings of a Sentinel, ...                                      *)
SentinelSettingRec(it, x, seq) ==
  it = [s \in SUBSET DOMAIN seq |->
          IF s = {} THEN x ELSE SentinelSetting(it[s \ {Largest(s)}], seq[Largest(s)])]

(* ... their configuration, ...                                             *)
LEMMA SentinelSettingsAdd ==
  ASSUME NEW x, NEW S, NEW seq \in Seq(S), NEW add,
         \A z : \A e \in ToSet(seq) : Adds(z, SentinelSetting(z, e), add[e])
  PROVE  Adds(x, FoldLeft(SentinelSetting, x, seq), All(add, ToSet(seq)))
<1> DEFINE D == DOMAIN seq
           W == Ways(x, add, seq)
           step == [p \in W \X D |-> SentinelSetting(p[1], seq[p[2]])]
           y == FoldLeft(SentinelSetting, x, seq)
<1> SUFFICES ASSUME Fit(x) PROVE Adds(x, y, All(add, ToSet(seq)))
  BY DEF Adds
<1>1. y = (CHOOSE it : SentinelSettingRec(it, x, seq))[D]
  BY DEF FoldLeft, MapThenFoldSet, SentinelSettingRec, Largest, Max
<1>2. \A z : \A i \in D : Adds(z, SentinelSetting(z, seq[i]), add[seq[i]])
  BY DEF ToSet
<1>3. \A z \in W : \A i \in D : step[<<z, i>>] = SentinelSetting(z, seq[i])
  OBVIOUS
<1>4. step = [p \in W \X D |-> step[p]]
  OBVIOUS
<1> HIDE DEF step, W, y
<1>5. Steps(step, W, seq, add)
  <2>1. \A z \in W : \A i \in D : Adds(z, step[<<z, i>>], add[seq[i]])
    BY <1>2, <1>3
  <2> QED
    BY <1>4, <2>1 DEF Steps
<1>6. PICK it : Folds(it, x, step, W, D)
  BY <1>5, FoldWays DEF W
<1>7. SentinelSettingRec(it, x, seq)
  BY <1>3, <1>6 DEF SentinelSettingRec, Folds
<1> DEFINE f == CHOOSE i : SentinelSettingRec(i, x, seq)
<1>8. SentinelSettingRec(f, x, seq)
  BY <1>7, Zenon
<1> HIDE DEF f
<1>9. /\ f[{}] = x
      /\ \A s \in SUBSET D : s # {} =>
           Largest(s) \in D /\ f[s] = SentinelSetting(f[s \ {Largest(s)}], seq[Largest(s)])
  BY <1>6, <1>8 DEF SentinelSettingRec, Folds
<1>10. \A s \in SUBSET D : s # {} => Adds(f[s \ {Largest(s)}], f[s], add[seq[Largest(s)]])
  BY <1>2, <1>9
<1>11. Adds(f[{}], f[D], All(add, ToSet(seq)))
  BY <1>10, FoldAdds, Zenon
<1> QED
  BY <1>1, <1>9, <1>11 DEF f

(* ... the commands with latencies, ...                                     *)
SummaryRec(it, x, seq) ==
  it = [s \in SUBSET DOMAIN seq |->
          IF s = {} THEN x ELSE Summarised(it[s \ {Largest(s)}], seq[Largest(s)])]

(* ... summaries of commands, ...                                           *)
LEMMA SummariesAdd ==
  ASSUME NEW x, NEW S, NEW seq \in Seq(S), NEW add,
         \A z : \A e \in ToSet(seq) : Adds(z, Summarised(z, e), add[e])
  PROVE  Adds(x, FoldLeft(Summarised, x, seq), All(add, ToSet(seq)))
<1> DEFINE D == DOMAIN seq
           W == Ways(x, add, seq)
           step == [p \in W \X D |-> Summarised(p[1], seq[p[2]])]
           y == FoldLeft(Summarised, x, seq)
<1> SUFFICES ASSUME Fit(x) PROVE Adds(x, y, All(add, ToSet(seq)))
  BY DEF Adds
<1>1. y = (CHOOSE it : SummaryRec(it, x, seq))[D]
  BY DEF FoldLeft, MapThenFoldSet, SummaryRec, Largest, Max
<1>2. \A z : \A i \in D : Adds(z, Summarised(z, seq[i]), add[seq[i]])
  BY DEF ToSet
<1>3. \A z \in W : \A i \in D : step[<<z, i>>] = Summarised(z, seq[i])
  OBVIOUS
<1>4. step = [p \in W \X D |-> step[p]]
  OBVIOUS
<1> HIDE DEF step, W, y
<1>5. Steps(step, W, seq, add)
  <2>1. \A z \in W : \A i \in D : Adds(z, step[<<z, i>>], add[seq[i]])
    BY <1>2, <1>3
  <2> QED
    BY <1>4, <2>1 DEF Steps
<1>6. PICK it : Folds(it, x, step, W, D)
  BY <1>5, FoldWays DEF W
<1>7. SummaryRec(it, x, seq)
  BY <1>3, <1>6 DEF SummaryRec, Folds
<1> DEFINE f == CHOOSE i : SummaryRec(i, x, seq)
<1>8. SummaryRec(f, x, seq)
  BY <1>7, Zenon
<1> HIDE DEF f
<1>9. /\ f[{}] = x
      /\ \A s \in SUBSET D : s # {} =>
           Largest(s) \in D /\ f[s] = Summarised(f[s \ {Largest(s)}], seq[Largest(s)])
  BY <1>6, <1>8 DEF SummaryRec, Folds
<1>10. \A s \in SUBSET D : s # {} => Adds(f[s \ {Largest(s)}], f[s], add[seq[Largest(s)]])
  BY <1>2, <1>9
<1>11. Adds(f[{}], f[D], All(add, ToSet(seq)))
  BY <1>10, FoldAdds, Zenon
<1> QED
  BY <1>1, <1>9, <1>11 DEF f

(* ... the databases ...                                                    *)
PaddedRec(it, x, seq) ==
  it = [s \in SUBSET DOMAIN seq |->
          IF s = {} THEN x ELSE Padded(it[s \ {Largest(s)}], seq[Largest(s)])]

(* ... databases without keys ...                                           *)
LEMMA PaddedAdd ==
  ASSUME NEW x, NEW S, NEW seq \in Seq(S), NEW add,
         \A z : \A e \in ToSet(seq) : Adds(z, Padded(z, e), add[e])
  PROVE  Adds(x, FoldLeft(Padded, x, seq), All(add, ToSet(seq)))
<1> DEFINE D == DOMAIN seq
           W == Ways(x, add, seq)
           step == [p \in W \X D |-> Padded(p[1], seq[p[2]])]
           y == FoldLeft(Padded, x, seq)
<1> SUFFICES ASSUME Fit(x) PROVE Adds(x, y, All(add, ToSet(seq)))
  BY DEF Adds
<1>1. y = (CHOOSE it : PaddedRec(it, x, seq))[D]
  BY DEF FoldLeft, MapThenFoldSet, PaddedRec, Largest, Max
<1>2. \A z : \A i \in D : Adds(z, Padded(z, seq[i]), add[seq[i]])
  BY DEF ToSet
<1>3. \A z \in W : \A i \in D : step[<<z, i>>] = Padded(z, seq[i])
  OBVIOUS
<1>4. step = [p \in W \X D |-> step[p]]
  OBVIOUS
<1> HIDE DEF step, W, y
<1>5. Steps(step, W, seq, add)
  <2>1. \A z \in W : \A i \in D : Adds(z, step[<<z, i>>], add[seq[i]])
    BY <1>2, <1>3
  <2> QED
    BY <1>4, <2>1 DEF Steps
<1>6. PICK it : Folds(it, x, step, W, D)
  BY <1>5, FoldWays DEF W
<1>7. PaddedRec(it, x, seq)
  BY <1>3, <1>6 DEF PaddedRec, Folds
<1> DEFINE f == CHOOSE i : PaddedRec(i, x, seq)
<1>8. PaddedRec(f, x, seq)
  BY <1>7, Zenon
<1> HIDE DEF f
<1>9. /\ f[{}] = x
      /\ \A s \in SUBSET D : s # {} =>
           Largest(s) \in D /\ f[s] = Padded(f[s \ {Largest(s)}], seq[Largest(s)])
  BY <1>6, <1>8 DEF PaddedRec, Folds
<1>10. \A s \in SUBSET D : s # {} => Adds(f[s \ {Largest(s)}], f[s], add[seq[Largest(s)]])
  BY <1>2, <1>9
<1>11. Adds(f[{}], f[D], All(add, ToSet(seq)))
  BY <1>10, FoldAdds, Zenon
<1> QED
  BY <1>1, <1>9, <1>11 DEF f

(* ... and the fields of CLUSTER INFO.                                      *)
FieldRec(it, x, seq) ==
  it = [s \in SUBSET DOMAIN seq |->
          IF s = {} THEN x ELSE FromField(it[s \ {Largest(s)}], seq[Largest(s)])]

(* ... and fields.                                                          *)
LEMMA FieldsAdd ==
  ASSUME NEW x, NEW S, NEW seq \in Seq(S), NEW add,
         \A z : \A e \in ToSet(seq) : Adds(z, FromField(z, e), add[e])
  PROVE  Adds(x, FoldLeft(FromField, x, seq), All(add, ToSet(seq)))
<1> DEFINE D == DOMAIN seq
           W == Ways(x, add, seq)
           step == [p \in W \X D |-> FromField(p[1], seq[p[2]])]
           y == FoldLeft(FromField, x, seq)
<1> SUFFICES ASSUME Fit(x) PROVE Adds(x, y, All(add, ToSet(seq)))
  BY DEF Adds
<1>1. y = (CHOOSE it : FieldRec(it, x, seq))[D]
  BY DEF FoldLeft, MapThenFoldSet, FieldRec, Largest, Max
<1>2. \A z : \A i \in D : Adds(z, FromField(z, seq[i]), add[seq[i]])
  BY DEF ToSet
<1>3. \A z \in W : \A i \in D : step[<<z, i>>] = FromField(z, seq[i])
  OBVIOUS
<1>4. step = [p \in W \X D |-> step[p]]
  OBVIOUS
<1> HIDE DEF step, W, y
<1>5. Steps(step, W, seq, add)
  <2>1. \A z \in W : \A i \in D : Adds(z, step[<<z, i>>], add[seq[i]])
    BY <1>2, <1>3
  <2> QED
    BY <1>4, <2>1 DEF Steps
<1>6. PICK it : Folds(it, x, step, W, D)
  BY <1>5, FoldWays DEF W
<1>7. FieldRec(it, x, seq)
  BY <1>3, <1>6 DEF FieldRec, Folds
<1> DEFINE f == CHOOSE i : FieldRec(i, x, seq)
<1>8. FieldRec(f, x, seq)
  BY <1>7, Zenon
<1> HIDE DEF f
<1>9. /\ f[{}] = x
      /\ \A s \in SUBSET D : s # {} =>
           Largest(s) \in D /\ f[s] = FromField(f[s \ {Largest(s)}], seq[Largest(s)])
  BY <1>6, <1>8 DEF FieldRec, Folds
<1>10. \A s \in SUBSET D : s # {} => Adds(f[s \ {Largest(s)}], f[s], add[seq[Largest(s)]])
  BY <1>2, <1>9
<1>11. Adds(f[{}], f[D], All(add, ToSet(seq)))
  BY <1>10, FoldAdds, Zenon
<1> QED
  BY <1>1, <1>9, <1>11 DEF f

(* The metrics of the table, by group.                                      *)
LEMMA GroupTells ==
  ASSUME RoleTold, NEW x, NEW v
  PROVE  /\ \A m \in ByMaster : \A a, b :
              Adds(x, Gauge(x, m, v, <<a, b>>), {Told(server, m, <<"master_host", "master_port">>, <<a, b>>, v)})
         /\ \A m \in BySlave : \A a, b, c :
              Adds(x, Gauge(x, m, v, <<a, b, c>>), {Told(server, m, <<"slave_ip", "slave_port", "slave_state">>, <<a, b, c>>, v)})
         /\ \A m \in ByDb : \A a :
              Adds(x, Gauge(x, m, v, <<a>>), {Told(server, m, <<"db">>, <<a>>, v)})
         /\ \A m \in ByCommand : \A a :
              Adds(x, Gauge(x, m, v, <<a>>), {Told(server, m, <<"cmd">>, <<a>>, v)})
         /\ \A m \in ByEngine : \A a, b, c :
              Adds(x, Gauge(x, m, v, <<a, b, c>>), {Told(server, m, <<"engine", "module", "abi_version">>, <<a, b, c>>, v)})
         /\ \A m \in BySetting : \A a, b :
              Adds(x, Gauge(x, m, v, <<a, b>>), {Told(server, m, <<"key", "value">>, <<a, b>>, v)})
         /\ \A m \in ByNumber : \A a :
              Adds(x, Gauge(x, m, v, <<a>>), {Told(server, m, <<"key">>, <<a>>, v)})
         /\ \A m \in ByLimit : \A a, b :
              Adds(x, Gauge(x, m, v, <<a, b>>), {Told(server, m, <<"class", "limit">>, <<a, b>>, v)})
         /\ \A m \in ByWatched : \A a, b :
              Adds(x, Gauge(x, m, v, <<a, b>>), {Told(server, m, <<"master_name", "master_address">>, <<a, b>>, v)})
         /\ \A m \in BySpike : \A a :
              Adds(x, Gauge(x, m, v, <<a>>), {Told(server, m, <<"event_name">>, <<a>>, v)})
         /\ \A m \in Unlabelled : Adds(x, Gauge(x, m, v, <<>>), {Plain(server, m, v)})
<1>1. \A m \in ByMaster : \A a, b :
        Adds(x, Gauge(x, m, v, <<a, b>>), {Told(server, m, <<"master_host", "master_port">>, <<a, b>>, v)})
  BY InTable, LabelsAre, TellsTwo
<1>2. \A m \in BySlave : \A a, b, c :
        Adds(x, Gauge(x, m, v, <<a, b, c>>), {Told(server, m, <<"slave_ip", "slave_port", "slave_state">>, <<a, b, c>>, v)})
  BY InTable, LabelsAre, TellsThree
<1>3. \A m \in ByDb : \A a :
        Adds(x, Gauge(x, m, v, <<a>>), {Told(server, m, <<"db">>, <<a>>, v)})
  BY InTable, LabelsAre, TellsOne
<1>4. \A m \in ByCommand : \A a :
        Adds(x, Gauge(x, m, v, <<a>>), {Told(server, m, <<"cmd">>, <<a>>, v)})
  BY InTable, LabelsAre, TellsOne
<1>5. \A m \in ByEngine : \A a, b, c :
        Adds(x, Gauge(x, m, v, <<a, b, c>>), {Told(server, m, <<"engine", "module", "abi_version">>, <<a, b, c>>, v)})
  BY InTable, LabelsAre, TellsThree
<1>6. \A m \in BySetting : \A a, b :
        Adds(x, Gauge(x, m, v, <<a, b>>), {Told(server, m, <<"key", "value">>, <<a, b>>, v)})
  BY InTable, LabelsAre, TellsTwo
<1>7. \A m \in ByNumber : \A a :
        Adds(x, Gauge(x, m, v, <<a>>), {Told(server, m, <<"key">>, <<a>>, v)})
  BY InTable, LabelsAre, TellsOne
<1>8. \A m \in ByLimit : \A a, b :
        Adds(x, Gauge(x, m, v, <<a, b>>), {Told(server, m, <<"class", "limit">>, <<a, b>>, v)})
  BY InTable, LabelsAre, TellsTwo
<1>9. \A m \in ByWatched : \A a, b :
        Adds(x, Gauge(x, m, v, <<a, b>>), {Told(server, m, <<"master_name", "master_address">>, <<a, b>>, v)})
  BY InTable, LabelsAre, TellsTwo
<1>10. \A m \in BySpike : \A a :
        Adds(x, Gauge(x, m, v, <<a>>), {Told(server, m, <<"event_name">>, <<a>>, v)})
  BY InTable, LabelsAre, TellsOne
<1>11. \A m \in Unlabelled : Adds(x, Gauge(x, m, v, <<>>), {Plain(server, m, v)})
  BY LabelsAre, TellsPlain
<1> QED
  BY <1>1, <1>2, <1>3, <1>4, <1>5, <1>6, <1>7, <1>8, <1>9, <1>10, <1>11

(* The other ones.                                                          *)
LEMMA SingleTells ==
  ASSUME RoleTold, NEW x, NEW v
  PROVE  /\ \A a, b, c : Adds(x, Gauge(x, "slave_info", v, <<a, b, c>>),
                         {Told(server, "slave_info", <<"master_host", "master_port", "read_only">>, <<a, b, c>>, v)})
         /\ \A a : Adds(x, Gauge(x, "errors_total", v, <<a>>),
                         {Told(server, "errors_total", <<"err">>, <<a>>, v)})
         /\ \A a, b : Adds(x, Gauge(x, "tls_certificate_info", v, <<a, b>>),
                         {Told(server, "tls_certificate_info", <<"certificate", "serial">>, <<a, b>>, v)})
         /\ \A a, b, c : Adds(x, Gauge(x, "sentinel_master_status", v, <<a, b, c>>),
                         {Told(server, "sentinel_master_status", <<"master_name", "master_address", "master_status">>, <<a, b, c>>, v)})
         /\ \A a, b : Adds(x, Gauge(x, "sentinel_master_ckquorum_status", v, <<a, b>>),
                         {Told(server, "sentinel_master_ckquorum_status", <<"master_name", "message">>, <<a, b>>, v)})
         /\ \A a, b, c : Adds(x, Gauge(x, "sentinel_peer_info", v, <<a, b, c>>),
                         {Told(server, "sentinel_peer_info", <<"master_name", "master_address", "name">>, <<a, b, c>>, v)})
         /\ \A a, b : Adds(x, Gauge(x, "module_info", v, <<a, b>>),
                         {Told(server, "module_info", <<"name", "ver">>, <<a, b>>, v)})
         /\ \A a : Adds(x, Gauge(x, "search_index_num_docs", v, <<a>>),
                         {Told(server, "search_index_num_docs", <<"index_name">>, <<a>>, v)})
<1>1. \A a, b, c : Adds(x, Gauge(x, "slave_info", v, <<a, b, c>>),
                   {Told(server, "slave_info", <<"master_host", "master_port", "read_only">>, <<a, b, c>>, v)})
  BY InTable, LabelsAre, TellsThree DEF Single
<1>2. \A a : Adds(x, Gauge(x, "errors_total", v, <<a>>),
                   {Told(server, "errors_total", <<"err">>, <<a>>, v)})
  BY InTable, LabelsAre, TellsOne DEF Single
<1>3. \A a, b : Adds(x, Gauge(x, "tls_certificate_info", v, <<a, b>>),
                   {Told(server, "tls_certificate_info", <<"certificate", "serial">>, <<a, b>>, v)})
  BY InTable, LabelsAre, TellsTwo DEF Single
<1>4. \A a, b, c : Adds(x, Gauge(x, "sentinel_master_status", v, <<a, b, c>>),
                   {Told(server, "sentinel_master_status", <<"master_name", "master_address", "master_status">>, <<a, b, c>>, v)})
  BY InTable, LabelsAre, TellsThree DEF Single
<1>5. \A a, b : Adds(x, Gauge(x, "sentinel_master_ckquorum_status", v, <<a, b>>),
                   {Told(server, "sentinel_master_ckquorum_status", <<"master_name", "message">>, <<a, b>>, v)})
  BY InTable, LabelsAre, TellsTwo DEF Single
<1>6. \A a, b, c : Adds(x, Gauge(x, "sentinel_peer_info", v, <<a, b, c>>),
                   {Told(server, "sentinel_peer_info", <<"master_name", "master_address", "name">>, <<a, b, c>>, v)})
  BY InTable, LabelsAre, TellsThree DEF Single
<1>7. \A a, b : Adds(x, Gauge(x, "module_info", v, <<a, b>>),
                   {Told(server, "module_info", <<"name", "ver">>, <<a, b>>, v)})
  BY InTable, LabelsAre, TellsTwo DEF Single
<1>8. \A a : Adds(x, Gauge(x, "search_index_num_docs", v, <<a>>),
                   {Told(server, "search_index_num_docs", <<"index_name">>, <<a>>, v)})
  BY InTable, LabelsAre, TellsOne DEF Single
<1> QED
  BY <1>1, <1>2, <1>3, <1>4, <1>5, <1>6, <1>7, <1>8

(* Those that have no labels, created when they are told.                   *)
LEMMA PlainTells ==
  ASSUME RoleTold, NEW x, NEW v,
         NEW m \in Created \ {"connected_client_created_at_timestamp",
                              "connected_client_shard_channel_subscriptions_count"}
  PROVE  Adds(x, Gauge(x, m, v, <<>>), {Plain(server, m, v)})
BY CreatedAre, TellsPlain

(* What the parts of a scrape add: a setting, ...                           *)
ShownPart(s, key, text) ==
  IF ~ Shown(key) THEN {}
  ELSE {Told(s, "config_key_value", <<"key", "value">>, <<key, text>>, 1)}
       \cup IF IsNumber(text) THEN {Told(s, "config_value", <<"key">>, <<key>>, Number[text])} ELSE {}

LimitPart(s) ==
  {Told(s, "config_client_output_buffer_limit_bytes", <<"class", "limit">>,
        <<Limits.class, "hard">>, Limits.hard),
   Told(s, "config_client_output_buffer_limit_bytes", <<"class", "limit">>,
        <<Limits.class, "soft">>, Limits.soft),
   Told(s, "config_client_output_buffer_limit_overcome_seconds", <<"class", "limit">>,
        <<Limits.class, "soft">>, Limits.seconds)}

ConfigPart(s, key, text) ==
  ShownPart(s, key, text)
  \cup (IF key = "maxmemory" /\ IsNumber(text)
        THEN {Plain(s, "config_maxmemory", Number[text])} ELSE {})
  \cup (IF key = "client-output-buffer-limit" THEN LimitPart(s) ELSE {})

(* extractConfigMetrics: the limits of the output buffers, ...              *)
LEMMA LimitsAdd ==
  ASSUME RoleTold, NEW x
  PROVE  Adds(x, Gauge(Gauge(Gauge(x,
              "config_client_output_buffer_limit_bytes", Limits.hard, <<Limits.class, "hard">>),
              "config_client_output_buffer_limit_bytes", Limits.soft, <<Limits.class, "soft">>),
              "config_client_output_buffer_limit_overcome_seconds", Limits.seconds,
              <<Limits.class, "soft">>), LimitPart(server))
<1> DEFINE bytes == "config_client_output_buffer_limit_bytes"
           seconds == "config_client_output_buffer_limit_overcome_seconds"
           y == Gauge(x, bytes, Limits.hard, <<Limits.class, "hard">>)
           z == Gauge(y, bytes, Limits.soft, <<Limits.class, "soft">>)
           w == Gauge(z, seconds, Limits.seconds, <<Limits.class, "soft">>)
           L(m, limit, v) == Told(server, m, <<"class", "limit">>, <<Limits.class, limit>>, v)
<1>0. bytes \in ByLimit /\ seconds \in ByLimit
  BY DEF ByLimit
<1>1. Adds(x, y, {L(bytes, "hard", Limits.hard)})
  BY <1>0, GroupTells
<1>2. Adds(y, z, {L(bytes, "soft", Limits.soft)})
  BY <1>0, GroupTells
<1>3. Adds(z, w, {L(seconds, "soft", Limits.seconds)})
  BY <1>0, GroupTells
<1>4. LimitPart(server) = {L(bytes, "hard", Limits.hard)} \cup {L(bytes, "soft", Limits.soft)}
                          \cup {L(seconds, "soft", Limits.seconds)}
  BY DEF LimitPart
<1> HIDE DEF y, z, w, L
<1>5. Adds(x, z, {L(bytes, "hard", Limits.hard)} \cup {L(bytes, "soft", Limits.soft)})
  BY <1>1, <1>2, AddsThen
<1>6. Adds(x, w, LimitPart(server))
  BY <1>3, <1>4, <1>5, AddsThen
<1> QED
  BY <1>6 DEF y, z, w

(* ... and any entry.                                                       *)
LEMMA ConfigAdds ==
  ASSUME RoleTold, NEW x, NEW key, NEW text
  PROVE  Adds(x, ConfigSamples(x, key, text), ConfigPart(server, key, text))
<1> DEFINE told == Gauge(x, "config_key_value", 1, <<key, text>>)
           value == Gauge(told, "config_value", Number[text], <<key>>)
           y == CASE Shown(key) /\ IsNumber(text) -> value
                  [] Shown(key) /\ ~ IsNumber(text) -> told
                  [] OTHER -> x
           max == Gauge(y, "config_maxmemory", Number[text], <<>>)
           limits == Gauge(Gauge(Gauge(y,
              "config_client_output_buffer_limit_bytes", Limits.hard, <<Limits.class, "hard">>),
              "config_client_output_buffer_limit_bytes", Limits.soft, <<Limits.class, "soft">>),
              "config_client_output_buffer_limit_overcome_seconds", Limits.seconds,
              <<Limits.class, "soft">>)
           z == ConfigSamples(x, key, text)
           A == {Told(server, "config_key_value", <<"key", "value">>, <<key, text>>, 1)}
           B == {Told(server, "config_value", <<"key">>, <<key>>, Number[text])}
<1>1. Adds(x, told, A) /\ Adds(told, value, B)
  BY GroupTells DEF BySetting, ByNumber
<1>2. Adds(y, max, {Plain(server, "config_maxmemory", Number[text])})
  BY PlainTells DEF Created
<1>3. Adds(y, limits, LimitPart(server))
  BY LimitsAdd
<1>4. z = CASE key = "maxmemory" /\ IsNumber(text) -> max
            [] key = "client-output-buffer-limit" -> limits
            [] OTHER -> y
  BY DEF ConfigSamples
<1>5. ShownPart(server, key, text) =
        IF ~ Shown(key) THEN {} ELSE IF IsNumber(text) THEN A \cup B ELSE A
  BY DEF ShownPart
<1>6. Adds(x, y, ShownPart(server, key, text))
  <2> HIDE DEF told, value, A, B
  <2>1. CASE ~ Shown(key)
    BY <1>5, <2>1, AddsNone
  <2>2. CASE Shown(key) /\ IsNumber(text)
    BY <1>1, <1>5, <2>2, AddsThen
  <2>3. CASE Shown(key) /\ ~ IsNumber(text)
    BY <1>1, <1>5, <2>3
  <2> QED
    BY <2>1, <2>2, <2>3
<1> HIDE DEF y, z, max, limits
<1>7. Adds(y, z, (IF key = "maxmemory" /\ IsNumber(text)
                  THEN {Plain(server, "config_maxmemory", Number[text])} ELSE {})
                 \cup (IF key = "client-output-buffer-limit" THEN LimitPart(server) ELSE {}))
  <2>1. CASE key = "maxmemory" /\ IsNumber(text)
    BY <1>2, <1>4, <2>1
  <2>2. CASE key = "client-output-buffer-limit"
    BY <1>3, <1>4, <2>2
  <2>3. CASE ~ (key = "maxmemory" /\ IsNumber(text)) /\ key # "client-output-buffer-limit"
    BY <1>4, <2>3, AddsNone
  <2> QED
    BY <2>1, <2>2, <2>3
<1>8. Adds(x, z, ConfigPart(server, key, text))
  BY <1>6, <1>7, AddsThen DEF ConfigPart
<1> QED
  BY <1>8 DEF z

(* ... the size of the RDB file, ...                                        *)
RdbPart(s) == IF s.config = Denied \/ ~ InclRdbFileSizeMetric \/ s.rdb = Denied THEN {}
              ELSE {Plain(s, "rdb_current_size_bytes", s.rdb)}

(* extractRdbFileSizeMetric.                                                *)
LEMMA RdbAdds == ASSUME RoleTold, NEW x PROVE Adds(x, RdbFileSize(x), RdbPart(server))
<1>1. Adds(x, Gauge(x, "rdb_current_size_bytes", server.rdb, <<>>),
           {Plain(server, "rdb_current_size_bytes", server.rdb)})
  BY GroupTells DEF Unlabelled
<1> QED
  BY <1>1, AddsNone DEF RdbPart, RdbFileSize

(* ... a field that is a metric, ...                                        *)
FieldKeys == {"cluster_enabled", "cluster_state", "cluster_known_nodes", "connected_slaves",
              "uptime_in_seconds", "tls_server_cert_expires_in_seconds", "engines_count",
              "search_total_indexing_time"}

MetricOf(key) == CASE key = "engines_count" -> "scripting_engines_count"
                   [] key = "search_total_indexing_time" -> "search_indexing_time_ms_total"
                   [] OTHER -> key

FieldPart(s, f) ==
  CASE f.key \in FieldKeys /\ f.value = "ok" -> {Plain(s, MetricOf(f.key), 1)}
    [] f.key \in FieldKeys /\ f.value = "fail" -> {Plain(s, MetricOf(f.key), 0)}
    [] f.key \in FieldKeys /\ IsNumber(f.value) -> {Plain(s, MetricOf(f.key), Number[f.value])}
    [] OTHER -> {}

(* parseAndRegisterConstMetric, for any field.                              *)
LEMMA FieldAdds ==
  ASSUME RoleTold, NEW x, NEW f, f.key \notin {"db", "cmdstat"}
  PROVE  Adds(x, FromField(x, f), FieldPart(server, f))
<1>1. includeMetric(f.key) <=> f.key \in FieldKeys
  BY DEF includeMetric, FieldKeys, metricMap
<1>2. CASE f.key \notin FieldKeys
  BY <1>1, <1>2, AddsNone DEF FromField, FieldPart
<1>3. CASE f.key \in FieldKeys
  <2> DEFINE m == MetricOf(f.key)
  <2>1. (IF f.key \in DOMAIN metricMap THEN metricMap[f.key] ELSE f.key) = m
    BY <1>3 DEF FieldKeys, metricMap, MetricOf
  <2>2. m \in Created \ {"connected_client_created_at_timestamp",
                         "connected_client_shard_channel_subscriptions_count"}
    BY <1>3 DEF FieldKeys, MetricOf, Created
  <2> HIDE DEF m
  <2>3. \A v : Adds(x, Gauge(x, m, v, <<>>), {Plain(server, m, v)})
    BY <2>2, PlainTells
  <2>4. FromField(x, f) = CASE f.value = "ok" -> Gauge(x, m, 1, <<>>)
                            [] f.value = "fail" -> Gauge(x, m, 0, <<>>)
                            [] IsNumber(f.value) -> Gauge(x, m, Number[f.value], <<>>)
                            [] OTHER -> x
    BY <1>1, <1>3, <2>1 DEF FromField, parseAndRegister
  <2>5. FieldPart(server, f) = CASE f.value = "ok" -> {Plain(server, m, 1)}
                                 [] f.value = "fail" -> {Plain(server, m, 0)}
                                 [] IsNumber(f.value) -> {Plain(server, m, Number[f.value])}
                                 [] OTHER -> {}
    BY <1>3 DEF FieldPart, m
  <2>6. CASE f.value = "ok"
    BY <2>3, <2>4, <2>5, <2>6
  <2>7. CASE f.value = "fail"
    BY <2>3, <2>4, <2>5, <2>7
  <2>8. CASE f.value \notin {"ok", "fail"} /\ IsNumber(f.value)
    BY <2>3, <2>4, <2>5, <2>8
  <2>9. CASE f.value \notin {"ok", "fail"} /\ ~ IsNumber(f.value)
    BY <2>4, <2>5, <2>9, AddsNone
  <2> QED
    BY <2>6, <2>7, <2>8, <2>9
<1> QED
  BY <1>2, <1>3

(* ... CLUSTER INFO, ...                                                    *)
ClusterPart(s) ==
  IF s.cluster \in {"off", Denied} THEN {}
  ELSE {Plain(s, "cluster_state", 1), Plain(s, "cluster_known_nodes", 3)}

(* The fields of CLUSTER INFO.                                              *)
LEMMA ClusterAdds ==
  ASSUME RoleTold, NEW x
  PROVE  Adds(x, FoldLeft(FromField, x, ClusterReply),
              {Plain(server, "cluster_state", 1), Plain(server, "cluster_known_nodes", 3)})
<1> DEFINE add == [f \in ToSet(ClusterReply) |-> FieldPart(server, f)]
<1>1. ClusterReply = <<Field("cluster_state", "ok"), Field("cluster_known_nodes", "3")>>
  BY DEF ClusterReply
<1>2. ToSet(ClusterReply) = {Field("cluster_state", "ok"), Field("cluster_known_nodes", "3")}
  BY <1>1 DEF ToSet
<1>3. ClusterReply \in Seq(ToSet(ClusterReply))
  BY <1>1, <1>2
<1>4. \A f \in ToSet(ClusterReply) : f.key \notin {"db", "cmdstat"}
  BY <1>2 DEF Field, Numbered
<1>5. \A z : \A f \in ToSet(ClusterReply) : Adds(z, FromField(z, f), add[f])
  BY <1>4, FieldAdds
<1> HIDE DEF add
<1>6. Adds(x, FoldLeft(FromField, x, ClusterReply), All(add, ToSet(ClusterReply)))
  BY <1>3, <1>5, FieldsAdd
<1>7. All(add, ToSet(ClusterReply)) =
        {Plain(server, "cluster_state", 1), Plain(server, "cluster_known_nodes", 3)}
  <2>1. FieldPart(server, Field("cluster_state", "ok")) = {Plain(server, "cluster_state", 1)}
    BY DEF FieldPart, Field, Numbered, FieldKeys, MetricOf, IsNumber, Number
  <2>2. FieldPart(server, Field("cluster_known_nodes", "3")) = {Plain(server, "cluster_known_nodes", 3)}
    BY DEF FieldPart, Field, Numbered, FieldKeys, MetricOf, IsNumber, Number
  <2> QED
    BY <1>2, <2>1, <2>2 DEF All, add
<1> QED
  BY <1>6, <1>7

(* ... and a line of INFO, in the section it belongs to.                     *)
ServerKeys == {"uptime_in_seconds", "server_mode", "valkey_version", "availability_zone",
               "redis_mode"}
MasterKeys == {"master_link_status", "master_last_io_seconds_ago", "slave_repl_offset"}
ReplicationKeys == MasterKeys \cup {"role", "master_host", "master_port", "slave_read_only",
                                    "connected_slaves", "slave"}
SectionOf(key) ==
  CASE key \in ServerKeys -> "Server"
    [] key \in ReplicationKeys -> "Replication"
    [] key = "cmdstat" -> "Commandstats"
    [] key = "errorstat" -> "Errorstats"
    [] key = "latency_percentiles_usec" -> "Latencystats"
    [] key = "cluster_enabled" -> "Cluster"
    [] key \in {"cluster_state", "cluster_known_nodes"} -> "Cluster Info"
    [] key \in {"tls_server_cert_serial", "tls_server_cert_expires_in_seconds"} -> "TLS"
    [] key \in {"engines_count", "engine_"} -> "Scripting Engines"
    [] key = "db" -> "Keyspace"
    [] key \in {"sentinel_masters", "master"} -> "Sentinel"
    [] OTHER -> "other"

MasterPart(s, key, v, host, port) ==
  IF key = "master_link_status"
  THEN {Told(s, "master_link_up", <<"master_host", "master_port">>, <<host, port>>,
             IF v = "up" THEN 1 ELSE 0)}
  ELSE {Told(s, key, <<"master_host", "master_port">>, <<host, port>>,
             IF IsNumber(v) THEN Number[v] ELSE 0)}

SlavePart(s, v) ==
  LET labels == <<"slave_ip", "slave_port", "slave_state">>
      slave == <<v.ip, v.port, v.state>>
  IN IF ~ v.whole THEN {}
     ELSE {Told(s, "connected_slave_offset_bytes", labels, slave, v.offset)}
          \cup IF v.lag > -1 THEN {Told(s, "connected_slave_lag_seconds", labels, slave, v.lag)}
               ELSE {}

EnginePart(s, v) ==
  LET labels == <<"engine", "module", "abi_version">>
      engine == <<v.name, v.module, v.abi>>
  IN {Told(s, "scripting_engine_info", labels, engine, 1),
      Told(s, "scripting_engine_memory_used_bytes", labels, engine, v.memory)}

CommandPart(s, c) ==
  LET Of(metric, v) == Told(s, metric, <<"cmd">>, <<c.cmd>>, v)
  IN IF c.fields < 3 THEN {}
     ELSE {Of("commands_total", c.calls)}
          \cup (IF c.fields < 5 THEN {} ELSE {Of("commands_rejected_calls_total", c.rejected)})
          \cup (IF c.slow = -1 THEN {} ELSE {Of("commands_slowlog_total", c.slow)})

DbPart(s, n, d) ==
  LET Of(metric, v) == Told(s, metric, <<"db">>, <<DbName(n)>>, v)
  IN IF ~ d.whole THEN {}
     ELSE {Of("db_keys", d.keys), Of("db_keys_expiring", d.expires)}
          \cup IF d.ttl = -1 THEN {} ELSE {Of("db_avg_ttl_seconds", d.ttl \div 1000)}

WatchedPart(s, m) ==
  {Told(s, "sentinel_master_status", <<"master_name", "master_address", "master_status">>,
        <<m.name, m.address, m.status>>, IF m.status = "ok" THEN 1 ELSE 0),
   Told(s, "sentinel_master_slaves", <<"master_name", "master_address">>,
        <<m.name, m.address>>, m.slaves)}

(* All but those of the links to the masters.                               *)
LinePart(s, line) ==
  CASE line.key \in MasterKeys -> {}
    [] line.key = "slave" -> SlavePart(s, line.value)
    [] line.key = "uptime_in_seconds" ->
         FieldPart(s, line)
         \cup IF IsNumber(line.value)
              THEN {Plain(s, "start_time_seconds", Now - Number[line.value])} ELSE {}
    [] line.key = "tls_server_cert_serial" ->
         {Told(s, "tls_certificate_info", <<"certificate", "serial">>, <<"server", line.value>>, 1)}
    [] line.key = "engine_" -> EnginePart(s, line.value)
    [] line.key = "cmdstat" -> CommandPart(s, line.value)
    [] line.key = "errorstat" ->
         {Told(s, "errors_total", <<"err">>, <<line.value.err>>, line.value.count)}
    [] line.key = "db" -> DbPart(s, line.n, line.value)
    [] line.key = "sentinel_masters" ->
         {Plain(s, "sentinel_masters", IF IsNumber(line.value) THEN Number[line.value] ELSE 0)}
    [] line.key = "master" -> WatchedPart(s, line.value)
    [] line.key \in {"cluster_state", "cluster_known_nodes"} -> {}
    [] OTHER -> FieldPart(s, line)

FullPart(s, line, host, port) ==
  LinePart(s, line)
  \cup IF line.key \in MasterKeys THEN MasterPart(s, line.key, line.value, host, port) ELSE {}

-----------------------------------------------------------------------------
(* The labels depend on a flag that stays as it is.                         *)
LEMMA FittingStays == ASSUME appendRole' = appendRole PROVE Fitting' = Fitting
<1>1. \A m, list, role : WithRole(m, list, role)' = WithRole(m, list, role)
  BY DEF WithRole
<1>2. Static' = Static /\ (DOMAIN Described)' = DOMAIN Described
  BY DEF Static, Described
<1>3. \A m : DescriptionOf(m)' = DescriptionOf(m)
  BY <1>1 DEF DescriptionOf
<1>4. AnyLabels' = AnyLabels
  <2>1. \A e : e \in AnyLabels' <=> e \in AnyLabels
    BY <1>1, <1>2, <1>3 DEF AnyLabels
  <2> QED
    BY <2>1
<1>5. \A d : d \in Fitting' <=> d \in Fitting
  BY <1>2, <1>3, <1>4 DEF Fitting
<1> QED
  BY <1>5

(* What the exporter becomes.                                               *)
Grows(A) == Fit(exporter)' /\ ToSet(samples)' = ToSet(samples) \cup A

(* A step of the model that adds grows the samples by what it adds.         *)
LEMMA BecomesGrows ==
  ASSUME Fit(exporter), NEW x, NEW A, Adds(exporter, x, A), Becomes(x)
  PROVE  Grows(A)
<1>1. Fit(x) /\ ToSet(x.samples) = ToSet(exporter.samples) \cup A
  BY DEF Adds
<1>2. x = [descriptions |-> x.descriptions, samples |-> x.samples, lost |-> x.lost]
  BY <1>1 DEF Fit
<1>3. exporter' = x /\ samples' = x.samples /\ Fitting' = Fitting
  BY <1>2, FittingStays DEF Becomes, exporter
<1>4. ToSet(samples)' = ToSet(x.samples) /\ exporter.samples = samples
  BY <1>3 DEF exporter
<1>5. Fit(exporter)'
  BY <1>1, <1>3 DEF Fit
<1> QED
  BY <1>1, <1>4, <1>5 DEF Grows

(* A step that adds nothing, ...                                            *)
LEMMA SameGrows ==
  ASSUME Fit(exporter), Becomes(exporter)
  PROVE  Grows({})
BY BecomesGrows, AddsNone

(* ... or leaves the exporter alone.                                        *)
LEMMA UnchangedGrows ==
  ASSUME Fit(exporter), UNCHANGED exporterVars
  PROVE  Grows({})
<1>1. Becomes(exporter)
  BY DEF Becomes, exporter, exporterVars
<1> QED
  BY <1>1, SameGrows

(* A command's metrics are described each time they are told.               *)
LEMMA CommandTells ==
  ASSUME RoleTold, NEW m \in ByCommand, NEW v, NEW c, NEW x
  PROVE  Adds(x, registerConstMetric(createMetricDescription(x, m, <<"cmd">>), m, v, <<c>>),
              {Told(server, m, <<"cmd">>, <<c>>, v)})
<1> DEFINE y == registerConstMetric(createMetricDescription(x, m, <<"cmd">>), m, v, <<c>>)
           labels == <<"cmd">>
           values == <<c>>
<1>1. m \in Static /\ m \notin Dynamic /\ LabelsIn(m) = labels
  BY InTable, NamesAre, LabelsAre
<1>2. IsList(labels) /\ IsList(values) /\ Len(values) = Len(labels) /\ values # <<>> /\ labels # <<>>
  BY TuplesListed, TuplesAre
<1>3. WithRole(m, labels, "instance_role") \in AnyLabels
  BY <1>1 DEF AnyLabels, DescriptionOf
<1>4. y = Gauge(createMetricDescription(x, m, labels), m, v, values)
  BY DEF Gauge
<1> HIDE DEF y, labels, values
<1>5. Adds(x, y, {Told(server, m, labels, values, v)})
  BY <1>1, <1>2, <1>3, <1>4, CreatedTells
<1> QED
  BY <1>5 DEF y, labels, values

(* A line is read in its section.                                           *)
InPlace == /\ Line.key # "#" => fieldClass = SectionOf(Line.key)
           /\ Line.key = "cmdstat" => Line.value.fields \in Nat

(* The lines of INFO, by section: headers, ...                              *)
LEMMA SectionGrows ==
  ASSUME Fit(exporter), SectionLine
  PROVE  Grows(FullPart(server, Line, masterHost', masterPort'))
<1>1. FullPart(server, Line, masterHost', masterPort') = {}
  BY DEF SectionLine, FullPart, LinePart, MasterKeys, FieldPart, FieldKeys
<1> QED
  BY <1>1, UnchangedGrows DEF SectionLine

(* ... handleMetricsReplication, ...                                        *)
LEMMA ReplicationGrows ==
  ASSUME Fit(exporter), RoleTold, InPlace, Replication
  PROVE  Grows(FullPart(server, Line, masterHost', masterPort'))
<1> DEFINE key == Line.key
           v == Line.value
           host == masterHost'
           port == masterPort'
           master == <<host, port>>
           slave == <<v.ip, v.port, v.state>>
           x == Gauge(exporter, "connected_slave_offset_bytes", v.offset, slave)
           y == IF v.lag > -1 THEN Gauge(x, "connected_slave_lag_seconds", v.lag, slave) ELSE x
           P == FullPart(server, Line, host, port)
<1>1. key \in ReplicationKeys
  <2>1. fieldClass = "Replication" /\ fieldClass = SectionOf(key)
    BY DEF InPlace, Replication, FieldOf
  <2> QED
    BY <2>1 DEF SectionOf, ServerKeys
<1>2. CASE key = "master_link_status"
  <2>1. Becomes(Gauge(exporter, "master_link_up", IF v = "up" THEN 1 ELSE 0, master))
    BY <1>2 DEF Replication
  <2>2. P = {Told(server, "master_link_up", <<"master_host", "master_port">>, master,
                  IF v = "up" THEN 1 ELSE 0)}
    BY <1>2 DEF FullPart, LinePart, MasterPart, MasterKeys
  <2>3. \A n, a, b : Adds(exporter, Gauge(exporter, "master_link_up", n, <<a, b>>),
                         {Told(server, "master_link_up", <<"master_host", "master_port">>, <<a, b>>, n)})
    BY GroupTells DEF ByMaster
  <2>4. Adds(exporter, Gauge(exporter, "master_link_up", IF v = "up" THEN 1 ELSE 0, master), P)
    BY <2>2, <2>3
  <2> QED
    BY <2>1, <2>4, BecomesGrows
<1>3. CASE key \in {"master_last_io_seconds_ago", "slave_repl_offset"}
  <2>1. Becomes(Gauge(exporter, key, IF IsNumber(v) THEN Number[v] ELSE 0, master))
    BY <1>3 DEF Replication
  <2>2. P = {Told(server, key, <<"master_host", "master_port">>, master,
                  IF IsNumber(v) THEN Number[v] ELSE 0)}
    BY <1>3 DEF FullPart, LinePart, MasterPart, MasterKeys
  <2>3. key \in ByMaster
    BY <1>3 DEF ByMaster
  <2>4. \A n, a, b : Adds(exporter, Gauge(exporter, key, n, <<a, b>>),
                         {Told(server, key, <<"master_host", "master_port">>, <<a, b>>, n)})
    BY <2>3, GroupTells
  <2>5. Adds(exporter, Gauge(exporter, key, IF IsNumber(v) THEN Number[v] ELSE 0, master), P)
    BY <2>2, <2>4
  <2> QED
    BY <2>1, <2>5, BecomesGrows
<1>4. CASE key = "slave"
  <2>1. P = SlavePart(server, v)
    BY <1>4 DEF FullPart, LinePart, MasterKeys
  <2>2. CASE ~ v.whole
    <3>1. Becomes(exporter)
      BY <1>4, <2>2 DEF Replication
    <3> QED
      BY <2>1, <2>2, <3>1, SameGrows DEF SlavePart
  <2>3. CASE v.whole
    <3>1. Becomes(y)
      BY <1>4, <2>3 DEF Replication
    <3> DEFINE labels == <<"slave_ip", "slave_port", "slave_state">>
               A == {Told(server, "connected_slave_offset_bytes", labels, slave, v.offset)}
               B == {Told(server, "connected_slave_lag_seconds", labels, slave, v.lag)}
    <3>2. Adds(exporter, x, A) /\ Adds(x, Gauge(x, "connected_slave_lag_seconds", v.lag, slave), B)
      BY GroupTells DEF BySlave
    <3>3. P = IF v.lag > -1 THEN A \cup B ELSE A
      BY <2>1, <2>3 DEF SlavePart
    <3> HIDE DEF x, A, B, P
    <3>4. Adds(exporter, y, P)
      BY <3>2, <3>3, AddsThen
    <3> QED
      BY <3>1, <3>4, BecomesGrows DEF P
  <2> QED
    BY <2>2, <2>3
<1>5. CASE key \in {"role", "master_host", "master_port", "slave_read_only", "connected_slaves"}
  <2>1. Becomes(FromField(exporter, Line))
    BY <1>5 DEF Replication
  <2>2. P = FieldPart(server, Line)
    BY <1>5 DEF FullPart, LinePart, MasterKeys
  <2>3. Adds(exporter, FromField(exporter, Line), P)
    BY <1>5, <2>2, FieldAdds
  <2> QED
    BY <2>1, <2>3, BecomesGrows
<1> QED
  BY <1>1, <1>2, <1>3, <1>4, <1>5 DEF ReplicationKeys, MasterKeys

(* ... handleMetricsServer, ...                                             *)
LEMMA ServerGrows ==
  ASSUME Fit(exporter), RoleTold, InPlace, ServerField
  PROVE  Grows(FullPart(server, Line, masterHost', masterPort'))
<1> DEFINE v == Line.value
           x == Gauge(exporter, "start_time_seconds", Now - Number[v], <<>>)
           P == FullPart(server, Line, masterHost', masterPort')
<1>1. Line.key \in ServerKeys
  <2>1. fieldClass = "Server" /\ fieldClass = SectionOf(Line.key)
    BY DEF InPlace, ServerField, FieldOf
  <2> QED
    BY <2>1 DEF SectionOf
<1>2. Line.key \notin {"db", "cmdstat"} /\ Line.key \notin MasterKeys
  BY <1>1 DEF ServerKeys, MasterKeys
<1>3. CASE Line.key = "uptime_in_seconds" /\ IsNumber(v)
  <2>1. Adds(exporter, x, {Plain(server, "start_time_seconds", Now - Number[v])})
    BY GroupTells DEF Unlabelled
  <2>2. Adds(x, FromField(x, Line), FieldPart(server, Line))
    BY <1>2, FieldAdds
  <2>3. P = {Plain(server, "start_time_seconds", Now - Number[v])} \cup FieldPart(server, Line)
    BY <1>3 DEF FullPart, LinePart, MasterKeys
  <2>4. Becomes(FromField(x, Line))
    BY <1>3 DEF ServerField
  <2> HIDE DEF x, P
  <2>5. Adds(exporter, FromField(x, Line), P)
    BY <2>1, <2>2, <2>3, AddsThen
  <2> QED
    BY <2>4, <2>5, BecomesGrows DEF P
<1>4. CASE ~ (Line.key = "uptime_in_seconds" /\ IsNumber(v))
  <2>1. Adds(exporter, FromField(exporter, Line), FieldPart(server, Line))
    BY <1>2, FieldAdds
  <2>2. P = FieldPart(server, Line)
    BY <1>1, <1>4 DEF FullPart, LinePart, MasterKeys, ServerKeys
  <2>3. Becomes(FromField(exporter, Line))
    BY <1>4 DEF ServerField
  <2> QED
    BY <2>1, <2>2, <2>3, BecomesGrows
<1> QED
  BY <1>3, <1>4

(* ... handleMetricsTLS, ...                                                *)
LEMMA TLSGrows ==
  ASSUME Fit(exporter), RoleTold, InPlace, TLSField
  PROVE  Grows(FullPart(server, Line, masterHost', masterPort'))
<1> DEFINE P == FullPart(server, Line, masterHost', masterPort')
<1>1. Line.key \in {"tls_server_cert_serial", "tls_server_cert_expires_in_seconds"}
  <2>1. fieldClass = "TLS" /\ fieldClass = SectionOf(Line.key)
    BY DEF InPlace, TLSField, FieldOf
  <2> QED
    BY <2>1 DEF SectionOf
<1>2. CASE Line.key = "tls_server_cert_serial"
  <2>1. Becomes(Gauge(exporter, "tls_certificate_info", 1, <<"server", Line.value>>))
    BY <1>2 DEF TLSField
  <2>2. P = {Told(server, "tls_certificate_info", <<"certificate", "serial">>, <<"server", Line.value>>, 1)}
    BY <1>2 DEF FullPart, LinePart, MasterKeys
  <2>3. Adds(exporter, Gauge(exporter, "tls_certificate_info", 1, <<"server", Line.value>>), P)
    BY <2>2, SingleTells
  <2> QED
    BY <2>1, <2>3, BecomesGrows
<1>3. CASE Line.key = "tls_server_cert_expires_in_seconds"
  <2>1. Becomes(FromField(exporter, Line))
    BY <1>3 DEF TLSField
  <2>2. P = FieldPart(server, Line)
    BY <1>3 DEF FullPart, LinePart, MasterKeys
  <2>3. Adds(exporter, FromField(exporter, Line), P)
    BY <1>3, <2>2, FieldAdds
  <2> QED
    BY <2>1, <2>3, BecomesGrows
<1> QED
  BY <1>1, <1>2, <1>3

(* ... handleMetricsScriptingEngines, ...                                   *)
LEMMA EngineGrows ==
  ASSUME Fit(exporter), RoleTold, InPlace, ScriptingEngine
  PROVE  Grows(FullPart(server, Line, masterHost', masterPort'))
<1> DEFINE P == FullPart(server, Line, masterHost', masterPort')
           v == Line.value
           engine == <<v.name, v.module, v.abi>>
           x == Gauge(exporter, "scripting_engine_info", 1, engine)
           y == Gauge(x, "scripting_engine_memory_used_bytes", v.memory, engine)
           labels == <<"engine", "module", "abi_version">>
           A == {Told(server, "scripting_engine_info", labels, engine, 1)}
           B == {Told(server, "scripting_engine_memory_used_bytes", labels, engine, v.memory)}
<1>1. Line.key \in {"engines_count", "engine_"}
  <2>1. fieldClass = "Scripting Engines" /\ fieldClass = SectionOf(Line.key)
    BY DEF InPlace, ScriptingEngine, FieldOf
  <2> QED
    BY <2>1 DEF SectionOf
<1>2. CASE Line.key = "engine_"
  <2>1. Becomes(y)
    BY <1>2 DEF ScriptingEngine
  <2>2. P = A \cup B
    BY <1>2 DEF FullPart, LinePart, MasterKeys, EnginePart
  <2>3. Adds(exporter, x, A) /\ Adds(x, y, B)
    BY GroupTells DEF ByEngine
  <2> HIDE DEF x, y, A, B, P
  <2>4. Adds(exporter, y, P)
    BY <2>2, <2>3, AddsThen
  <2> QED
    BY <2>1, <2>4, BecomesGrows DEF P
<1>3. CASE Line.key = "engines_count"
  <2>1. Becomes(FromField(exporter, Line))
    BY <1>3 DEF ScriptingEngine
  <2>2. P = FieldPart(server, Line)
    BY <1>3 DEF FullPart, LinePart, MasterKeys
  <2>3. Adds(exporter, FromField(exporter, Line), P)
    BY <1>3, <2>2, FieldAdds
  <2> QED
    BY <2>1, <2>3, BecomesGrows
<1> QED
  BY <1>1, <1>2, <1>3

(* ... handleMetricsCommandStats, ...                                       *)
LEMMA CommandGrows ==
  ASSUME Fit(exporter), RoleTold, InPlace, CommandStats
  PROVE  Grows(FullPart(server, Line, masterHost', masterPort'))
<1> DEFINE P == FullPart(server, Line, masterHost', masterPort')
           c == Line.value
           Tell(x, m, v) == registerConstMetric(createMetricDescription(x, m, <<"cmd">>), m, v, <<c.cmd>>)
           Of(m, v) == {Told(server, m, <<"cmd">>, <<c.cmd>>, v)}
           x == Tell(exporter, "commands_total", c.calls)
           y == IF c.fields < 5 THEN x ELSE Tell(x, "commands_rejected_calls_total", c.rejected)
           z == Tell(y, "commands_slowlog_total", c.slow)
           A == Of("commands_total", c.calls)
           B == IF c.fields < 5 THEN {} ELSE Of("commands_rejected_calls_total", c.rejected)
           C == Of("commands_slowlog_total", c.slow)
<1>1. Line.key = "cmdstat" /\ c.fields \in Nat
  <2>1. fieldClass = "Commandstats" /\ fieldClass = SectionOf(Line.key)
    BY DEF InPlace, CommandStats, FieldOf
  <2> QED
    BY <2>1 DEF SectionOf, InPlace
<1>2. P = IF c.fields < 3 THEN {} ELSE A \cup B \cup (IF c.slow = -1 THEN {} ELSE C)
  BY <1>1 DEF FullPart, LinePart, MasterKeys, CommandPart
<1>3. Becomes(CASE c.fields < 3 -> exporter
                [] c.fields >= 3 /\ c.slow = -1 -> y
                [] OTHER -> z)
  BY DEF CommandStats
<1>4. \A w, m, v : m \in ByCommand => Adds(w, Tell(w, m, v), Of(m, v))
  BY CommandTells
<1> HIDE DEF Tell, Of
<1>5. Adds(exporter, x, A) /\ Adds(y, z, C)
  BY <1>4 DEF ByCommand
<1>6. Adds(x, y, B)
  BY <1>4, AddsNone DEF ByCommand
<1> HIDE DEF x, y, z, A, B, C, P
<1>7. Adds(exporter, y, A \cup B)
  BY <1>5, <1>6, AddsThen
<1>8. Adds(exporter, z, A \cup B \cup C)
  BY <1>5, <1>7, AddsThen
<1>9. CASE c.fields < 3
  <2>1. Becomes(exporter) /\ P = {}
    BY <1>1, <1>2, <1>3, <1>9
  <2> QED
    BY <2>1, SameGrows DEF P
<1>10. CASE c.fields >= 3 /\ c.slow = -1
  <2>1. Becomes(y) /\ P = A \cup B
    BY <1>1, <1>2, <1>3, <1>10
  <2> QED
    BY <1>7, <2>1, BecomesGrows DEF P
<1>11. CASE c.fields >= 3 /\ c.slow # -1
  <2>1. Becomes(z) /\ P = A \cup B \cup C
    BY <1>1, <1>2, <1>3, <1>11
  <2> QED
    BY <1>8, <2>1, BecomesGrows DEF P
<1> QED
  BY <1>1, <1>9, <1>10, <1>11

(* ... parseMetricsLatencyStats, ...                                        *)
LEMMA LatencyStatsGrows ==
  ASSUME Fit(exporter), RoleTold, InPlace, LatencyStats
  PROVE  Grows(FullPart(server, Line, masterHost', masterPort'))
<1>1. Line.key = "latency_percentiles_usec"
  <2>1. fieldClass = "Latencystats" /\ fieldClass = SectionOf(Line.key)
    BY DEF InPlace, LatencyStats, FieldOf
  <2> QED
    BY <2>1 DEF SectionOf
<1>2. FullPart(server, Line, masterHost', masterPort') = {}
  BY <1>1 DEF FullPart, LinePart, MasterKeys, FieldPart, FieldKeys
<1> QED
  BY <1>2, SameGrows DEF LatencyStats

(* ... handleMetricsErrorStats, ...                                         *)
LEMMA ErrorGrows ==
  ASSUME Fit(exporter), RoleTold, InPlace, ErrorStats
  PROVE  Grows(FullPart(server, Line, masterHost', masterPort'))
<1> DEFINE P == FullPart(server, Line, masterHost', masterPort')
           v == Line.value
           x == Gauge(exporter, "errors_total", v.count, <<v.err>>)
<1>1. Line.key = "errorstat"
  <2>1. fieldClass = "Errorstats" /\ fieldClass = SectionOf(Line.key)
    BY DEF InPlace, ErrorStats, FieldOf
  <2> QED
    BY <2>1 DEF SectionOf
<1>2. P = {Told(server, "errors_total", <<"err">>, <<v.err>>, v.count)}
  BY <1>1 DEF FullPart, LinePart, MasterKeys
<1>3. Adds(exporter, x, P)
  <2>1. \A n, a : Adds(exporter, Gauge(exporter, "errors_total", n, <<a>>),
                      {Told(server, "errors_total", <<"err">>, <<a>>, n)})
    BY SingleTells
  <2> QED
    BY <1>2, <2>1
<1>4. Becomes(x)
  BY DEF ErrorStats, Gauge
<1> QED
  BY <1>3, <1>4, BecomesGrows

(* ... CLUSTER INFO inside INFO, ...                                        *)
LEMMA RepeatedGrows ==
  ASSUME Fit(exporter), RoleTold, InPlace, RepeatedClusterInfo
  PROVE  Grows(FullPart(server, Line, masterHost', masterPort'))
<1>1. Line.key \in {"cluster_state", "cluster_known_nodes"}
  <2>1. fieldClass = "Cluster Info" /\ fieldClass = SectionOf(Line.key)
    BY DEF InPlace, RepeatedClusterInfo, FieldOf
  <2> QED
    BY <2>1 DEF SectionOf
<1>2. FullPart(server, Line, masterHost', masterPort') = {}
  BY <1>1 DEF FullPart, LinePart, MasterKeys
<1> QED
  BY <1>2, SameGrows DEF RepeatedClusterInfo

(* ... parseDBKeyspaceString, ...                                           *)
LEMMA KeyspaceGrows ==
  ASSUME Fit(exporter), RoleTold, InPlace, Keyspace
  PROVE  Grows(FullPart(server, Line, masterHost', masterPort'))
<1> DEFINE P == FullPart(server, Line, masterHost', masterPort')
           d == Line.value
           name == DbName(Line.n)
           Of(m, v) == {Told(server, m, <<"db">>, <<name>>, v)}
           x == Gauge(exporter, "db_keys", d.keys, <<name>>)
           y == Gauge(x, "db_keys_expiring", d.expires, <<name>>)
           z == Gauge(y, "db_avg_ttl_seconds", d.ttl \div 1000, <<name>>)
           A == Of("db_keys", d.keys)
           B == Of("db_keys_expiring", d.expires)
           C == Of("db_avg_ttl_seconds", d.ttl \div 1000)
<1>1. Line.key = "db"
  <2>1. fieldClass = "Keyspace" /\ fieldClass = SectionOf(Line.key)
    BY DEF InPlace, Keyspace, FieldOf
  <2> QED
    BY <2>1 DEF SectionOf
<1>2. P = IF ~ d.whole THEN {} ELSE A \cup B \cup (IF d.ttl = -1 THEN {} ELSE C)
  BY <1>1 DEF FullPart, LinePart, MasterKeys, DbPart
<1>3. Becomes(CASE ~ d.whole -> exporter
                [] d.whole /\ d.ttl = -1 -> y
                [] OTHER -> z)
  BY DEF Keyspace
<1> HIDE DEF name
<1>4. Adds(exporter, x, A)
  BY GroupTells DEF ByDb
<1>5. Adds(x, y, B)
  BY GroupTells DEF ByDb
<1>6. \A v : Adds(y, Gauge(y, "db_avg_ttl_seconds", v, <<name>>), Of("db_avg_ttl_seconds", v))
  BY GroupTells DEF ByDb
<1>7. Adds(y, z, C)
  BY <1>6
<1> HIDE DEF x, y, z, A, B, C, P
<1>8. Adds(exporter, y, A \cup B)
  BY <1>4, <1>5, AddsThen
<1>9. Adds(exporter, z, A \cup B \cup C)
  BY <1>7, <1>8, AddsThen
<1>10. CASE ~ d.whole
  BY <1>2, <1>3, <1>10, SameGrows DEF P
<1>11. CASE d.whole /\ d.ttl = -1
  <2>1. Becomes(y) /\ P = A \cup B
    BY <1>2, <1>3, <1>11
  <2> QED
    BY <1>8, <2>1, BecomesGrows DEF P
<1>12. CASE d.whole /\ d.ttl # -1
  <2>1. Becomes(z) /\ P = A \cup B \cup C
    BY <1>2, <1>3, <1>12
  <2> QED
    BY <1>9, <2>1, BecomesGrows DEF P
<1> QED
  BY <1>10, <1>11, <1>12

(* ... handleMetricsSentinel ...                                            *)
LEMMA SentinelGrows ==
  ASSUME Fit(exporter), RoleTold, InPlace, Sentinel
  PROVE  Grows(FullPart(server, Line, masterHost', masterPort'))
<1> DEFINE P == FullPart(server, Line, masterHost', masterPort')
           m == Line.value
           n == IF IsNumber(m) THEN Number[m] ELSE 0
           ok == IF m.status = "ok" THEN 1 ELSE 0
           w == Gauge(exporter, "sentinel_masters", n, <<>>)
           x == Gauge(exporter, "sentinel_master_status", ok, <<m.name, m.address, m.status>>)
           y == Gauge(x, "sentinel_master_slaves", m.slaves, <<m.name, m.address>>)
           A == {Told(server, "sentinel_master_status", <<"master_name", "master_address", "master_status">>,
                      <<m.name, m.address, m.status>>, ok)}
           B == {Told(server, "sentinel_master_slaves", <<"master_name", "master_address">>,
                      <<m.name, m.address>>, m.slaves)}
<1>1. Line.key \in {"sentinel_masters", "master"}
  <2>1. fieldClass = "Sentinel" /\ fieldClass = SectionOf(Line.key)
    BY DEF InPlace, Sentinel, FieldOf
  <2> QED
    BY <2>1 DEF SectionOf
<1>2. \A u : Adds(u, FromField(u, Line), {})
  <2>1. FieldPart(server, Line) = {}
    BY <1>1 DEF FieldPart, FieldKeys
  <2> QED
    BY <1>1, <2>1, FieldAdds
<1>3. CASE Line.key = "sentinel_masters"
  <2>1. Becomes(FromField(w, Line))
    BY <1>3 DEF Sentinel
  <2>2. P = {Plain(server, "sentinel_masters", n)}
    BY <1>3 DEF FullPart, LinePart, MasterKeys
  <2> HIDE DEF n
  <2>3. Adds(exporter, w, P)
    BY <2>2, GroupTells DEF Unlabelled
  <2>4. Adds(exporter, FromField(w, Line), P \cup {})
    <3> HIDE DEF w, P
    <3> QED
      BY <1>2, <2>3, AddsThen
  <2>5. P \cup {} = P
    OBVIOUS
  <2> QED
    BY <2>1, <2>4, <2>5, BecomesGrows
<1>4. CASE Line.key = "master"
  <2>1. Becomes(FromField(y, Line))
    BY <1>4 DEF Sentinel
  <2>2. P = A \cup B
    BY <1>4 DEF FullPart, LinePart, MasterKeys, WatchedPart
  <2> HIDE DEF ok
  <2>3. Adds(exporter, x, A)
    BY SingleTells
  <2>4. Adds(x, y, B)
    BY GroupTells DEF ByWatched
  <2> HIDE DEF x, y, A, B, P
  <2>5. Adds(exporter, y, P)
    BY <2>2, <2>3, <2>4, AddsThen
  <2>6. Adds(exporter, FromField(y, Line), P \cup {})
    BY <1>2, <2>5, AddsThen
  <2>7. P \cup {} = P
    OBVIOUS
  <2> QED
    BY <2>1, <2>6, <2>7, BecomesGrows DEF P
<1> QED
  BY <1>1, <1>3, <1>4

(* ... and what has no handler.                                             *)
LEMMA OtherGrows ==
  ASSUME Fit(exporter), RoleTold, InPlace, OtherField
  PROVE  Grows(FullPart(server, Line, masterHost', masterPort'))
<1> DEFINE P == FullPart(server, Line, masterHost', masterPort')
<1>1. Line.key = "cluster_enabled"
  <2>1. fieldClass = "Cluster" /\ fieldClass = SectionOf(Line.key)
    BY DEF InPlace, OtherField, FieldOf
  <2> QED
    BY <2>1 DEF SectionOf
<1>2. P = FieldPart(server, Line)
  BY <1>1 DEF FullPart, LinePart, MasterKeys
<1>3. Adds(exporter, FromField(exporter, Line), P)
  BY <1>1, <1>2, FieldAdds
<1> QED
  BY <1>3, BecomesGrows DEF OtherField

(* So does every line.                                                      *)
LEMMA LineGrows ==
  ASSUME Fit(exporter), RoleTold, InPlace, InfoLine
  PROVE  Grows(FullPart(server, Line, masterHost', masterPort'))
BY SectionGrows, ReplicationGrows, ServerGrows, TLSGrows, EngineGrows, CommandGrows,
   LatencyStatsGrows, ErrorGrows, RepeatedGrows, KeyspaceGrows, SentinelGrows, OtherGrows
   DEF InfoLine

(* What servers answer.                                                     *)
LEMMA AnswersAre ==
  ASSUME NEW T, NEW reply \in Maybe(Seq(T))
  PROVE  Answer(reply) \in Seq(T)
BY DEF Maybe, Answer

(* What is assumed of the server being scraped.                             *)
LEMMA ServersAre ==
  ASSUME server \in Servers
  PROVE  ServerTypes(server) /\ Consistent(server) /\ Denied # <<>>
BY ServersAssumption

(* The slow log adds what is promised of it, ...                            *)
LEMMA SlowLogGrows ==
  ASSUME Fit(exporter), RoleTold, server \in Servers, SlowLog
  PROVE  Grows(PromisedSlowLog(server))
<1> DEFINE l == server.slowest
           told == IF server.slowLength = Denied THEN exporter
                   ELSE Gauge(exporter, "slowlog_length", server.slowLength, <<>>)
           A == {Plain(server, "slowlog_length", n) : n \in {server.slowLength} \ {Denied}}
           y(id) == Gauge(told, "slowlog_last_id", id, <<>>)
           z(id, t) == Gauge(y(id), "last_slow_execution_duration_seconds", t, <<>>)
           B(id) == {Plain(server, "slowlog_last_id", id)}
           C(t) == {Plain(server, "last_slow_execution_duration_seconds", t)}
           P == PromisedSlowLog(server)
<1>1. Adds(exporter, told, A)
  <2>1. \A n : Adds(exporter, Gauge(exporter, "slowlog_length", n, <<>>), {Plain(server, "slowlog_length", n)})
    BY GroupTells DEF Unlabelled
  <2>2. CASE server.slowLength = Denied
    <3>1. A = {} /\ told = exporter
      BY <2>2
    <3> QED
      BY <3>1, AddsNone
  <2>3. CASE server.slowLength # Denied
    <3>1. A = {Plain(server, "slowlog_length", server.slowLength)}
      BY <2>3
    <3> QED
      BY <2>1, <2>3, <3>1
  <2> QED
    BY <2>2, <2>3
<1>2. \A id, t : Adds(told, z(id, t), B(id) \cup C(t))
  <2> TAKE id, t
  <2>1. Adds(told, y(id), B(id)) /\ Adds(y(id), z(id, t), C(t))
    BY GroupTells DEF Unlabelled
  <2> HIDE DEF y, z, B, C, told
  <2> QED
    BY <2>1, AddsThen
<1> HIDE DEF A, told, z
<1>3. l \in Maybe(Seq([id : Nat, seconds : Nat])) /\ Len(Answer(l)) <= 1 /\ Denied # <<>>
  BY ServersAre DEF ServerTypes, Consistent
<1>4. CASE l = Denied
  <2>1. Answer(l) = <<>> /\ ToSet(<<>>) = {} /\ l # <<>>
    BY <1>3, <1>4, ToSetEmpty DEF Answer
  <2>2. P = A
    BY <2>1 DEF PromisedSlowLog, A
  <2>3. Becomes(told)
    BY <1>4 DEF SlowLog, told
  <2> HIDE DEF P
  <2> QED
    BY <1>1, <2>2, <2>3, BecomesGrows DEF P
<1>5. CASE l = <<>>
  <2>1. Answer(l) = <<>> /\ ToSet(<<>>) = {} /\ l # Denied
    BY <1>3, <1>5, ToSetEmpty DEF Answer
  <2>2. P = A \cup (B(0) \cup C(0))
    BY <1>5, <2>1 DEF PromisedSlowLog, A
  <2>3. Becomes(z(0, 0))
    BY <2>1 DEF SlowLog, told, z
  <2>4. Adds(told, z(0, 0), B(0) \cup C(0))
    BY <1>2
  <2> HIDE DEF P, B, C
  <2>5. Adds(exporter, z(0, 0), P)
    BY <1>1, <2>2, <2>4, AddsThen
  <2> QED
    BY <2>3, <2>5, BecomesGrows DEF P
<1>6. CASE l \notin {Denied, <<>>}
  <2>1. Answer(l) = l /\ l \in Seq([id : Nat, seconds : Nat])
    BY <1>3, <1>6 DEF Answer, Maybe
  <2>2. Len(l) = 1 /\ DOMAIN l = 1 .. 1
    <3>1. Len(l) \in Nat /\ DOMAIN l = 1 .. Len(l) /\ Len(l) <= 1
      BY <1>3, <2>1, LenProperties
    <3>2. Len(l) # 0
      BY <1>6, <2>1, EmptySeq
    <3>3. Len(l) = 1
      <4> DEFINE n == Len(l)
      <4>1. n \in Nat /\ n <= 1 /\ n # 0
        BY <3>1, <3>2
      <4> HIDE DEF n
      <4>2. n = 1
        BY <4>1
      <4> QED
        BY <4>2 DEF n
    <3> QED
      BY <3>1, <3>3
  <2>3. ToSet(l) = {l[1]}
    BY <2>2 DEF ToSet
  <2> DEFINE e == l[1]
  <2>4. P = A \cup (B(e.id) \cup C(e.seconds))
    BY <1>6, <2>1, <2>3 DEF PromisedSlowLog, A
  <2>5. Becomes(z(e.id, e.seconds))
    BY <1>6, <2>1 DEF SlowLog, told, z
  <2>6. Adds(told, z(e.id, e.seconds), B(e.id) \cup C(e.seconds))
    BY <1>2
  <2> HIDE DEF P, B, C, e
  <2>7. Adds(exporter, z(e.id, e.seconds), P)
    BY <1>1, <2>4, <2>6, AddsThen
  <2> QED
    BY <2>5, <2>7, BecomesGrows DEF P
<1> QED
  BY <1>4, <1>5, <1>6

(* ... the command log, ...                                                 *)
LEMMA CommandLogGrows ==
  ASSUME Fit(exporter), RoleTold, server \in Servers, CommandLog
  PROVE  Grows(PromisedCommandLog(server))
<1> DEFINE types == SetToSeq(DOMAIN commandLogTypes)
           keys == SetToSeq(DOMAIN commandLogConfig)
           lengths == FoldLeft(CommandLogLength, exporter, types)
           all == FoldLeft(CommandLogSetting, lengths, keys)
           length == [t \in DOMAIN commandLogTypes |->
                        IF server.commandLog[t] = Denied THEN {}
                        ELSE {Plain(server, commandLogTypes[t], server.commandLog[t])}]
           setting == [k \in DOMAIN commandLogConfig |->
                         IF k \in DOMAIN server.config /\ IsNumber(server.config[k])
                         THEN {Plain(server, commandLogConfig[k], Number[server.config[k]])} ELSE {}]
           A == All(length, DOMAIN commandLogTypes)
           B == All(setting, DOMAIN commandLogConfig)
           P == PromisedCommandLog(server)
<1>1. /\ types \in Seq(DOMAIN commandLogTypes) /\ ToSet(types) = DOMAIN commandLogTypes
      /\ keys \in Seq(DOMAIN commandLogConfig) /\ ToSet(keys) = DOMAIN commandLogConfig
  <2>1. DOMAIN commandLogTypes = {"slow", "large_request"}
        /\ DOMAIN commandLogConfig = {"commandlog-request-larger-than"}
    BY DEF commandLogTypes, commandLogConfig
  <2>2. IsFiniteSet({"slow", "large_request"}) /\ IsFiniteSet({"commandlog-request-larger-than"})
    <3>1. IsFiniteSet({"slow"}) /\ IsFiniteSet({"commandlog-request-larger-than"})
      BY FS_Singleton
    <3>2. IsFiniteSet({"slow"} \cup {"large_request"})
      BY <3>1, FS_AddElement
    <3>3. {"slow"} \cup {"large_request"} = {"slow", "large_request"}
      OBVIOUS
    <3> QED
      BY <3>1, <3>2, <3>3
  <2> QED
    BY <2>1, <2>2, SetToSeqLists
<1>2. ASSUME NEW z, NEW t \in DOMAIN commandLogTypes PROVE Adds(z, CommandLogLength(z, t), length[t])
  <2>1. commandLogTypes[t] \in Unlabelled
    BY DEF commandLogTypes, Unlabelled
  <2>2. Adds(z, Gauge(z, commandLogTypes[t], server.commandLog[t], <<>>),
             {Plain(server, commandLogTypes[t], server.commandLog[t])})
    BY <2>1, GroupTells
  <2> QED
    BY <2>2, AddsNone DEF CommandLogLength
<1>3. ASSUME NEW z, NEW k \in DOMAIN commandLogConfig PROVE Adds(z, CommandLogSetting(z, k), setting[k])
  <2>1. commandLogConfig[k] \in Unlabelled
    BY DEF commandLogConfig, Unlabelled
  <2>2. Adds(z, Gauge(z, commandLogConfig[k], Number[server.config[k]], <<>>),
             {Plain(server, commandLogConfig[k], Number[server.config[k]])})
    BY <2>1, GroupTells
  <2> QED
    BY <2>2, AddsNone DEF CommandLogSetting
<1>4. Adds(exporter, lengths, A)
  <2> HIDE DEF types, length
  <2> QED
    BY <1>1, <1>2, LogLengthsAdd
<1>5. Adds(lengths, all, B)
  <2> HIDE DEF keys, setting, lengths
  <2> QED
    BY <1>1, <1>3, LogSettingsAdd
<1>6. Becomes(CASE server.commandLog = Denied -> exporter
                [] server.commandLog # Denied /\ server.config = Denied -> lengths
                [] OTHER -> all)
  BY DEF CommandLog
<1>7. A = {Plain(server, commandLogTypes[t], server.commandLog[t]) :
             t \in {t \in DOMAIN commandLogTypes : server.commandLog[t] # Denied}}
  BY DEF All
<1>8. B = {Plain(server, commandLogConfig[k], Number[server.config[k]]) :
             k \in {k \in DOMAIN commandLogConfig :
                      k \in DOMAIN server.config /\ IsNumber(server.config[k])}}
  BY DEF All
<1>9. P = IF server.commandLog = Denied THEN {}
          ELSE A \cup IF server.config = Denied THEN {} ELSE B
  BY <1>7, <1>8 DEF PromisedCommandLog
<1> HIDE DEF lengths, all, A, B, P
<1>10. CASE server.commandLog = Denied
  BY <1>6, <1>9, <1>10, SameGrows DEF P
<1>11. CASE server.commandLog # Denied /\ server.config = Denied
  BY <1>4, <1>6, <1>9, <1>11, BecomesGrows DEF P
<1>12. CASE server.commandLog # Denied /\ server.config # Denied
  <2>1. Adds(exporter, all, A \cup B)
    BY <1>4, <1>5, AddsThen
  <2> QED
    BY <1>6, <1>9, <1>12, <2>1, BecomesGrows DEF P
<1> QED
  BY <1>10, <1>11, <1>12

(* The entries before the first one that ends the loop.                     *)
LEMMA BeforeIs ==
  ASSUME NEW T, NEW reply \in Seq(T), NEW ends \in SUBSET DOMAIN reply
  PROVE  /\ Before(reply, ends) \in Seq(T)
         /\ ToSet(Before(reply, ends)) =
              {reply[i] : i \in {j \in DOMAIN reply : \A k \in 1 .. j : k \notin ends}}
<1> DEFINE p == Before(reply, ends)
           I == {j \in DOMAIN reply : \A k \in 1 .. j : k \notin ends}
<1>1. Len(reply) \in Nat /\ DOMAIN reply = 1 .. Len(reply) /\ \A i \in DOMAIN reply : reply[i] \in T
  BY LenProperties, ElementOfSeq
<1>2. CASE ends = {}
  <2>1. p = reply /\ I = DOMAIN reply
    BY <1>2 DEF Before
  <2> HIDE DEF p, I
  <2> QED
    BY <2>1 DEF ToSet, p, I
<1>3. CASE ends # {}
  <2> DEFINE m == Min(ends)
  <2>1. ends \in SUBSET Nat
    BY <1>1
  <2>2. \E n \in ends : \A k \in ends : n <= k
    BY <1>3, <2>1, LeastNumber
  <2>3. m \in ends /\ \A k \in ends : m <= k
    BY <2>2 DEF Min
  <2>4. p = SubSeq(reply, 1, m - 1)
    BY <1>3 DEF Before
  <2> HIDE DEF m, p
  <2>5. m \in 1 .. Len(reply)
    BY <1>1, <2>3
  <2>6. /\ p \in Seq(T) /\ Len(p) = m - 1 /\ DOMAIN p = 1 .. m - 1
        /\ \A i \in 1 .. m - 1 : p[i] = reply[i]
    <3>1. 1 \in 1 .. Len(reply) + 1 /\ m - 1 \in 0 .. Len(reply)
      BY <1>1, <2>5
    <3>2. \A i \in 1 .. m - 1 : reply[i] \in T
      BY <1>1, <2>5
    <3>3. p \in Seq(T) /\ Len(p) = (IF 1 <= m - 1 THEN (m - 1) - 1 + 1 ELSE 0)
          /\ \A i \in 1 .. (m - 1) - 1 + 1 : p[i] = reply[1 + i - 1]
      BY <2>4, <3>2, <2>5, SubSeqProperties
    <3>4. Len(p) = m - 1 /\ DOMAIN p = 1 .. Len(p)
      BY <2>5, <3>3, LenProperties
    <3> QED
      BY <2>5, <3>3, <3>4
  <2>7. I = 1 .. m - 1
    <3>1. ASSUME NEW j \in 1 .. m - 1 PROVE j \in I
      BY <1>1, <2>1, <2>3, <2>5
    <3>2. ASSUME NEW j \in I PROVE j \in 1 .. m - 1
      <4>1. j \in 1 .. Len(reply) /\ m \notin 1 .. j
        BY <1>1, <2>3
      <4> QED
        BY <1>1, <2>5, <4>1
    <3> QED
      BY <3>1, <3>2
  <2> HIDE DEF I
  <2> QED
    BY <2>6, <2>7 DEF ToSet, p, I
<1> QED
  BY <1>2, <1>3

(* ... the modules, ...                                                     *)
LEMMA ModulesGrows ==
  ASSUME Fit(exporter), RoleTold, server \in Servers, Modules
  PROVE  Grows(PromisedModules(server))
<1> DEFINE ls == Answer(server.modules)
           Module == [key : {"module"}, n : {0}, value : [name : STRING, ver : STRING, fields : Nat]]
           Search == [key : {"search_total_indexing_time"}, n : {0}, value : DOMAIN Number]
           part == [l \in ToSet(ls) |->
                      CASE l.key = "module" /\ l.value.fields = 7 ->
                             {Told(server, "module_info", <<"name", "ver">>, <<l.value.name, l.value.ver>>, 1)}
                        [] l.key = "module" /\ l.value.fields # 7 -> {}
                        [] OTHER -> {Plain(server, "search_indexing_time_ms_total", Number[l.value])}]
<1>1. ls \in Seq(Module \cup Search)
  BY ServersAre, AnswersAre DEF ServerTypes
<1>2. ToSet(ls) \subseteq Module \cup Search
  BY <1>1, ToSetType
<1>3. ASSUME NEW z, NEW l \in ToSet(ls) PROVE Adds(z, ModuleLine(z, l), part[l])
  <2>1. CASE l \in Module
    <3>1. l.key = "module"
      BY <2>1
    <3>2. Adds(z, Gauge(z, "module_info", 1, <<l.value.name, l.value.ver>>),
               {Told(server, "module_info", <<"name", "ver">>, <<l.value.name, l.value.ver>>, 1)})
      BY SingleTells
    <3>3. part[l] = IF l.value.fields = 7
                    THEN {Told(server, "module_info", <<"name", "ver">>, <<l.value.name, l.value.ver>>, 1)}
                    ELSE {}
      BY <3>1
    <3>4. ModuleLine(z, l) = IF l.value.fields = 7
                             THEN Gauge(z, "module_info", 1, <<l.value.name, l.value.ver>>) ELSE z
      BY <3>1 DEF ModuleLine
    <3> HIDE DEF part
    <3> QED
      BY <3>2, <3>3, <3>4, AddsNone
  <2>2. CASE l \in Search
    <3>1. l.key = "search_total_indexing_time" /\ l.value \in DOMAIN Number
      BY <2>2
    <3>2. ModuleLine(z, l) = FromField(z, l)
      BY <3>1 DEF ModuleLine
    <3>3. Adds(z, FromField(z, l), FieldPart(server, l))
      BY <3>1, FieldAdds
    <3>4. FieldPart(server, l) = {Plain(server, "search_indexing_time_ms_total", Number[l.value])}
      <4>1. l.value \notin {"ok", "fail"} /\ IsNumber(l.value)
        BY <3>1 DEF IsNumber, Number
      <4> QED
        BY <3>1, <4>1 DEF FieldPart, FieldKeys, MetricOf
    <3>5. part[l] = {Plain(server, "search_indexing_time_ms_total", Number[l.value])}
      BY <3>1
    <3> HIDE DEF part
    <3> QED
      BY <3>2, <3>3, <3>4, <3>5
  <2> QED
    BY <1>2, <2>1, <2>2
<1>4. Adds(exporter, FoldLeft(ModuleLine, exporter, ls), All(part, ToSet(ls)))
  <2> HIDE DEF part, ls
  <2> QED
    BY <1>1, <1>3, ModuleLinesAdd
<1>5. All(part, ToSet(ls)) = PromisedModules(server)
  <2> DEFINE A == {Told(server, "module_info", <<"name", "ver">>, <<l.value.name, l.value.ver>>, 1) :
                     l \in {m \in ToSet(ls) : m.key = "module" /\ m.value.fields = 7}}
             B == {Plain(server, "search_indexing_time_ms_total", Number[l.value]) :
                     l \in {m \in ToSet(ls) : m.key # "module"}}
  <2>1. PromisedModules(server) = A \cup B
    BY DEF PromisedModules
  <2>2. All(part, ToSet(ls)) \subseteq A \cup B
    BY DEF All
  <2>3. A \subseteq All(part, ToSet(ls))
    BY DEF All
  <2>4. B \subseteq All(part, ToSet(ls))
    BY DEF All
  <2> QED
    BY <2>1, <2>2, <2>3, <2>4
<1>6. Becomes(FoldLeft(ModuleLine, exporter, ls))
  BY DEF Modules
<1> QED
  BY <1>4, <1>5, <1>6, BecomesGrows

(* ... and the search indexes.                                              *)
LEMMA SearchIndexesGrows ==
  ASSUME Fit(exporter), RoleTold, server \in Servers, SearchIndexes
  PROVE  Grows(PromisedIndexes(server))
<1> DEFINE is == Answer(server.indexes)
           T == [name : STRING, wanted : BOOLEAN, docs : Nat, dropped : BOOLEAN, readable : BOOLEAN]
           ends == {i \in DOMAIN is : is[i].wanted /\ is[i].dropped}
           seq == Before(is, ends)
           part == [i \in ToSet(seq) |->
                      IF i.wanted /\ i.readable
                      THEN {Told(server, "search_index_num_docs", <<"index_name">>, <<i.name>>, i.docs)}
                      ELSE {}]
<1>1. is \in Seq(T)
  BY ServersAre, AnswersAre DEF ServerTypes
<1>2. /\ seq \in Seq(T)
      /\ ToSet(seq) = {is[i] : i \in {j \in DOMAIN is : \A k \in 1 .. j : k \notin ends}}
  <2> DEFINE r == is
             e == ends
  <2>1. e \in SUBSET DOMAIN r /\ r \in Seq(T)
    BY <1>1
  <2> HIDE DEF r, e
  <2>2. /\ Before(r, e) \in Seq(T)
        /\ ToSet(Before(r, e)) = {r[i] : i \in {j \in DOMAIN r : \A k \in 1 .. j : k \notin e}}
    BY <2>1, BeforeIs
  <2> QED
    BY <2>2 DEF r, e
<1>3. ASSUME NEW z, NEW i \in ToSet(seq) PROVE Adds(z, SearchIndex(z, i), part[i])
  <2>1. \A n, a : Adds(z, Gauge(z, "search_index_num_docs", n, <<a>>),
                      {Told(server, "search_index_num_docs", <<"index_name">>, <<a>>, n)})
    BY SingleTells
  <2>2. part[i] = IF i.wanted /\ i.readable
                  THEN {Told(server, "search_index_num_docs", <<"index_name">>, <<i.name>>, i.docs)}
                  ELSE {}
    OBVIOUS
  <2> HIDE DEF part, seq
  <2> QED
    BY <2>1, <2>2, AddsNone DEF SearchIndex
<1>4. Adds(exporter, FoldLeft(SearchIndex, exporter, seq), All(part, ToSet(seq)))
  <2> HIDE DEF part, seq
  <2> QED
    BY <1>2, <1>3, IndexesAdd
<1>5. ToSet(seq) = {is[i] : i \in {j \in DOMAIN is :
                      \A k \in 1 .. j : is[k].wanted => ~ is[k].dropped}}
  <2>1. Len(is) \in Nat /\ DOMAIN is = 1 .. Len(is)
    BY <1>1, LenProperties
  <2>2. \A j \in DOMAIN is : \A k \in 1 .. j : k \in DOMAIN is
    BY <2>1
  <2>3. {j \in DOMAIN is : \A k \in 1 .. j : k \notin ends} =
          {j \in DOMAIN is : \A k \in 1 .. j : is[k].wanted => ~ is[k].dropped}
    BY <2>2
  <2> HIDE DEF is, ends, seq
  <2> QED
    BY <1>2, <2>3
<1>6. All(part, ToSet(seq)) = PromisedIndexes(server)
  <2> DEFINE asked == ToSet(seq)
  <2>1. PromisedIndexes(server) =
          {Told(server, "search_index_num_docs", <<"index_name">>, <<i.name>>, i.docs) :
             i \in {j \in asked : j.wanted /\ j.readable}}
    BY <1>5 DEF PromisedIndexes
  <2> HIDE DEF seq
  <2> QED
    BY <2>1 DEF All
<1>7. Becomes(FoldLeft(SearchIndex, exporter, seq))
  BY DEF SearchIndexes
<1> QED
  BY <1>4, <1>6, <1>7, BecomesGrows

(* The time of a command's lines, its subcommands' included, ...            *)
OfIt(c, cmd) == c.plain /\ cmd \in {c.cmd, c.of}

UsecRec(it, cmd, S) ==
  it = [s \in SUBSET S |->
          IF s = {} THEN 0
          ELSE (IF Chosen(s).plain /\ cmd \in {Chosen(s).cmd, Chosen(s).of} THEN Chosen(s).usec ELSE 0)
               + it[s \ {Chosen(s)}]]

(* The time of a command, as promised, is a sum, ...                        *)
LEMMA UsecIs ==
  ASSUME NEW s, NEW cmd, IsFiniteSet(ToSet(s.commands)), NEW w,
         \A c \in ToSet(s.commands) : w[c] \in Nat /\ w[c] = IF OfIt(c, cmd) THEN c.usec ELSE 0
  PROVE  Usec(s, cmd) = SumOver(w, ToSet(s.commands))
<1> DEFINE S == ToSet(s.commands)
<1>1. Usec(s, cmd) = (CHOOSE it : UsecRec(it, cmd, S))[S]
  BY DEF Usec, MapThenSumSet, MapThenFoldSet, UsecRec, Chosen
<1> HIDE DEF S
<1>0. IsFiniteSet(S) /\ \A c \in S : w[c] \in Nat /\ w[c] = IF OfIt(c, cmd) THEN c.usec ELSE 0
  BY DEF S
<1>2. ASSUME NEW it PROVE UsecRec(it, cmd, S) <=> SumRec(it, w, S)
  <2>1. \A t \in SUBSET S : t # {} => Chosen(t) \in S
    BY DEF Chosen
  <2>2. \A t \in SUBSET S : t # {} =>
          w[Chosen(t)] = IF Chosen(t).plain /\ cmd \in {Chosen(t).cmd, Chosen(t).of}
                         THEN Chosen(t).usec ELSE 0
    BY <1>0, <2>1 DEF OfIt
  <2> QED
    BY <2>2 DEF UsecRec, SumRec
<1>3. \E it : UsecRec(it, cmd, S)
  BY <1>0, <1>2, SumExists
<1>4. UsecRec(CHOOSE it : UsecRec(it, cmd, S), cmd, S)
  BY <1>3, Zenon
<1>5. SumRec(CHOOSE it : UsecRec(it, cmd, S), w, S)
  BY <1>2, <1>4
<1> QED
  BY <1>0, <1>1, <1>5, SumDefined DEF S

(* ... line by line, ...                                                    *)
TotalRec(it, cmd, seq) ==
  it = [s \in SUBSET DOMAIN seq |->
          IF s = {} THEN 0
          ELSE IF seq[Largest(s)].plain /\ cmd \in {seq[Largest(s)].cmd, seq[Largest(s)].of}
               THEN it[s \ {Largest(s)}] + seq[Largest(s)].usec ELSE it[s \ {Largest(s)}]]

(* ... and as extractTotalUsecForCommand adds it up, too.                   *)
LEMMA TotalIs ==
  ASSUME NEW s, NEW cmd, NEW S, s.commands \in Seq(S), \A c \in S : c.usec \in Nat, NEW w,
         \A i \in DOMAIN s.commands :
           w[i] = IF OfIt(s.commands[i], cmd) THEN s.commands[i].usec ELSE 0
  PROVE  extractTotalUsec(s, cmd) = SumOver(w, DOMAIN s.commands)
<1> DEFINE seq == s.commands
           D == DOMAIN seq
           step == [p \in Nat \X D |-> IF OfIt(seq[p[2]], cmd) THEN p[1] + seq[p[2]].usec ELSE p[1]]
<1>1. extractTotalUsec(s, cmd) = (CHOOSE it : TotalRec(it, cmd, seq))[D]
  BY DEF extractTotalUsec, FoldLeft, MapThenFoldSet, TotalRec, Largest, Max
<1>2. D \in SUBSET Nat /\ IsFiniteSet(D) /\ \A i \in D : seq[i].usec \in Nat
  BY IndicesAre, ElementOfSeq, LenProperties
<1>3. \A i \in D : w[i] \in Nat
  BY <1>2
<1>4. step \in [Nat \X D -> Nat]
  <2> HIDE DEF D
  <2>1. \A p \in Nat \X D : p[1] \in Nat /\ p[2] \in D
    OBVIOUS
  <2>2. \A p \in Nat \X D : (IF OfIt(seq[p[2]], cmd) THEN p[1] + seq[p[2]].usec ELSE p[1]) \in Nat
    <3> TAKE p \in Nat \X D
    <3> DEFINE n == p[1]
               u == seq[p[2]].usec
    <3>1. n \in Nat /\ u \in Nat
      BY <1>2, <2>1
    <3> HIDE DEF n, u
    <3>2. n + u \in Nat
      BY <3>1
    <3> QED
      BY <3>1, <3>2 DEF n, u
  <2> QED
    BY <2>2
<1>5. \A n \in Nat : \A i \in D : step[<<n, i>>] = IF OfIt(seq[i], cmd) THEN n + seq[i].usec ELSE n
  <2> HIDE DEF D
  <2> QED
    OBVIOUS
<1>6. \A i \in D : w[i] = IF OfIt(seq[i], cmd) THEN seq[i].usec ELSE 0
  OBVIOUS
<1> HIDE DEF step, D
<1>7. PICK it : Iterates(it, 0, step, D, Nat)
  <2>1. 0 \in Nat
    OBVIOUS
  <2> QED
    BY <1>2, <1>4, <2>1, FoldExists
<1>8. \A t \in SUBSET D : t # {} => Largest(t) \in t /\ t \in SUBSET Nat /\ IsFiniteSet(t)
  BY <1>2, FS_Subset, LargestIs
<1>9. it \in [SUBSET D -> Nat] /\ TotalRec(it, cmd, seq)
  <2>1. it \in [SUBSET D -> Nat]
        /\ \A t \in SUBSET D : it[t] = IF t = {} THEN 0 ELSE step[<<it[t \ {Largest(t)}], Largest(t)>>]
    BY <1>7 DEF Iterates, FoldStep
  <2>2. \A t \in SUBSET D : t # {} =>
          step[<<it[t \ {Largest(t)}], Largest(t)>>] =
            IF OfIt(seq[Largest(t)], cmd)
            THEN it[t \ {Largest(t)}] + seq[Largest(t)].usec ELSE it[t \ {Largest(t)}]
    BY <1>5, <1>8, <2>1
  <2> QED
    BY <2>1, <2>2 DEF TotalRec, OfIt, D
<1> DEFINE f == CHOOSE g : TotalRec(g, cmd, seq)
<1>10. TotalRec(f, cmd, seq)
  BY <1>9, Zenon
<1> HIDE DEF f
<1>11. /\ f[{}] = 0
       /\ \A t \in SUBSET D : t # {} =>
            f[t] = IF OfIt(seq[Largest(t)], cmd)
                   THEN f[t \ {Largest(t)}] + seq[Largest(t)].usec ELSE f[t \ {Largest(t)}]
  BY <1>10 DEF TotalRec, OfIt, D
<1> DEFINE P == {n \in Nat : \A t \in SUBSET D : Cardinality(t) <= n => f[t] = SumOver(w, t)}
<1>12. 0 \in P
  <2>1. \A t \in SUBSET D : Cardinality(t) <= 0 => t = {}
    BY <1>2, FS_Subset, NoneLeft
  <2> QED
    BY <1>11, <2>1, SumEmpty
<1>13. ASSUME NEW n \in P PROVE n + 1 \in P
  <2>1. ASSUME NEW t \in SUBSET D, Cardinality(t) <= n + 1, t # {}
        PROVE  f[t] = SumOver(w, t)
    <3> DEFINE l == Largest(t)
               r == t \ {l}
    <3>1. l \in t /\ IsFiniteSet(t)
      BY <1>8, <2>1
    <3>2. IsFiniteSet(r) /\ Cardinality(r) = Cardinality(t) - 1 /\ Cardinality(t) \in Nat
      BY <3>1, FS_RemoveElement, FS_CardinalityType
    <3>3. f[t] = IF OfIt(seq[l], cmd) THEN f[r] + seq[l].usec ELSE f[r]
      BY <1>11, <2>1
    <3> HIDE DEF l
    <3>4. r \in SUBSET D /\ l \in D /\ l \notin r /\ t = r \cup {l}
      BY <3>1
    <3> HIDE DEF r
    <3>5. Cardinality(r) <= n
      BY <2>1, <3>2
    <3>6. f[r] = SumOver(w, r)
      BY <3>4, <3>5
    <3>7. SumOver(w, r) \in Nat /\ SumOver(w, t) = w[l] + SumOver(w, r)
      BY <1>3, <3>2, <3>4, SumAdd, SumDefined
    <3>8. w[l] = (IF OfIt(seq[l], cmd) THEN seq[l].usec ELSE 0) /\ w[l] \in Nat
      BY <1>3, <1>6, <3>4
    <3> QED
      BY <3>3, <3>6, <3>7, <3>8
  <2>2. \A t \in SUBSET D : Cardinality(t) <= n + 1 => f[t] = SumOver(w, t)
    BY <1>11, <2>1, SumEmpty
  <2> QED
    BY <2>2
<1>14. Cardinality(D) \in P
  <2> HIDE DEF P
  <2>1. P \in SUBSET Nat
    BY DEF P
  <2>2. Cardinality(D) \in Nat
    BY <1>2, FS_CardinalityType
  <2> QED
    BY <1>12, <1>13, <2>1, <2>2, NumberInduction
<1>15. f[D] = SumOver(w, D)
  BY <1>14
<1> QED
  BY <1>1, <1>15 DEF f, D

(* ... is that of INFO's lines, which name a command once.                   *)
LEMMA TotalIsUsec ==
  ASSUME NEW s, ServerTypes(s), Consistent(s), NEW cmd
  PROVE  extractTotalUsec(s, cmd) = Usec(s, cmd)
<1> DEFINE seq == s.commands
           D == DOMAIN seq
           Cost(c) == IF OfIt(c, cmd) THEN c.usec ELSE 0
           w == [i \in D |-> Cost(seq[i])]
           v == [c \in ToSet(seq) |-> Cost(c)]
           h == [i \in D |-> seq[i]]
           T == [cmd : STRING, of : STRING, plain : BOOLEAN, calls : Nat, usec : Nat,
                 rejected : Nat, slow : Nat \cup {-1}, fields : Nat]
<1>1. seq \in Seq(T)
  BY DEF ServerTypes
<1>2. /\ \A c \in T : c.usec \in Nat
      /\ ToSet(seq) \subseteq T /\ IsFiniteSet(ToSet(seq)) /\ IsFiniteSet(D)
      /\ \A i \in D : seq[i] \in T /\ seq[i] \in ToSet(seq)
  BY <1>1, ToSetType, ToSetCardinality, IndicesAre
<1>3. extractTotalUsec(s, cmd) = SumOver(w, D)
  <2>1. \A i \in D : w[i] = IF OfIt(seq[i], cmd) THEN seq[i].usec ELSE 0
    OBVIOUS
  <2> HIDE DEF w, T
  <2> QED
    BY <1>1, <1>2, <2>1, TotalIs
<1>4. Usec(s, cmd) = SumOver(v, ToSet(seq))
  <2>1. \A c \in ToSet(seq) : v[c] \in Nat /\ v[c] = IF OfIt(c, cmd) THEN c.usec ELSE 0
    BY <1>2
  <2> HIDE DEF v
  <2> QED
    BY <1>2, <2>1, UsecIs
<1>5. {h[i] : i \in D} = ToSet(seq)
  BY DEF ToSet
<1>6. \A i, j \in D : h[i] = h[j] => i = j
  BY DEF Consistent
<1>7. \A i \in D : w[i] \in Nat /\ v[h[i]] = w[i]
  BY <1>2
<1> HIDE DEF v, w, h, D
<1> DEFINE A == ToSet(seq)
<1>8. A = {h[i] : i \in D}
  BY <1>5
<1>9. IsFiniteSet(D)
  BY <1>2
<1>10. SumOver(v, A) = SumOver(w, D)
  <2> HIDE DEF A
  <2> QED
    BY <1>6, <1>7, <1>8, <1>9, SumImage
<1> QED
  BY <1>3, <1>4, <1>10 DEF D

(* ... the latencies, ...                                                   *)
LEMMA LatencyGrows ==
  ASSUME Fit(exporter), RoleTold, server \in Servers, Latency
  PROVE  Grows(PromisedLatency(server))
<1> DEFINE spikes == Answer(server.spikes)
           hs == Answer(server.histograms)
           ends == {i \in DOMAIN hs : ~ hs[i].whole}
           seq == Before(hs, ends)
           OfEvent(metric, l, v) == Told(server, metric, <<"event_name">>, <<l.event>>, v)
           OfTimed(h, v) == Told(server, "commands_latencies_usec", <<"cmd">>, <<h.cmd>>, v)
           S == [event : STRING, last : Nat, ms : Nat]
           H == [cmd : STRING, calls : Nat, whole : BOOLEAN]
           spike == [l \in ToSet(spikes) |->
                       {OfEvent("latency_spike_last", l, l.last)}
                       \cup {OfEvent("latency_spike_duration_seconds", l, l.ms \div 1000)}]
           timed == [h \in ToSet(seq) |->
                       {CountTold(OfTimed(h, h.calls)), SumTold(OfTimed(h, Usec(server, h.cmd)))}]
           x == FoldLeft(Spike, exporter, spikes)
           y == FoldLeft(Histogram, x, seq)
<1>1. spikes \in Seq(S) /\ hs \in Seq(H)
  BY ServersAre, AnswersAre DEF ServerTypes
<1>2. /\ seq \in Seq(H)
      /\ ToSet(seq) = {hs[i] : i \in {j \in DOMAIN hs : \A k \in 1 .. j : k \notin ends}}
  <2> DEFINE r == hs
             e == ends
  <2>1. e \in SUBSET DOMAIN r /\ r \in Seq(H)
    BY <1>1
  <2> HIDE DEF r, e
  <2>2. /\ Before(r, e) \in Seq(H)
        /\ ToSet(Before(r, e)) = {r[i] : i \in {j \in DOMAIN r : \A k \in 1 .. j : k \notin e}}
    BY <2>1, BeforeIs
  <2> QED
    BY <2>2 DEF r, e
<1>3. ASSUME NEW z, NEW l \in ToSet(spikes) PROVE Adds(z, Spike(z, l), spike[l])
  <2> DEFINE w == Gauge(z, "latency_spike_last", l.last, <<l.event>>)
             A == {OfEvent("latency_spike_last", l, l.last)}
             B(n) == {OfEvent("latency_spike_duration_seconds", l, n)}
             u(n) == Gauge(w, "latency_spike_duration_seconds", n, <<l.event>>)
             ms == l.ms \div 1000
  <2>1. Adds(z, w, A)
    BY GroupTells DEF BySpike
  <2>2. \A n : Adds(w, u(n), B(n))
    BY GroupTells DEF BySpike
  <2>3. Spike(z, l) = u(ms) /\ spike[l] = A \cup B(ms)
    BY DEF Spike
  <2> HIDE DEF w, A, B, u, ms, spike
  <2> QED
    BY <2>1, <2>2, <2>3, AddsThen
<1>4. Adds(exporter, x, All(spike, ToSet(spikes)))
  <2> HIDE DEF spike, spikes
  <2> QED
    BY <1>1, <1>3, SpikesAdd
<1>5. ASSUME NEW z, NEW h \in ToSet(seq) PROVE Adds(z, Histogram(z, h), timed[h])
  <2> DEFINE m == "commands_latencies_usec"
             n == Usec(server, h.cmd)
             w == Histogram(z, h)
  <2>1. extractTotalUsec(server, h.cmd) = n
    BY ServersAre, TotalIsUsec
  <2>2. m \in ByCommand
    BY DEF ByCommand
  <2>3. w = registerConstSummary(createMetricDescription(z, m, <<"cmd">>), m, h.calls, n, <<h.cmd>>)
    BY <2>1 DEF Histogram, registerConstHistogram
  <2>4. timed[h] = {CountTold(Told(server, m, <<"cmd">>, <<h.cmd>>, h.calls)),
                    SumTold(Told(server, m, <<"cmd">>, <<h.cmd>>, n))}
    OBVIOUS
  <2> HIDE DEF timed, n, m, w
  <2>5. Adds(z, w, timed[h])
    BY <2>2, <2>3, <2>4, SummaryTells
  <2> QED
    BY <2>5 DEF w
<1>6. Adds(x, y, All(timed, ToSet(seq)))
  <2> HIDE DEF timed, seq, x
  <2> QED
    BY <1>2, <1>5, HistogramsAdd
<1>7. ToSet(seq) = {hs[i] : i \in {j \in DOMAIN hs : \A k \in 1 .. j : hs[k].whole}}
  <2>1. Len(hs) \in Nat /\ DOMAIN hs = 1 .. Len(hs)
    BY <1>1, LenProperties
  <2>2. \A j \in DOMAIN hs : \A k \in 1 .. j : k \in DOMAIN hs
    BY <2>1
  <2>3. {j \in DOMAIN hs : \A k \in 1 .. j : k \notin ends} =
          {j \in DOMAIN hs : \A k \in 1 .. j : hs[k].whole}
    BY <2>2
  <2> HIDE DEF hs, ends, seq
  <2> QED
    BY <1>2, <2>3
<1>8. All(spike, ToSet(spikes)) =
        {OfEvent("latency_spike_last", l, l.last) : l \in ToSet(spikes)}
        \cup {OfEvent("latency_spike_duration_seconds", l, l.ms \div 1000) : l \in ToSet(spikes)}
  <2> HIDE DEF spikes, OfEvent
  <2> QED
    BY DEF All
<1>9. All(timed, ToSet(seq)) =
        {CountTold(OfTimed(h, h.calls)) : h \in ToSet(seq)}
        \cup {SumTold(OfTimed(h, Usec(server, h.cmd))) : h \in ToSet(seq)}
  <2> HIDE DEF seq, OfTimed
  <2> QED
    BY DEF All
<1>10. PromisedLatency(server) = All(spike, ToSet(spikes)) \cup All(timed, ToSet(seq))
  <2> DEFINE T == {hs[i] : i \in {j \in DOMAIN hs : \A k \in 1 .. j : hs[k].whole}}
  <2>1. PromisedLatency(server) =
          {OfEvent("latency_spike_last", l, l.last) : l \in ToSet(spikes)}
          \cup {OfEvent("latency_spike_duration_seconds", l, l.ms \div 1000) : l \in ToSet(spikes)}
          \cup {CountTold(OfTimed(h, h.calls)) : h \in T}
          \cup {SumTold(OfTimed(h, Usec(server, h.cmd))) : h \in T}
    BY DEF PromisedLatency
  <2>2. T = ToSet(seq)
    BY <1>7
  <2> HIDE DEF T, seq, spikes, OfEvent, OfTimed, spike, timed
  <2> QED
    BY <1>8, <1>9, <2>1, <2>2
<1>11. Becomes(y)
  BY DEF Latency
<1> HIDE DEF spike, timed, x, y
<1>12. Adds(exporter, y, PromisedLatency(server))
  BY <1>4, <1>6, <1>10, AddsThen
<1> QED
  BY <1>11, <1>12, BecomesGrows

(* As many Sentinels and replicas are up as there are that are.             *)
LEMMA CountUpIs ==
  ASSUME NEW reply \in Maybe(Peers), Injective(Answer(reply))
  PROVE  CountUp(reply) = Cardinality(KnownUp(reply)) /\ CountUp(reply) \in Nat
<1> DEFINE seq == Answer(reply)
           I == {i \in DOMAIN seq : Up(seq[i].flags)}
           K == {p \in ToSet(seq) : Up(p.flags)}
           f == [i \in I |-> seq[i]]
<1>1. seq \in Seq([name : STRING, flags : SUBSET STRING])
  BY AnswersAre DEF Peers
<1>2. IsFiniteSet(I)
  <2>1. IsFiniteSet(DOMAIN seq)
    BY <1>1, IndicesAre
  <2> QED
    BY <2>1, FS_Subset
<1>3. f \in [I -> K] /\ (\A i, j \in I : f[i] = f[j] => i = j) /\ \A p \in K : \E i \in I : f[i] = p
  BY DEF ToSet, Injective
<1>4. f \in Bijection(I, K)
  <2> HIDE DEF f, I, K
  <2> QED
    BY <1>3, Fun_IsBij
<1>5. ExistsBijection(I, K)
  BY <1>4, Fun_ExistsBij
<1>6. Cardinality(K) = Cardinality(I) /\ Cardinality(I) \in Nat
  BY <1>2, <1>5, FS_Bijection, FS_CardinalityType
<1> QED
  BY <1>6 DEF CountUp, KnownUp

(* ... a master of a Sentinel, ...                                          *)
LEMMA SentinelMasterGrows ==
  ASSUME Fit(exporter), RoleTold, server \in Servers, at \in Nat \ {0}, SentinelMaster
  PROVE  Grows(PromisedMaster(server, server.watched[at]))
<1> DEFINE m == server.watched[at]
           W == [name : STRING, address : STRING, status : STRING, slaves : Nat, quorum : Nat,
                 ckquorum : Maybe(STRING), sentinels : Maybe(Peers), replicas : Maybe(Peers)]
           ok == IF m.ckquorum = Denied THEN 0 ELSE 1
           text == IF m.ckquorum = Denied THEN "NOQUORUM" ELSE m.ckquorum
           ps == Answer(m.sentinels)
           n == 1 + CountUp(m.sentinels)
           r == CountUp(m.replicas)
           Quorum(x, v, t) == Gauge(x, "sentinel_master_ckquorum_status", v, <<m.name, t>>)
           Of(x, metric, v) == Gauge(x, metric, v, <<m.name, m.address>>)
           x1 == Quorum(exporter, ok, text)
           x2 == Of(x1, "sentinel_master_setting_ckquorum", m.quorum)
           x3 == PeersTold(x2, m, ps)
           x4 == Of(x3, "sentinel_master_ok_sentinels", n)
           x5 == Of(x4, "sentinel_master_ok_slaves", r)
           TheQuorum(v, t) == {Told(server, "sentinel_master_ckquorum_status",
                                    <<"master_name", "message">>, <<m.name, t>>, v)}
           Its(metric, v) == {OfWatched(server, metric, m, v)}
           peer == [p \in ToSet(ps) |->
                      IF InclSentinelPeerInfo
                      THEN {Told(server, "sentinel_peer_info",
                                 <<"master_name", "master_address", "name">>,
                                 <<m.name, m.address, p.name>>, 1)}
                      ELSE {}]
           A1 == TheQuorum(ok, text)
           A2 == Its("sentinel_master_setting_ckquorum", m.quorum)
           A3 == All(peer, ToSet(ps))
           A4 == Its("sentinel_master_ok_sentinels", n)
           A5 == Its("sentinel_master_ok_slaves", r)
           P == PromisedMaster(server, m)
<1>1. server.watched \in Seq(W) /\ at \in DOMAIN server.watched
  <2>1. server.watched \in Seq(W)
    BY ServersAre DEF ServerTypes
  <2>2. at <= Len(server.watched)
    BY DEF SentinelMaster
  <2> QED
    BY <2>1, <2>2, LenProperties
<1>2. m \in W /\ Injective(Answer(m.sentinels)) /\ Injective(Answer(m.replicas))
  <2>1. m \in W
    BY <1>1, ElementOfSeq, LenProperties
  <2> QED
    BY <1>1, <2>1, ServersAre DEF Consistent
<1>3. m.sentinels \in Maybe(Peers) /\ m.replicas \in Maybe(Peers)
  BY <1>2
<1>4. ps \in Seq([name : STRING, flags : SUBSET STRING])
  BY <1>3, AnswersAre DEF Peers
<1>5. Adds(exporter, x1, A1)
  <2>1. \A v, t : Adds(exporter, Quorum(exporter, v, t), TheQuorum(v, t))
    BY SingleTells
  <2> HIDE DEF Quorum, TheQuorum, ok, text
  <2> QED
    BY <2>1
<1>6. \A x, metric, v : metric \in ByWatched => Adds(x, Of(x, metric, v), Its(metric, v))
  BY GroupTells DEF OfWatched
<1>7. Adds(x1, x2, A2) /\ Adds(x3, x4, A4) /\ Adds(x4, x5, A5)
  <2>1. {"sentinel_master_setting_ckquorum", "sentinel_master_ok_sentinels",
         "sentinel_master_ok_slaves"} \subseteq ByWatched
    BY DEF ByWatched
  <2> HIDE DEF Of, Its, x1, x3, n, r, m
  <2>2. Adds(x1, x2, A2)
    BY <1>6, <2>1
  <2>3. Adds(x3, x4, A4)
    BY <1>6, <2>1
  <2>4. Adds(x4, x5, A5)
    BY <1>6, <2>1
  <2> QED
    BY <2>2, <2>3, <2>4
<1>8. ASSUME NEW z, NEW p \in ToSet(ps) PROVE Adds(z, PeerInfo(z, m, p), peer[p])
  <2>1. \A a, b, c : Adds(z, Gauge(z, "sentinel_peer_info", 1, <<a, b, c>>),
                         {Told(server, "sentinel_peer_info",
                               <<"master_name", "master_address", "name">>, <<a, b, c>>, 1)})
    BY SingleTells
  <2>2. Adds(z, Gauge(z, "sentinel_peer_info", 1, <<m.name, m.address, p.name>>),
             {Told(server, "sentinel_peer_info", <<"master_name", "master_address", "name">>,
                   <<m.name, m.address, p.name>>, 1)})
    BY <2>1
  <2> QED
    BY <2>2, AddsNone DEF PeerInfo
<1>9. Adds(x2, x3, A3)
  <2> HIDE DEF peer, ps, x2, m
  <2>1. \A z : \A p \in ToSet(ps) : Adds(z, PeerInfo(z, m, p), peer[p])
    BY <1>8
  <2> QED
    BY <1>4, <2>1, PeersAdd
<1>10. P = A1 \cup A2 \cup A3 \cup A4 \cup A5
  <2>1. A3 = {Told(server, "sentinel_peer_info", <<"master_name", "master_address", "name">>,
                   <<m.name, m.address, p.name>>, 1) :
                p \in IF InclSentinelPeerInfo THEN ToSet(ps) ELSE {}}
    <3> HIDE DEF m, ps
    <3> QED
      BY DEF All
  <2>2. n = Cardinality(KnownUp(m.sentinels)) + 1 /\ r = Cardinality(KnownUp(m.replicas))
    <3>1. CountUp(m.sentinels) \in Nat /\ CountUp(m.sentinels) = Cardinality(KnownUp(m.sentinels))
          /\ r = Cardinality(KnownUp(m.replicas))
      BY <1>2, <1>3, CountUpIs
    <3> QED
      BY <3>1
  <2>3. A4 = {OfWatched(server, "sentinel_master_ok_sentinels", m, Cardinality(KnownUp(m.sentinels)) + 1)}
        /\ A5 = {OfWatched(server, "sentinel_master_ok_slaves", m, Cardinality(KnownUp(m.replicas)))}
    BY <2>2
  <2> HIDE DEF A3, A4, A5, m, ok, text, n, r
  <2>4. P = {Told(server, "sentinel_master_ckquorum_status", <<"master_name", "message">>,
                  <<m.name, text>>, ok),
             OfWatched(server, "sentinel_master_setting_ckquorum", m, m.quorum),
             OfWatched(server, "sentinel_master_ok_sentinels", m, Cardinality(KnownUp(m.sentinels)) + 1),
             OfWatched(server, "sentinel_master_ok_slaves", m, Cardinality(KnownUp(m.replicas)))}
            \cup A3
    BY <2>1 DEF PromisedMaster, ok, text
  <2> HIDE DEF P
  <2> QED
    BY <2>3, <2>4
<1>11. Becomes(x5)
  BY DEF SentinelMaster, PeersTold
<1> HIDE DEF x1, x2, x3, x4, x5, A1, A2, A3, A4, A5, P
<1>12. Adds(exporter, x2, A1 \cup A2)
  BY <1>5, <1>7, AddsThen
<1>13. Adds(exporter, x3, A1 \cup A2 \cup A3)
  BY <1>9, <1>12, AddsThen
<1>14. Adds(exporter, x4, A1 \cup A2 \cup A3 \cup A4)
  BY <1>7, <1>13, AddsThen
<1>15. Adds(exporter, x5, P)
  BY <1>7, <1>10, <1>14, AddsThen
<1> QED
  BY <1>11, <1>15, BecomesGrows DEF P

(* ... the settings of a Sentinel, ...                                      *)
LEMMA SentinelOverGrows ==
  ASSUME Fit(exporter), RoleTold, server \in Servers, SentinelOver
  PROVE  Grows(PromisedSettings(server))
<1> DEFINE cfg == server.sentinelConfig
           seq == SetToSeq(DOMAIN cfg)
           part == [k \in DOMAIN cfg |->
                      {Told(server, "sentinel_config_key_value", <<"key", "value">>, <<k, cfg[k]>>, 1)}
                      \cup IF IsNumber(cfg[k])
                           THEN {Told(server, "sentinel_config_value", <<"key">>, <<k>>, Number[cfg[k]])}
                           ELSE {}]
           y == FoldLeft(SentinelSetting, exporter, seq)
           A == All(part, DOMAIN cfg)
<1>1. CASE ~ InclConfigMetrics \/ cfg = Denied
  <2>1. PromisedSettings(server) = {}
    BY <1>1 DEF PromisedSettings
  <2>2. Becomes(exporter)
    BY <1>1 DEF SentinelOver
  <2> QED
    BY <2>1, <2>2, SameGrows
<1>2. CASE InclConfigMetrics /\ cfg # Denied
  <2>1. seq \in Seq(DOMAIN cfg) /\ ToSet(seq) = DOMAIN cfg
    <3>1. IsFiniteSet(DOMAIN cfg)
      BY <1>2, ServersAre DEF ServerTypes, IsMap
    <3> QED
      BY <3>1, SetToSeqLists
  <2>2. ASSUME NEW z, NEW k \in DOMAIN cfg PROVE Adds(z, SentinelSetting(z, k), part[k])
    <3> DEFINE w == Gauge(z, "sentinel_config_key_value", 1, <<k, cfg[k]>>)
               u == Gauge(w, "sentinel_config_value", Number[cfg[k]], <<k>>)
               B == {Told(server, "sentinel_config_key_value", <<"key", "value">>, <<k, cfg[k]>>, 1)}
               C == {Told(server, "sentinel_config_value", <<"key">>, <<k>>, Number[cfg[k]])}
    <3>1. Adds(z, w, B) /\ Adds(w, u, C)
      BY GroupTells DEF BySetting, ByNumber
    <3>2. SentinelSetting(z, k) = (IF IsNumber(cfg[k]) THEN u ELSE w)
      BY DEF SentinelSetting
    <3>3. part[k] = IF IsNumber(cfg[k]) THEN B \cup C ELSE B
      OBVIOUS
    <3> HIDE DEF w, u, B, C, part
    <3> QED
      BY <3>1, <3>2, <3>3, AddsThen
  <2>3. Adds(exporter, y, A)
    <3> HIDE DEF part, seq
    <3> QED
      BY <2>1, <2>2, SentinelSettingsAdd
  <2>4. A = PromisedSettings(server)
    <3> DEFINE B == {Told(server, "sentinel_config_key_value", <<"key", "value">>, <<k, cfg[k]>>, 1) :
                       k \in DOMAIN cfg}
               C == {Told(server, "sentinel_config_value", <<"key">>, <<k>>, Number[cfg[k]]) :
                       k \in {n \in DOMAIN cfg : IsNumber(cfg[n])}}
    <3>1. PromisedSettings(server) = B \cup C
      BY <1>2 DEF PromisedSettings
    <3>2. ASSUME NEW k \in DOMAIN cfg PROVE part[k] \subseteq B \cup C
      OBVIOUS
    <3>3. A \subseteq B \cup C
      <4> HIDE DEF B, C, part
      <4> QED
        BY <3>2 DEF All
    <3>4. B \subseteq A
      BY DEF All
    <3>5. C \subseteq A
      <4>1. ASSUME NEW k \in DOMAIN cfg, IsNumber(cfg[k])
            PROVE  Told(server, "sentinel_config_value", <<"key">>, <<k>>, Number[cfg[k]]) \in part[k]
        BY <4>1
      <4> HIDE DEF part
      <4>2. ASSUME NEW k \in DOMAIN cfg, IsNumber(cfg[k])
            PROVE  Told(server, "sentinel_config_value", <<"key">>, <<k>>, Number[cfg[k]]) \in A
        BY <4>1, <4>2 DEF All
      <4> HIDE DEF A
      <4> QED
        BY <4>2
    <3> QED
      BY <3>1, <3>3, <3>4, <3>5
  <2>5. Becomes(y)
    BY <1>2 DEF SentinelOver
  <2> QED
    BY <2>3, <2>4, <2>5, BecomesGrows
<1> QED
  BY <1>1, <1>2

(* Each label has the value that a function gives it.                       *)
Matches(labels, values, g) ==
  /\ IsList(labels) /\ IsList(values) /\ Len(labels) = Len(values)
  /\ \A i \in 1 .. Len(labels) : values[i] = g[labels[i]]

(* Lists one after the other.                                               *)
LEMMA ListsAre ==
  ASSUME NEW s, IsList(s), NEW t, IsList(t)
  PROVE  /\ IsList(s \o t) /\ Len(s) \in Nat /\ Len(t) \in Nat /\ Len(s \o t) = Len(s) + Len(t)
         /\ DOMAIN s = 1 .. Len(s) /\ DOMAIN t = 1 .. Len(t)
         /\ \A i \in 1 .. Len(s) + Len(t) : (s \o t)[i] = IF i <= Len(s) THEN s[i] ELSE t[i - Len(s)]
         /\ ToSet(s \o t) = ToSet(s) \cup ToSet(t)
         /\ s \o t = <<>> => s = <<>>
<1>1. PICK S, T : s \in Seq(S) /\ t \in Seq(T)
  BY DEF IsList
<1>2. s \in Seq(S \cup T) /\ t \in Seq(S \cup T)
  BY <1>1, SeqGrows
<1>3. /\ s \o t \in Seq(S \cup T) /\ Len(s) \in Nat /\ Len(t) \in Nat
      /\ Len(s \o t) = Len(s) + Len(t)
      /\ \A i \in 1 .. Len(s) + Len(t) : (s \o t)[i] = IF i <= Len(s) THEN s[i] ELSE t[i - Len(s)]
  BY <1>2, ConcatProperties, LenProperties
<1>4. DOMAIN s = 1 .. Len(s) /\ DOMAIN t = 1 .. Len(t)
  BY <1>2, LenProperties
<1>5. ToSet(s \o t) = ToSet(s) \cup ToSet(t)
  BY <1>2, ToSetConcat
<1>6. s \o t = <<>> => s = <<>>
  <2>1. s \o t = <<>> => Len(s) = 0
    BY <1>3
  <2> QED
    BY <1>2, <2>1, EmptySeq
<1> QED
  BY <1>3, <1>4, <1>5, <1>6 DEF IsList

(* Labels and values that match, one after the other, ...                   *)
LEMMA MatchesMore ==
  ASSUME NEW g, NEW a, NEW b, NEW c, NEW d, Matches(a, b, g), Matches(c, d, g)
  PROVE  Matches(a \o c, b \o d, g)
<1>1. /\ IsList(a \o c) /\ Len(a) \in Nat /\ Len(c) \in Nat /\ Len(a \o c) = Len(a) + Len(c)
      /\ \A i \in 1 .. Len(a) + Len(c) : (a \o c)[i] = IF i <= Len(a) THEN a[i] ELSE c[i - Len(a)]
  BY ListsAre DEF Matches
<1>2. /\ IsList(b \o d) /\ Len(b \o d) = Len(a) + Len(c)
      /\ \A i \in 1 .. Len(a) + Len(c) : (b \o d)[i] = IF i <= Len(a) THEN b[i] ELSE d[i - Len(a)]
  BY ListsAre DEF Matches
<1>3. ASSUME NEW i \in 1 .. Len(a) + Len(c) PROVE (b \o d)[i] = g[(a \o c)[i]]
  <2>1. CASE i <= Len(a)
    <3>1. i \in 1 .. Len(a)
      BY <1>1, <2>1
    <3> QED
      BY <1>1, <1>2, <2>1, <3>1 DEF Matches
  <2>2. CASE ~ (i <= Len(a))
    <3>1. i - Len(a) \in 1 .. Len(c)
      BY <1>1, <2>2
    <3> QED
      BY <1>1, <1>2, <2>2, <3>1 DEF Matches
  <2> QED
    BY <2>1, <2>2
<1> QED
  BY <1>1, <1>2, <1>3 DEF Matches

(* ... the shortest ones, ...                                               *)
LEMMA MatchesOne ==
  /\ \A g : Matches(<<>>, <<>>, g)
  /\ \A g, l : Matches(<<l>>, <<g[l]>>, g)
  /\ \A g, k, l : Matches(<<k, l>>, <<g[k], g[l]>>, g)
<1>1. \A g : Matches(<<>>, <<>>, g)
  BY TuplesListed, TuplesAre DEF Matches
<1>2. ASSUME NEW g, NEW l PROVE Matches(<<l>>, <<g[l]>>, g)
  <2> DEFINE a == <<l>>
             b == <<g[l]>>
  <2>1. IsList(a) /\ IsList(b) /\ Len(a) = 1 /\ Len(b) = 1
    BY TuplesListed, TuplesAre
  <2>2. a[1] = l /\ b[1] = g[l]
    OBVIOUS
  <2> HIDE DEF a, b
  <2>3. Matches(a, b, g)
    BY <2>1, <2>2 DEF Matches
  <2> QED
    BY <2>3 DEF a, b
<1>3. ASSUME NEW g, NEW k, NEW l PROVE Matches(<<k, l>>, <<g[k], g[l]>>, g)
  <2> DEFINE a == <<k, l>>
             b == <<g[k], g[l]>>
  <2>1. IsList(a) /\ IsList(b) /\ Len(a) = 2 /\ Len(b) = 2
    BY TuplesListed, TuplesAre
  <2>2. a[1] = k /\ b[1] = g[k] /\ a[2] = l /\ b[2] = g[l]
    OBVIOUS
  <2> HIDE DEF a, b
  <2>3. Matches(a, b, g)
    BY <2>1, <2>2 DEF Matches
  <2> QED
    BY <2>3 DEF a, b
<1> QED
  BY <1>1, <1>2, <1>3

(* The labels are then paired with those values.                            *)
LEMMA PairedIs ==
  ASSUME NEW labels, NEW values, NEW g, Matches(labels, values, g)
  PROVE  Paired(labels, values) = [l \in ToSet(labels) |-> g[l]]
<1>1. DOMAIN labels = 1 .. Len(labels)
  BY ListsAre DEF Matches
<1>2. ASSUME NEW l \in ToSet(labels)
      PROVE  values[CHOOSE i \in DOMAIN labels : labels[i] = l] = g[l]
  <2>1. \E i \in DOMAIN labels : labels[i] = l
    BY DEF ToSet
  <2> DEFINE i == CHOOSE i \in DOMAIN labels : labels[i] = l
  <2>2. i \in DOMAIN labels /\ labels[i] = l
    BY <2>1
  <2> HIDE DEF i
  <2>3. values[i] = g[l]
    BY <1>1, <2>2 DEF Matches
  <2> QED
    BY <2>3 DEF i
<1> QED
  BY <1>2 DEF Paired

(* ... and with the role.                                                   *)
LEMMA MatchesRole ==
  ASSUME NEW labels, NEW values, NEW g, Matches(labels, values, g), NEW metric, NEW role
  PROVE  /\ g["instance_role"] = role =>
              Matches(WithRole(metric, labels, "instance_role"), WithRole(metric, values, role), g)
         /\ IsList(WithRole(metric, labels, "instance_role"))
         /\ ToSet(WithRole(metric, labels, "instance_role")) =
              ToSet(labels) \cup (IF appendRole /\ metric \notin Roleless THEN {"instance_role"} ELSE {})
<1>1. \A e, s : IsList(s) => Append(s, e) = s \o <<e>>
  BY AppendIsConcat, SeqGrows DEF IsList
<1>2. IsList(labels) /\ IsList(values)
  BY DEF Matches
<1>3. CASE ~ (appendRole /\ metric \notin Roleless)
  BY <1>2, <1>3 DEF WithRole
<1>4. CASE appendRole /\ metric \notin Roleless
  <2>1. /\ WithRole(metric, labels, "instance_role") = labels \o <<"instance_role">>
        /\ WithRole(metric, values, role) = values \o <<role>>
    BY <1>1, <1>2, <1>4 DEF WithRole
  <2>2. g["instance_role"] = role => Matches(<<"instance_role">>, <<role>>, g)
    BY MatchesOne
  <2>3. IsList(<<"instance_role">>) /\ ToSet(<<"instance_role">>) = {"instance_role"}
    BY TuplesListed DEF ToSet
  <2>4. g["instance_role"] = role => Matches(labels \o <<"instance_role">>, values \o <<role>>, g)
    BY <2>2, MatchesMore
  <2>5. /\ IsList(labels \o <<"instance_role">>)
        /\ ToSet(labels \o <<"instance_role">>) = ToSet(labels) \cup {"instance_role"}
    BY <1>2, <2>3, ListsAre
  <2> QED
    BY <1>4, <2>1, <2>4, <2>5
<1> QED
  BY <1>3, <1>4

(* What a client's line tells.                                              *)
ClientLabelsOf(c) ==
  {"id", "name"} \cup (IF ExportClientsInclPort THEN {"port"} ELSE {})
  \cup ({l \in {"user", "resp"} : c[l] # ""})
  \cup (IF appendRole THEN {"instance_role"} ELSE {})

ClientInfo(s, c) ==
  [metric |-> "connected_client_info", value |-> 1,
   labels |-> [l \in ClientLabelsOf(c) |-> IF l = "instance_role" THEN s.role ELSE c[l]]]

OfClient(s, metric, c, v) == Told(s, metric, <<"id", "name">>, <<c.id, c.name>>, v)

ClientPart(s, c) ==
  {ClientInfo(s, c)}
  \cup {OfClient(s, "connected_client_created_at_timestamp", c, Now - c.age)}
  \cup (IF c.events = -1 THEN {}
        ELSE {OfClient(s, "connected_client_read_events_total", c, c.events)})
  \cup (IF c.ssub = -1 THEN {}
        ELSE {OfClient(s, "connected_client_shard_channel_subscriptions_count", c, c.ssub)})

ClientType == [wellFormed : BOOLEAN, id : STRING, name : STRING, user : STRING, resp : STRING,
               port : STRING, age : Nat, ssub : Nat \cup {-1}, events : Nat \cup {-1}]

(* The labels of a client are those its line has.                           *)
LEMMA ClientLabelled ==
  ASSUME NEW s, NEW c \in ClientType
  PROVE  /\ Told(s, "connected_client_info", InfoLabels(c), InfoValues(c), 1) = ClientInfo(s, c)
         /\ IsList(InfoLabels(c)) /\ IsList(InfoValues(c)) /\ Len(InfoLabels(c)) = Len(InfoValues(c))
         /\ InfoLabels(c) # <<>> /\ InfoValues(c) # <<>>
         /\ WithRole("connected_client_info", InfoLabels(c), "instance_role") # <<>>
<1> DEFINE m == "connected_client_info"
           All5 == {"id", "name", "port", "user", "resp"}
           g == [l \in All5 \cup {"instance_role"} |-> IF l = "instance_role" THEN s.role ELSE c[l]]
           base == <<"id", "name">>
           port == IF ExportClientsInclPort THEN <<"port">> ELSE <<>>
           user == IF c.user # "" THEN <<"user">> ELSE <<>>
           resp == IF c.resp # "" THEN <<"resp">> ELSE <<>>
           base1 == <<c.id, c.name>>
           port1 == IF ExportClientsInclPort THEN <<c.port>> ELSE <<>>
           user1 == IF c.user # "" THEN <<c.user>> ELSE <<>>
           resp1 == IF c.resp # "" THEN <<c.resp>> ELSE <<>>
           labels == InfoLabels(c)
           values == InfoValues(c)
           all == WithRole(m, labels, "instance_role")
           told == WithRole(m, values, s.role)
<1>1. /\ g["id"] = c.id /\ g["name"] = c.name /\ g["port"] = c.port /\ g["user"] = c.user
      /\ g["resp"] = c.resp /\ g["instance_role"] = s.role
  OBVIOUS
<1>2. labels = ((base \o port) \o user) \o resp /\ values = ((base1 \o port1) \o user1) \o resp1
  BY DEF InfoLabels, InfoValues
<1>3. /\ ToSet(base) = {"id", "name"} /\ ToSet(port) = (IF ExportClientsInclPort THEN {"port"} ELSE {})
      /\ ToSet(user) = (IF c.user # "" THEN {"user"} ELSE {})
      /\ ToSet(resp) = (IF c.resp # "" THEN {"resp"} ELSE {})
  <2>1. \A a : ToSet(<<a>>) = {a}
    BY DEF ToSet
  <2>2. \A a, b : ToSet(<<a, b>>) = {a, b}
    BY DEF ToSet
  <2> QED
    BY <2>1, <2>2, ToSetEmpty
<1>4. base # <<>> /\ base1 # <<>>
  OBVIOUS
<1> HIDE DEF g
<1>5. Matches(base, base1, g)
  BY <1>1, MatchesOne
<1>6. Matches(port, port1, g)
  BY <1>1, MatchesOne
<1>7. Matches(user, user1, g)
  BY <1>1, MatchesOne
<1>8. Matches(resp, resp1, g)
  BY <1>1, MatchesOne
<1> HIDE DEF base, port, user, resp, base1, port1, user1, resp1, labels, values
<1> DEFINE p == base \o port
           p1 == base1 \o port1
           q == p \o user
           q1 == p1 \o user1
<1>9. Matches(p, p1, g) /\ p # <<>> /\ p1 # <<>> /\ ToSet(p) = ToSet(base) \cup ToSet(port)
  <2>1. Matches(p, p1, g)
    BY <1>5, <1>6, MatchesMore
  <2> QED
    BY <1>4, <1>5, <1>6, <2>1, ListsAre DEF Matches
<1> HIDE DEF p, p1
<1>10. Matches(q, q1, g) /\ q # <<>> /\ q1 # <<>> /\ ToSet(q) = ToSet(p) \cup ToSet(user)
  <2>1. Matches(q, q1, g)
    BY <1>7, <1>9, MatchesMore
  <2> QED
    BY <1>7, <1>9, <2>1, ListsAre DEF Matches
<1>11. labels = q \o resp /\ values = q1 \o resp1
  BY <1>2 DEF p, p1
<1> HIDE DEF q, q1
<1>12. Matches(labels, values, g)
  BY <1>8, <1>10, <1>11, MatchesMore
<1>13. labels # <<>> /\ values # <<>> /\ ToSet(labels) = ToSet(q) \cup ToSet(resp)
  BY <1>8, <1>10, <1>11, <1>12, ListsAre DEF Matches
<1>14. /\ Matches(all, told, g)
       /\ ToSet(all) = ToSet(labels) \cup (IF appendRole THEN {"instance_role"} ELSE {})
  <2>1. m \notin Roleless
    BY DEF Roleless
  <2> HIDE DEF m
  <2> QED
    BY <1>1, <1>12, <2>1, MatchesRole
<1>15. ToSet(all) = ClientLabelsOf(c)
  <2>1. {l \in {"user", "resp"} : c[l] # ""} = (IF c.user # "" THEN {"user"} ELSE {})
                                              \cup (IF c.resp # "" THEN {"resp"} ELSE {})
    OBVIOUS
  <2> QED
    BY <1>3, <1>9, <1>10, <1>13, <1>14, <2>1 DEF ClientLabelsOf
<1>16. all # <<>>
  <2>1. "id" \in ToSet(all)
    BY <1>15 DEF ClientLabelsOf
  <2> QED
    BY <2>1, ToSetEmpty
<1> HIDE DEF all, told
<1>17. Paired(all, told) = [l \in ClientLabelsOf(c) |-> g[l]]
  BY <1>14, <1>15, PairedIs
<1>18. \A l \in ClientLabelsOf(c) : g[l] = IF l = "instance_role" THEN s.role ELSE c[l]
  BY DEF g, ClientLabelsOf
<1>19. Paired(all, told) = ClientInfo(s, c).labels
  BY <1>17, <1>18 DEF ClientInfo
<1>20. Told(s, m, labels, values, 1) = [metric |-> m, value |-> 1, labels |-> Paired(all, told)]
  BY DEF Told, all, told
<1>21. Told(s, m, labels, values, 1) = ClientInfo(s, c)
  BY <1>19, <1>20 DEF ClientInfo
<1> QED
  BY <1>12, <1>13, <1>16, <1>21 DEF Matches, all, labels, values

(* parseConnectedClientMetrics.                                             *)
LEMMA ClientAdds ==
  ASSUME RoleTold, server \in Servers, NEW c \in ClientType, c \in ToSet(Listed(server)), NEW x
  PROVE  Adds(x, parseConnectedClient(x, c), ClientPart(server, c))
<1> DEFINE info == "connected_client_info"
           created == "connected_client_created_at_timestamp"
           read == "connected_client_read_events_total"
           shard == "connected_client_shard_channel_subscriptions_count"
           base == <<"id", "name">>
           values == <<c.id, c.name>>
           labels == InfoLabels(c)
           x1 == Gauge(createMetricDescription(x, info, labels), info, 1, InfoValues(c))
           x2 == createMetricDescription(x1, created, base)
           x3 == createMetricDescription(x2, read, base)
           x4 == Gauge(x3, created, Now - c.age, values)
           x5 == Gauge(x4, read, c.events, values)
           x6 == IF c.events = -1 THEN x4 ELSE x5
           x7 == Gauge(createMetricDescription(x6, shard, base), shard, c.ssub, values)
           x8 == IF c.ssub = -1 THEN x6 ELSE x7
           A1 == {ClientInfo(server, c)}
           A2 == {OfClient(server, created, c, Now - c.age)}
           A3 == IF c.events = -1 THEN {} ELSE {OfClient(server, read, c, c.events)}
           A4 == IF c.ssub = -1 THEN {} ELSE {OfClient(server, shard, c, c.ssub)}
<1> SUFFICES ASSUME Fit(x)
             PROVE  Adds(x, parseConnectedClient(x, c), ClientPart(server, c))
  BY DEF Adds
<1>1. parseConnectedClient(x, c) = x8
  BY DEF parseConnectedClient
<1>2. ClientPart(server, c) = A1 \cup A2 \cup A3 \cup A4
  BY DEF ClientPart
<1>3. /\ created \in Static /\ shard \in Static /\ read \in Static /\ read \in DOMAIN Described
      /\ {created, shard, read} \cap Dynamic = {}
      /\ LabelsIn(created) = base /\ LabelsIn(shard) = base /\ LabelsIn(read) = base
  BY InTable, NamesAre, LabelsAre DEF Created
<1>4. \A m \in {created, shard, read} : WithRole(m, base, "instance_role") \in AnyLabels
  BY <1>3 DEF AnyLabels, DescriptionOf
<1>5. IsList(base) /\ IsList(values) /\ Len(base) = 2 /\ Len(values) = 2 /\ base # <<>> /\ values # <<>>
  BY TuplesListed, TuplesAre
<1>6. Adds(x, x1, A1)
  <2>1. WithRole(info, labels, "instance_role") \in AnyLabels
    <3>1. labels \in ClientLabels
      BY DEF ClientLabels
    <3> QED
      BY <3>1 DEF AnyLabels
  <2>2. info \in Dynamic
    BY DEF Dynamic
  <2>3. /\ Told(server, info, labels, InfoValues(c), 1) = ClientInfo(server, c)
        /\ IsList(labels) /\ IsList(InfoValues(c)) /\ Len(labels) = Len(InfoValues(c))
        /\ labels # <<>> /\ InfoValues(c) # <<>> /\ WithRole(info, labels, "instance_role") # <<>>
    BY ClientLabelled
  <2>4. x1 = Gauge(createMetricDescription(x, info, labels), info, 1, InfoValues(c))
    OBVIOUS
  <2> HIDE DEF x1, labels, info
  <2>5. Adds(x, x1, {Told(server, info, labels, InfoValues(c), 1)})
    BY <2>1, <2>2, <2>3, <2>4, CreatedTells
  <2> QED
    BY <2>3, <2>5
<1>7. Fit(x1)
  BY <1>6 DEF Adds
<1> HIDE DEF base, values, x1
<1>8. Adds(x1, x2, {}) /\ Fit(x2) /\ created \in DOMAIN x2.descriptions
  <2>1. x2 = createMetricDescription(x1, created, base)
    OBVIOUS
  <2> HIDE DEF x2
  <2> QED
    BY <1>3, <1>4, <1>7, <2>1, DescribedAs
<1> HIDE DEF x2
<1>9. Adds(x2, x3, {}) /\ created \in DOMAIN x3.descriptions
  <2>1. x3 = createMetricDescription(x2, read, base)
    OBVIOUS
  <2> HIDE DEF x3
  <2>2. Adds(x2, x3, {})
    BY <1>3, <1>4, <1>8, <2>1, DescribedAs
  <2> QED
    BY <1>8, <2>2 DEF Adds
<1> HIDE DEF x3
<1>10. Adds(x3, x4, A2)
  <2> DEFINE v == Now - c.age
  <2>1. x4 = Gauge(x3, created, v, values)
    OBVIOUS
  <2>2. Len(values) = Len(LabelsIn(created))
    BY <1>3, <1>5
  <2>3. PICK T : values \in Seq(T)
    BY <1>5 DEF IsList
  <2> HIDE DEF x4, v
  <2>4. Adds(x3, x4, {Sample(created, v, values)})
    BY <1>3, <1>9, <2>1, <2>2, <2>3, GaugeAdds
  <2>5. Sample(created, v, values) = OfClient(server, created, c, v)
    BY <1>3, SampleIs DEF OfClient, base, values
  <2> QED
    BY <2>4, <2>5 DEF v
<1>11. Adds(x4, x5, {OfClient(server, read, c, c.events)})
  <2> HIDE DEF x4
  <2>1. Adds(x4, Gauge(x4, read, c.events, <<c.id, c.name>>),
             {Told(server, read, <<"id", "name">>, <<c.id, c.name>>, c.events)})
    BY <1>3, TellsTwo DEF base
  <2> QED
    BY <2>1 DEF OfClient, values
<1>12. Adds(x4, x6, A3)
  <2> HIDE DEF x4, x5
  <2> QED
    BY <1>11, AddsNone
<1>13. Adds(x6, x7, {OfClient(server, shard, c, c.ssub)})
  <2>1. x7 = Gauge(createMetricDescription(x6, shard, base), shard, c.ssub, values)
    OBVIOUS
  <2> HIDE DEF x6, x7
  <2>2. Adds(x6, x7, {Told(server, shard, base, values, c.ssub)})
    BY <1>3, <1>4, <1>5, <2>1, CreatedTells
  <2> QED
    BY <2>2 DEF OfClient, base, values
<1>14. Adds(x6, x8, A4)
  <2> HIDE DEF x6, x7
  <2> QED
    BY <1>13, AddsNone
<1> HIDE DEF x4, x5, x6, x7, x8, A1, A2, A3, A4
<1>15. Adds(x, x2, A1 \cup {})
  BY <1>6, <1>8, AddsThen
<1>16. Adds(x, x3, A1 \cup {} \cup {})
  BY <1>9, <1>15, AddsThen
<1>17. Adds(x, x4, A1 \cup {} \cup {} \cup A2)
  BY <1>10, <1>16, AddsThen
<1>18. Adds(x, x6, A1 \cup {} \cup {} \cup A2 \cup A3)
  BY <1>12, <1>17, AddsThen
<1>19. Adds(x, x8, A1 \cup {} \cup {} \cup A2 \cup A3 \cup A4)
  BY <1>14, <1>18, AddsThen
<1>20. A1 \cup {} \cup {} \cup A2 \cup A3 \cup A4 = ClientPart(server, c)
  BY <1>2
<1> QED
  BY <1>1, <1>19, <1>20

ListedPart(s, c) == IF c.wellFormed THEN ClientPart(s, c) ELSE {}

(* ... a client, ...                                                        *)
LEMMA ClientGrows ==
  ASSUME Fit(exporter), RoleTold, server \in Servers, at \in Nat \ {0}, Client
  PROVE  Grows(ListedPart(server, Listed(server)[at]))
<1> DEFINE c == Listed(server)[at]
<1>1. Listed(server) \in Seq(ClientType) /\ at <= Len(Listed(server))
  <2>1. Listed(server) \in Seq(ClientType)
    BY ServersAre, AnswersAre DEF ServerTypes, Listed, ClientType
  <2> QED
    BY <2>1 DEF Client
<1>2. c \in ClientType /\ c \in ToSet(Listed(server))
  <2>1. at \in DOMAIN Listed(server)
    BY <1>1, LenProperties
  <2> QED
    BY <1>1, <2>1, ToSetType
<1>3. Becomes(IF c.wellFormed THEN parseConnectedClient(exporter, c) ELSE exporter)
  BY DEF Client
<1> HIDE DEF c
<1>4. Adds(exporter, IF c.wellFormed THEN parseConnectedClient(exporter, c) ELSE exporter,
           ListedPart(server, c))
  BY <1>2, ClientAdds, AddsNone DEF ListedPart
<1> QED
  BY <1>3, <1>4, BecomesGrows DEF c

(* All of them tell what is promised of the clients.                        *)
LEMMA ClientsAre ==
  ASSUME server \in Servers
  PROVE  PromisedClients(server) =
           UNION {ListedPart(server, Listed(server)[i]) : i \in DOMAIN Listed(server)}
<1> DEFINE s == server
           listed == {c \in ToSet(Listed(s)) : c.wellFormed}
           A == {ClientInfo(s, c) : c \in listed}
           B == {OfClient(s, "connected_client_created_at_timestamp", c, Now - c.age) : c \in listed}
           C == {OfClient(s, "connected_client_read_events_total", c, c.events) :
                   c \in {d \in listed : d.events # -1}}
           D == {OfClient(s, "connected_client_shard_channel_subscriptions_count", c, c.ssub) :
                   c \in {d \in listed : d.ssub # -1}}
           U == UNION {ListedPart(s, Listed(s)[i]) : i \in DOMAIN Listed(s)}
<1>1. PromisedClients(s) = A \cup B \cup C \cup D
  BY DEF PromisedClients, ClientInfo, OfClient, ClientLabelsOf
<1>2. U = UNION {ListedPart(s, c) : c \in ToSet(Listed(s))}
  BY DEF ToSet
<1>3. U = UNION {ClientPart(s, c) : c \in listed}
  BY <1>2 DEF ListedPart
<1>4. ASSUME NEW c \in listed PROVE ClientPart(s, c) \subseteq A \cup B \cup C \cup D
  <2> HIDE DEF listed
  <2> QED
    BY DEF ClientPart
<1>5. ASSUME NEW c \in listed
      PROVE  /\ ClientInfo(s, c) \in ClientPart(s, c)
             /\ OfClient(s, "connected_client_created_at_timestamp", c, Now - c.age) \in ClientPart(s, c)
             /\ c.events # -1 =>
                  OfClient(s, "connected_client_read_events_total", c, c.events) \in ClientPart(s, c)
             /\ c.ssub # -1 =>
                  OfClient(s, "connected_client_shard_channel_subscriptions_count", c, c.ssub)
                    \in ClientPart(s, c)
  BY DEF ClientPart
<1> HIDE DEF listed, U
<1>6. U \subseteq A \cup B \cup C \cup D
  <2> HIDE DEF A, B, C, D
  <2> QED
    BY <1>3, <1>4
<1>7. A \subseteq U /\ B \subseteq U /\ C \subseteq U /\ D \subseteq U
  <2>1. A \subseteq U /\ B \subseteq U
    BY <1>3, <1>5
  <2>2. C \subseteq U
    BY <1>3, <1>5
  <2>3. D \subseteq U
    BY <1>3, <1>5
  <2> QED
    BY <2>1, <2>2, <2>3
<1> QED
  BY <1>1, <1>6, <1>7 DEF U

(* The settings CONFIG told, and the databases they tell of.                *)
Keys(s) == IF s.config = Denied THEN {} ELSE DOMAIN s.config

Configured(s) ==
  IF "databases" \in Keys(s) /\ IsNumber(s.config["databases"])
  THEN Number[s.config["databases"]] ELSE 0

(* The lines read, and the one that a line of a master's link is about.     *)
Past == {Lines[server][i] : i \in 1 .. at - 1}

Into(line) == IF line.key = "#" THEN line.value ELSE SectionOf(line.key)

Ahead(s) == Len(ServerLines(s)) + 2

MasterAt(s, i) == s.masters[(i - Ahead(s) - 1) \div 5 + 1]

LineTells(s, i) == FullPart(s, Lines[s][i], MasterAt(s, i).host, MasterAt(s, i).port)

Kept(line) == line.key \in Remembered /\ line.n = 0

TotalsOf(c) == IF c.fields < 3 THEN [count |-> 0, sum |-> 0] ELSE [count |-> c.calls, sum |-> c.usec]

(* What the reader of INFO remembers of the lines read.                     *)
FieldRead ==
  /\ fieldClass = IF at = 1 THEN "" ELSE Into(Lines[server][at - 1])
  /\ DOMAIN keyValues = {l.key : l \in {r \in Past : Kept(r)}}
  /\ \A l \in Past : Kept(l) => keyValues[l.key] = l.value

MasterRead ==
  \A k \in 1 .. 5 * Len(server.masters) :
    at = Ahead(server) + k + 1 =>
      /\ masterHost = MasterAt(server, at - 1).host
      /\ (k - 1) % 5 # 0 => masterPort = MasterAt(server, at - 1).port

CommandRead ==
  /\ handledDBs = {l.n : l \in {r \in Past : r.key = "db" /\ r.value.whole}}
  /\ DOMAIN cmdTotals = {l.value.cmd : l \in {r \in Past : r.key = "cmdstat"}}
  /\ \A l \in Past : l.key = "cmdstat" => cmdTotals[l.value.cmd] = TotalsOf(l.value)
  /\ cmdLatencies = {l.value : l \in {r \in Past : r.key = "latency_percentiles_usec"}}

Reading == at \in 1 .. Len(Lines[server]) + 1 /\ FieldRead /\ MasterRead /\ CommandRead

(* What has been collected when a part of the scrape begins, ...            *)
Connected(s) == {Plain(s, "exporter_last_scrape_connect_time_seconds", 1)}

ConfigTells(s, keys) == UNION {ConfigPart(s, k, s.config[k]) : k \in keys}

BeforeInfo(s) == Connected(s) \cup PromisedConfig(s) \cup ClusterPart(s)

AfterInfo(s) ==
  PromisedInstance(s) \cup PromisedConfig(s) \cup PromisedKeyspace(s)
  \cup IF IsSentinel(s) THEN PromisedWatched(s)
       ELSE PromisedReplication(s) \cup PromisedCommands(s) \cup PromisedCluster(s)

AfterLogs(s) ==
  AfterInfo(s) \cup PromisedLatency(s) \cup PromisedSlowLog(s) \cup PromisedCommandLog(s)

WatchedTells(s, n) ==
  IF s.mastersReply = Denied THEN {} ELSE UNION {PromisedMaster(s, s.watched[i]) : i \in 1 .. n}

AfterSentinel(s) ==
  AfterLogs(s)
  \cup IF IsSentinel(s) THEN WatchedTells(s, Len(s.watched)) \cup PromisedSettings(s) ELSE {}

ListedTells(s, n) == UNION {ListedPart(s, Listed(s)[i]) : i \in 1 .. n}

(* ... and while it goes on.                                                *)
CollectedEarly ==
  /\ pc = "config" =>
       /\ ToSet(samples) = Connected(server) \cup ConfigTells(server, Keys(server) \ settings)
       /\ "databases" \in Keys(server) \ settings => IsNumber(server.config["databases"])
       /\ dbCount = IF "databases" \in settings THEN 0 ELSE Configured(server)
  /\ pc = "failed" => ToSet(samples) \subseteq Promised(server)
  /\ pc = "cluster" =>
       ToSet(samples) = Connected(server) \cup PromisedConfig(server) /\ dbCount = Configured(server)
  /\ pc = "info" =>
       /\ ToSet(samples) = BeforeInfo(server)
                           \cup UNION {LineTells(server, i) : i \in 1 .. at - 1}
       /\ dbCount = Databases(server) /\ Reading
  /\ pc = "latency" => ToSet(samples) = AfterInfo(server)
  /\ pc = "slowlog" => ToSet(samples) = AfterInfo(server) \cup PromisedLatency(server)

CollectedLate ==
  /\ pc = "commandlog" =>
       ToSet(samples) = AfterInfo(server) \cup PromisedLatency(server) \cup PromisedSlowLog(server)
  /\ pc = "sentinel" =>
       /\ IsSentinel(server) /\ at <= Len(server.watched) + 1
       /\ ToSet(samples) = AfterLogs(server) \cup WatchedTells(server, at - 1)
  /\ pc = "clients" =>
       /\ at <= Len(Listed(server)) + 1
       /\ ToSet(samples) = AfterSentinel(server) \cup ListedTells(server, at - 1)
  /\ pc = "modules" => ToSet(samples) = AfterSentinel(server) \cup PromisedClients(server)
  /\ pc = "indexes" =>
       ToSet(samples) = AfterSentinel(server) \cup PromisedClients(server) \cup PromisedModules(server)
  /\ pc = "done" => ToSet(samples) = Promised(server)

(* The inductive invariant.                                                 *)
Types ==
  /\ appendRole \in BOOLEAN /\ server \in Servers /\ pc \in PCs
  /\ scrapes \in 0 .. MaxScrapes /\ dbCount \in Nat /\ at \in Nat \ {0}
  /\ settings \subseteq Keys(server)
  /\ pc # "idle" => RoleTold
  /\ pc \notin {"config", "failed"} => settings = {}
  /\ pc \notin {"info", "sentinel", "clients"} => at = 1
  /\ pc # "info" => InitReader

IInv == Types /\ Fit(exporter) /\ CollectedEarly /\ CollectedLate

(* What is promised of a server stays so while it is scraped.               *)
LEMMA PromisesStay ==
  ASSUME appendRole' = appendRole, server' = server
  PROVE  /\ Connected(server)' = Connected(server)
         /\ PromisedInstance(server)' = PromisedInstance(server)
         /\ PromisedConfig(server)' = PromisedConfig(server)
         /\ PromisedKeyspace(server)' = PromisedKeyspace(server)
         /\ PromisedReplication(server)' = PromisedReplication(server)
         /\ PromisedCommands(server)' = PromisedCommands(server)
         /\ PromisedCluster(server)' = PromisedCluster(server)
         /\ PromisedLatency(server)' = PromisedLatency(server)
         /\ PromisedSlowLog(server)' = PromisedSlowLog(server)
         /\ PromisedCommandLog(server)' = PromisedCommandLog(server)
         /\ PromisedModules(server)' = PromisedModules(server)
         /\ PromisedIndexes(server)' = PromisedIndexes(server)
         /\ PromisedWatched(server)' = PromisedWatched(server)
         /\ PromisedSettings(server)' = PromisedSettings(server)
         /\ PromisedClients(server)' = PromisedClients(server)
         /\ ClusterPart(server)' = ClusterPart(server)
<1>1. Connected(server)' = Connected(server)
  BY DEF Connected, Plain, Told, WithRole
<1>2. PromisedInstance(server)' = PromisedInstance(server)
  BY DEF PromisedInstance, Plain, Told, WithRole, IsValkey
<1>3. PromisedConfig(server)' = PromisedConfig(server)
  BY DEF PromisedConfig, Plain, Told, WithRole
<1>4. PromisedKeyspace(server)' = PromisedKeyspace(server)
  BY DEF PromisedKeyspace, Databases, Plain, Told, WithRole
<1>5. PromisedReplication(server)' = PromisedReplication(server)
  BY DEF PromisedReplication, Plain, Told, WithRole
<1>6. PromisedCommands(server)' = PromisedCommands(server)
  BY DEF PromisedCommands, CountTold, SumTold, Plain, Told, WithRole
<1>7. PromisedCluster(server)' = PromisedCluster(server)
  BY DEF PromisedCluster, Plain, Told, WithRole
<1>8. PromisedLatency(server)' = PromisedLatency(server)
  BY DEF PromisedLatency, CountTold, SumTold, Plain, Told, WithRole
<1>9. PromisedSlowLog(server)' = PromisedSlowLog(server)
  BY DEF PromisedSlowLog, Plain, Told, WithRole
<1>10. PromisedCommandLog(server)' = PromisedCommandLog(server)
  BY DEF PromisedCommandLog, Plain, Told, WithRole
<1>11. PromisedModules(server)' = PromisedModules(server)
  BY DEF PromisedModules, Plain, Told, WithRole
<1>12. PromisedIndexes(server)' = PromisedIndexes(server)
  BY DEF PromisedIndexes, Plain, Told, WithRole
<1>13. PromisedWatched(server)' = PromisedWatched(server)
  BY DEF PromisedWatched, OfWatched, Plain, Told, WithRole
<1>14. PromisedSettings(server)' = PromisedSettings(server)
  BY DEF PromisedSettings, Plain, Told, WithRole
<1>15. PromisedClients(server)' = PromisedClients(server)
  BY DEF PromisedClients, Listed, Plain, Told, WithRole
<1>16. ClusterPart(server)' = ClusterPart(server)
  BY DEF ClusterPart, Plain, Told, WithRole
<1> QED
  BY <1>1, <1>2, <1>3, <1>4, <1>5, <1>6, <1>7, <1>8, <1>9, <1>10, <1>11, <1>12, <1>13, <1>14,
     <1>15, <1>16

(* So do the parts of it, by setting, line, master and client.              *)
LEMMA PartsStay ==
  ASSUME appendRole' = appendRole, server' = server
  PROVE  /\ \A keys : ConfigTells(server, keys)' = ConfigTells(server, keys)
         /\ \A i : LineTells(server, i)' = LineTells(server, i)
         /\ \A m : PromisedMaster(server, m)' = PromisedMaster(server, m)
         /\ \A c : ListedPart(server, c)' = ListedPart(server, c)
<1>1. \A keys : ConfigTells(server, keys)' = ConfigTells(server, keys)
  BY DEF ConfigTells, ConfigPart, ShownPart, LimitPart, Plain, Told, WithRole
<1>2. \A i : LineTells(server, i)' = LineTells(server, i)
  BY DEF LineTells, FullPart, LinePart, MasterPart, SlavePart, EnginePart, CommandPart, DbPart,
         WatchedPart, FieldPart, MasterAt, Ahead, Lines, Plain, Told, WithRole
<1>3. \A m : PromisedMaster(server, m)' = PromisedMaster(server, m)
  BY DEF PromisedMaster, OfWatched, Plain, Told, WithRole
<1>4. \A c : ListedPart(server, c)' = ListedPart(server, c)
  BY DEF ListedPart, ClientPart, ClientInfo, OfClient, ClientLabelsOf, Plain, Told, WithRole
<1> QED
  BY <1>1, <1>2, <1>3, <1>4

(* What a server tells does not change during its scrape.                   *)
LEMMA WholeStays ==
  ASSUME appendRole' = appendRole, server' = server
  PROVE  /\ BeforeInfo(server)' = BeforeInfo(server)
         /\ AfterInfo(server)' = AfterInfo(server)
         /\ AfterLogs(server)' = AfterLogs(server)
         /\ AfterSentinel(server)' = AfterSentinel(server)
         /\ \A n : WatchedTells(server, n)' = WatchedTells(server, n)
         /\ \A n : ListedTells(server, n)' = ListedTells(server, n)
         /\ Promised(server)' = Promised(server)
<1>1. BeforeInfo(server)' = BeforeInfo(server)
  BY PromisesStay DEF BeforeInfo
<1>2. AfterInfo(server)' = AfterInfo(server)
  BY PromisesStay DEF AfterInfo, IsSentinel
<1>3. AfterLogs(server)' = AfterLogs(server)
  BY <1>2, PromisesStay DEF AfterLogs
<1>4. \A n : WatchedTells(server, n)' = WatchedTells(server, n)
  BY DEF WatchedTells, PromisedMaster, OfWatched, Plain, Told, WithRole
<1>5. AfterSentinel(server)' = AfterSentinel(server)
  BY <1>3, PromisesStay DEF AfterSentinel, IsSentinel, WatchedTells, PromisedMaster, OfWatched,
     Plain, Told, WithRole
<1>6. \A n : ListedTells(server, n)' = ListedTells(server, n)
  BY DEF ListedTells, ListedPart, ClientPart, ClientInfo, OfClient, ClientLabelsOf, Listed,
         Plain, Told, WithRole
<1>7. Promised(server)' = Promised(server)
  BY PromisesStay DEF Promised, PromisedSentinel, IsSentinel, PromisedMaster, OfWatched,
     Plain, Told, WithRole
<1> QED
  BY <1>1, <1>2, <1>3, <1>4, <1>5, <1>6, <1>7

(* The types, for a step that goes on with a scrape.                        *)
LEMMA TypesStay ==
  ASSUME Types, pc # "idle", UNCHANGED <<appendRole, instanceRole, server, scrapes>>,
         pc' \in PCs \ {"idle"}, dbCount' \in Nat, at' \in Nat \ {0}, settings' \subseteq settings,
         pc' \notin {"config", "failed"} => settings' = {},
         pc' \notin {"info", "sentinel", "clients"} => at' = 1, pc' # "info" => InitReader'
  PROVE  Types'
BY DEF Types, RoleTold, Keys

(* All entries together are what is promised of the configuration.          *)
LEMMA ConfigIs ==
  ASSUME NEW s
  PROVE  /\ ConfigTells(s, Keys(s)) \cup RdbPart(s) = PromisedConfig(s)
         /\ \A keys \in SUBSET Keys(s) : ConfigTells(s, keys) \subseteq PromisedConfig(s)
<1> DEFINE keys == Keys(s)
           shown == {k \in keys : Shown(k)}
           numbers == {k \in keys : IsNumber(s.config[k])}
           One(k) == Told(s, "config_key_value", <<"key", "value">>, <<k, s.config[k]>>, 1)
           Two(k) == Told(s, "config_value", <<"key">>, <<k>>, Number[s.config[k]])
           Three(k) == Plain(s, "config_maxmemory", Number[s.config[k]])
           A == {One(k) : k \in shown}
           B == {Two(k) : k \in shown \cap numbers}
           C == {Three(k) : k \in numbers \cap {"maxmemory"}}
           D == IF "client-output-buffer-limit" \notin keys THEN {} ELSE LimitPart(s)
           Part(k) == ConfigPart(s, k, s.config[k])
<1>1. PromisedConfig(s) = A \cup B \cup C \cup D \cup RdbPart(s)
  BY DEF PromisedConfig, LimitPart, RdbPart, Keys
<1>2. ASSUME NEW k \in keys
      PROVE  Part(k) = (IF k \in shown THEN {One(k)} ELSE {})
                       \cup (IF k \in shown \cap numbers THEN {Two(k)} ELSE {})
                       \cup (IF k \in numbers \cap {"maxmemory"} THEN {Three(k)} ELSE {})
                       \cup (IF k = "client-output-buffer-limit" THEN LimitPart(s) ELSE {})
  <2> HIDE DEF One, Two, Three
  <2>1. ShownPart(s, k, s.config[k]) = (IF k \in shown THEN {One(k)} ELSE {})
                                       \cup (IF k \in shown \cap numbers THEN {Two(k)} ELSE {})
    BY DEF ShownPart, One, Two
  <2>2. (IF k = "maxmemory" /\ IsNumber(s.config[k])
         THEN {Plain(s, "config_maxmemory", Number[s.config[k]])} ELSE {})
        = IF k \in numbers \cap {"maxmemory"} THEN {Three(k)} ELSE {}
    BY DEF Three
  <2> QED
    BY <2>1, <2>2 DEF ConfigPart
<1>3. ConfigTells(s, keys) = UNION {Part(k) : k \in keys}
  BY DEF ConfigTells
<1> HIDE DEF One, Two, Three, Part, keys
<1>4. ASSUME NEW e, e \in UNION {Part(k) : k \in keys}
      PROVE  e \in A \cup B \cup C \cup D
  <2>1. PICK k \in keys : e \in Part(k)
    BY <1>4
  <2>2. CASE k \in shown /\ e = One(k)
    BY <2>2
  <2>3. CASE k \in shown \cap numbers /\ e = Two(k)
    BY <2>3
  <2>4. CASE k \in numbers \cap {"maxmemory"} /\ e = Three(k)
    BY <2>4
  <2>5. CASE k = "client-output-buffer-limit" /\ e \in LimitPart(s)
    BY <2>5
  <2> QED
    BY <1>2, <2>1, <2>2, <2>3, <2>4, <2>5
<1>5. A \cup B \cup C \cup D \subseteq UNION {Part(k) : k \in keys}
  <2>1. \A k \in shown : One(k) \in Part(k)
    BY <1>2
  <2>2. \A k \in shown \cap numbers : Two(k) \in Part(k)
    BY <1>2
  <2>3. \A k \in numbers \cap {"maxmemory"} : Three(k) \in Part(k)
    BY <1>2
  <2>4. ASSUME NEW e \in D PROVE e \in UNION {Part(k) : k \in keys}
    <3>1. "client-output-buffer-limit" \in keys /\ e \in LimitPart(s)
      BY <2>4
    <3> QED
      BY <1>2, <3>1
  <2> QED
    BY <2>1, <2>2, <2>3, <2>4
<1> HIDE DEF A, B, C, D
<1>6. ConfigTells(s, keys) = A \cup B \cup C \cup D
  BY <1>3, <1>4, <1>5
<1>7. \A ks \in SUBSET keys : ConfigTells(s, ks) \subseteq ConfigTells(s, keys)
  BY DEF ConfigTells
<1> QED
  BY <1>1, <1>6, <1>7 DEF keys

(* The first sample of a scrape takes the place of those of the one before. *)
LEMMA BeginGrows ==
  ASSUME Fit(exporter), NEW s, Begin(s)
  PROVE  Fit(exporter)' /\ ToSet(samples)' = Connected(s)
<1> DEFINE x == [exporter EXCEPT !.samples = <<>>]
           m == "exporter_last_scrape_connect_time_seconds"
           values == <<>>
           y == Gauge(x, m, 1, values)
<1>1. Fit(x) /\ ToSet(x.samples) = {}
  <2>1. x.descriptions = descriptions /\ x.samples = <<>> /\ x.lost = lost
        /\ x = [descriptions |-> descriptions, samples |-> <<>>, lost |-> lost]
    BY DEF exporter
  <2>2. descriptions \in Fitting /\ lost \in {{}}
    BY DEF Fit, exporter
  <2> HIDE DEF x
  <2>3. <<>> \in Seq(ToSet(x.samples))
    OBVIOUS
  <2> QED
    BY <2>1, <2>2, <2>3, ToSetEmpty DEF Fit, Sampled
<1>2. m \in Static /\ LabelsIn(m) = <<>> /\ m \in Roleless
  BY CreatedAre, InTable DEF Created, Roleless
<1>3. values \in Seq({}) /\ Len(values) = Len(LabelsIn(m))
  BY <1>2
<1>4. Adds(x, y, {Sample(m, 1, values)})
  <2> HIDE DEF x
  <2> QED
    BY <1>2, <1>3, GaugeAdds
<1>5. Sample(m, 1, values) = Plain(s, m, 1)
  BY <1>2 DEF Sample, Plain, Told, DescriptionOf, WithRole
<1>6. Becomes(y)
  BY DEF Begin
<1> HIDE DEF x, y
<1>7. Fit(y) /\ ToSet(y.samples) = {Plain(s, m, 1)}
  BY <1>1, <1>4, <1>5 DEF Adds
<1>8. y = [descriptions |-> y.descriptions, samples |-> y.samples, lost |-> y.lost]
  BY <1>7 DEF Fit
<1>9. exporter' = y /\ samples' = y.samples /\ Fitting' = Fitting
  BY <1>6, <1>8, FittingStays DEF Becomes, exporter
<1>10. Fit(exporter)'
  BY <1>7, <1>9 DEF Fit
<1>11. ToSet(samples)' = ToSet(y.samples)
  BY <1>9
<1> QED
  BY <1>7, <1>10, <1>11 DEF Connected

(* The first steps: connecting, ...                                         *)
LEMMA BeginStep ==
  ASSUME IInv, NEW s \in Servers, Begin(s)
  PROVE  IInv'
<1>1. Fit(exporter)' /\ ToSet(samples)' = Connected(s)
  BY BeginGrows DEF IInv
<1>2. server' = s /\ pc' = "config" /\ settings' = Keys(s) /\ dbCount' = 0 /\ at' = 1
      /\ appendRole' = appendRole
  BY DEF Begin, Becomes, Keys
<1>3. Types'
  <2>1. Keys(server)' = Keys(s)
    BY <1>2 DEF Keys
  <2>2. RoleTold'
    BY <1>2 DEF Begin, RoleTold
  <2>3. scrapes' \in 0 .. MaxScrapes
    BY InfoMetricsAssumption DEF IInv, Types, Begin
  <2>4. InitReader'
    BY DEF IInv, Types, Begin, InitReader, reader
  <2> QED
    BY <1>2, <2>1, <2>2, <2>3, <2>4 DEF IInv, Types, PCs
<1>4. CollectedEarly'
  <2>1. Connected(server)' = Connected(s)
    BY <1>2 DEF Connected, Plain, Told, WithRole
  <2>2. (Keys(server) \ settings)' = {}
    BY <1>2 DEF Keys
  <2>3. ConfigTells(server, Keys(server) \ settings)' = {}
    BY <2>2 DEF ConfigTells
  <2>4. "databases" \notin settings' => Configured(server)' = 0
    BY <1>2 DEF Configured, Keys
  <2> QED
    BY <1>1, <1>2, <2>1, <2>2, <2>3, <2>4 DEF CollectedEarly
<1>5. CollectedLate'
  BY <1>2 DEF CollectedLate
<1> QED
  BY <1>1, <1>3, <1>4, <1>5 DEF IInv

(* What is known of the databases is a number.                              *)
LEMMA ConfiguredIs ==
  ASSUME NEW s \in Servers
  PROVE  Configured(s) \in Nat
<1>1. Consistent(s)
  BY ServersAssumption
<1> QED
  BY <1>1 DEF Consistent, Configured, Keys, IsNumber, Number

(* (what was told before a failure is promised)                             *)
LEMMA PromisedHas ==
  ASSUME NEW s
  PROVE  Connected(s) \subseteq Promised(s) /\ PromisedConfig(s) \subseteq Promised(s)
BY DEF Connected, Promised, PromisedInstance

(* ... an entry of the configuration ...                                    *)
LEMMA ConfigEntryStep ==
  ASSUME IInv, NEW key \in settings, ConfigEntry(key)
  PROVE  IInv'
<1> DEFINE fails == key = "databases" /\ ~ IsNumber(server.config[key])
           part == ConfigPart(server, key, server.config[key])
<1>1. /\ server' = server /\ pc = "config" /\ settings' = settings \ {key} /\ at' = at
      /\ UNCHANGED <<instanceRole, scrapes, reader>> /\ appendRole' = appendRole
  BY DEF ConfigEntry, Becomes
<1>2. Types /\ Fit(exporter) /\ RoleTold /\ server \in Servers /\ key \in Keys(server)
      /\ settings \subseteq Keys(server) /\ at = 1 /\ InitReader
  BY <1>1 DEF IInv, Types
<1>3. /\ ToSet(samples) = Connected(server) \cup ConfigTells(server, Keys(server) \ settings)
      /\ "databases" \in Keys(server) \ settings => IsNumber(server.config["databases"])
      /\ dbCount = IF "databases" \in settings THEN 0 ELSE Configured(server)
  BY <1>1 DEF IInv, CollectedEarly
<1>4. InitReader'
  BY <1>1, <1>2 DEF InitReader, reader
<1>5. CASE fails
  <2>1. pc' = "failed" /\ UNCHANGED <<dbCount, descriptions, samples, lost>>
    BY <1>5 DEF ConfigEntry
  <2>2. Grows({})
    BY <1>1, <1>2, <2>1, UnchangedGrows DEF ConfigEntry, exporterVars
  <2>3. Types'
    BY <1>1, <1>2, <1>4, <2>1, TypesStay DEF PCs, Types
  <2>4. ToSet(samples) \subseteq Promised(server)
    BY <1>2, <1>3, PromisedHas, ConfigIs
  <2>5. CollectedEarly'
    BY <1>1, <2>1, <2>2, <2>4, WholeStays DEF CollectedEarly, Grows
  <2>6. CollectedLate'
    BY <2>1 DEF CollectedLate
  <2> QED
    BY <2>2, <2>3, <2>5, <2>6 DEF IInv, Grows
<1>6. CASE ~ fails
  <2>1. /\ dbCount' = (IF key = "databases" THEN Number[server.config[key]] ELSE dbCount)
        /\ pc' = "config" /\ Becomes(ConfigSamples(exporter, key, server.config[key]))
    BY <1>1, <1>6 DEF ConfigEntry
  <2>2. Grows(part)
    BY <1>2, <2>1, ConfigAdds, BecomesGrows
  <2>3. dbCount' = IF "databases" \in settings' THEN 0 ELSE Configured(server)
    BY <1>1, <1>2, <1>3, <1>6, <2>1 DEF Configured
  <2>4. Types'
    BY <1>1, <1>2, <1>4, <2>1, <2>3, ConfiguredIs, TypesStay DEF PCs, Types
  <2>5. ToSet(samples)' = Connected(server) \cup ConfigTells(server, Keys(server) \ settings')
    <3>1. Keys(server) \ settings' = (Keys(server) \ settings) \cup {key}
      BY <1>1, <1>2
    <3>2. ConfigTells(server, (Keys(server) \ settings) \cup {key})
            = ConfigTells(server, Keys(server) \ settings) \cup part
      BY DEF ConfigTells
    <3> HIDE DEF part
    <3> QED
      BY <1>3, <2>2, <3>1, <3>2 DEF Grows
  <2>6. CollectedEarly'
    <3>1. Connected(server)' = Connected(server)
      BY <1>1, PromisesStay
    <3>2. ConfigTells(server, Keys(server) \ settings)' = ConfigTells(server, Keys(server) \ settings')
      BY <1>1 DEF Keys, ConfigTells, ConfigPart, ShownPart, LimitPart, Plain, Told, WithRole
    <3>3. "databases" \in (Keys(server) \ settings)' => IsNumber(server'.config["databases"])
      BY <1>1, <1>3, <1>6 DEF Keys
    <3>4. Configured(server)' = Configured(server)
      BY <1>1 DEF Configured, Keys
    <3> QED
      BY <2>1, <2>3, <2>5, <3>1, <3>2, <3>3, <3>4 DEF CollectedEarly
  <2>7. CollectedLate'
    BY <2>1 DEF CollectedLate
  <2> QED
    BY <2>2, <2>4, <2>6, <2>7 DEF IInv, Grows
<1> QED
  BY <1>5, <1>6

(* ... and the end of it.                                                   *)
LEMMA ConfigOverStep ==
  ASSUME IInv, ConfigOver
  PROVE  IInv'
<1>1. /\ server' = server /\ pc = "config" /\ pc' = "cluster" /\ settings = {}
      /\ UNCHANGED <<instanceRole, scrapes, settings, dbCount, at, reader>>
      /\ appendRole' = appendRole /\ Becomes(RdbFileSize(exporter))
  BY DEF ConfigOver, Becomes
<1>2. Types /\ Fit(exporter) /\ RoleTold /\ at = 1 /\ InitReader
  BY <1>1 DEF IInv, Types
<1>3. /\ ToSet(samples) = Connected(server) \cup ConfigTells(server, Keys(server))
      /\ dbCount = Configured(server)
  <2>1. Keys(server) \ settings = Keys(server)
    BY <1>1
  <2> QED
    BY <1>1, <2>1 DEF IInv, CollectedEarly
<1>4. Grows(RdbPart(server))
  BY <1>1, <1>2, RdbAdds, BecomesGrows
<1>5. ToSet(samples)' = Connected(server) \cup PromisedConfig(server)
  BY <1>3, <1>4, ConfigIs DEF Grows
<1>6. InitReader'
  BY <1>1, <1>2 DEF InitReader, reader
<1>7. Types'
  BY <1>1, <1>2, <1>6, TypesStay DEF PCs, Types
<1>8. CollectedEarly'
  BY <1>1, <1>3, <1>5, PromisesStay DEF CollectedEarly, Configured, Keys
<1>9. CollectedLate'
  BY <1>1 DEF CollectedLate
<1> QED
  BY <1>4, <1>7, <1>8, <1>9 DEF IInv, Grows

(* The lists of lines that INFO is made of.                                 *)
LEMMA ListIs ==
  ASSUME NEW A, IsList(A)
  PROVE  /\ Len(A) \in Nat /\ DOMAIN A = 1 .. Len(A) /\ A \in Seq(ToSet(A))
         /\ \A i \in 1 .. Len(A) : A[i] \in ToSet(A)
         /\ \A e \in ToSet(A) : \E i \in 1 .. Len(A) : e = A[i]
<1>1. PICK S : A \in Seq(S)
  BY DEF IsList
<1>2. Len(A) \in Nat /\ DOMAIN A = 1 .. Len(A) /\ A = [i \in 1 .. Len(A) |-> A[i]]
  BY <1>1, LenProperties
<1>3. \A i \in 1 .. Len(A) : A[i] \in ToSet(A)
  BY <1>2 DEF ToSet
<1>4. \A e \in ToSet(A) : \E i \in 1 .. Len(A) : e = A[i]
  BY <1>2 DEF ToSet
<1>5. A \in Seq(ToSet(A))
  BY <1>2, <1>3
<1> QED
  BY <1>2, <1>3, <1>4, <1>5

(* The elements of lists one after the other.                               *)
LEMMA ListsJoin ==
  ASSUME NEW A, NEW B, IsList(A), IsList(B)
  PROVE  /\ IsList(A \o B) /\ Len(A \o B) = Len(A) + Len(B)
         /\ ToSet(A \o B) = ToSet(A) \cup ToSet(B)
         /\ \A i \in 1 .. Len(A) : (A \o B)[i] = A[i]
         /\ \A i \in 1 .. Len(B) : (A \o B)[Len(A) + i] = B[i]
<1> DEFINE T == ToSet(A) \cup ToSet(B)
           C == A \o B
           a == Len(A)
           b == Len(B)
<1>1. A \in Seq(T) /\ B \in Seq(T) /\ a \in Nat /\ b \in Nat
  BY ListIs, SeqGrows
<1>2. /\ C \in Seq(T) /\ Len(C) = a + b
      /\ \A i \in 1 .. a + b : C[i] = IF i <= a THEN A[i] ELSE B[i - a]
  BY <1>1, ConcatProperties
<1>3. ToSet(C) = ToSet(A) \cup ToSet(B)
  BY <1>1, ToSetConcat
<1> HIDE DEF T, C, a, b
<1>4. \A i \in 1 .. a : C[i] = A[i]
  BY <1>1, <1>2
<1>5. \A i \in 1 .. b : C[a + i] = B[i]
  <2> TAKE i \in 1 .. b
  <2>1. a + i \in 1 .. a + b /\ ~ (a + i <= a) /\ (a + i) - a = i
    BY <1>1
  <2> QED
    BY <1>2, <2>1
<1> QED
  BY <1>2, <1>3, <1>4, <1>5 DEF C, a, b, IsList

(* A function on 1 .. n is a list.                                          *)
LEMMA MapList ==
  ASSUME NEW n \in Nat, NEW F, F = [i \in 1 .. n |-> F[i]]
  PROVE  IsList(F) /\ Len(F) = n /\ DOMAIN F = 1 .. n
<1> DEFINE T == {F[i] : i \in 1 .. n}
<1>1. F \in [1 .. n -> T]
  OBVIOUS
<1>2. F \in Seq(T) /\ Len(F) = n
  BY <1>1
<1> QED
  BY <1>1, <1>2 DEF IsList

-----------------------------------------------------------------------------
(* Every field is in its section, where all of a list are or a header       *)
(* begins.                                                                  *)
Body(class, L) ==
  IsList(L) /\ \A l \in ToSet(L) : l.key # "#" /\ SectionOf(l.key) = class

Sound(L) ==
  \A i \in 1 .. Len(L) : L[i].key # "#" => i > 1 /\ SectionOf(L[i].key) = Into(L[i - 1])

Flows(L, class) == IsList(L) /\ Sound(L) /\ Len(L) > 0 /\ Into(L[Len(L)]) = class

(* Lines of the section at hand may follow, ...                             *)
LEMMA FlowsOn ==
  ASSUME NEW class, NEW A, NEW B, Flows(A, class), Body(class, B)
  PROVE  Flows(A \o B, class)
<1> DEFINE C == A \o B
           a == Len(A)
           b == Len(B)
<1>0. IsList(A) /\ IsList(B) /\ a > 0
  BY DEF Flows, Body
<1>1. /\ IsList(C) /\ Len(C) = a + b /\ a \in Nat /\ b \in Nat /\ a > 0
      /\ \A i \in 1 .. a : C[i] = A[i]
      /\ \A i \in 1 .. b : C[a + i] = B[i]
  BY <1>0, ListsJoin, ListIs
<1>2. \A i \in 1 .. b : B[i].key # "#" /\ SectionOf(B[i].key) = class /\ Into(B[i]) = class
  BY ListIs DEF Body, Into, b
<1>3. Sound(A) /\ Into(A[a]) = class
  BY DEF Flows
<1>4. \A i \in 1 .. a : A[i].key # "#" => i > 1 /\ SectionOf(A[i].key) = Into(A[i - 1])
  BY <1>3 DEF Sound
<1> HIDE DEF C, a, b
<1>5. \A i \in 1 .. a : C[i].key # "#" => i > 1 /\ SectionOf(C[i].key) = Into(C[i - 1])
  <2> TAKE i \in 1 .. a
  <2>1. i > 1 => i - 1 \in 1 .. a
    BY <1>1
  <2> QED
    BY <1>1, <1>4, <2>1
<1>6. \A i \in 1 .. b : a + i > 1 /\ SectionOf(C[a + i].key) = Into(C[a + i - 1])
  <2> TAKE i \in 1 .. b
  <2>1. CASE i = 1
    <3>1. a + i > 1 /\ a + i - 1 = a /\ a \in 1 .. a
      BY <1>1, <2>1
    <3> QED
      BY <1>1, <1>2, <1>3, <3>1
  <2>2. CASE i # 1
    <3> DEFINE j == i - 1
    <3>1. j \in 1 .. b /\ a + i - 1 = a + j /\ a + i > 1
      BY <1>1, <2>2
    <3> HIDE DEF j
    <3> QED
      BY <1>1, <1>2, <3>1
  <2> QED
    BY <2>1, <2>2
<1>7. ASSUME NEW i \in 1 .. Len(C), C[i].key # "#"
      PROVE  i > 1 /\ SectionOf(C[i].key) = Into(C[i - 1])
  <2>1. CASE i \in 1 .. a
    BY <1>5, <1>7, <2>1
  <2>2. CASE i \notin 1 .. a
    <3> DEFINE j == i - a
    <3>1. j \in 1 .. b /\ i = a + j
      BY <1>1, <2>2
    <3> HIDE DEF j
    <3>2. C[a + j].key # "#"
      BY <1>7, <3>1
    <3>3. a + j > 1 /\ SectionOf(C[a + j].key) = Into(C[a + j - 1])
      BY <1>6, <3>1, <3>2
    <3> QED
      BY <1>1, <3>1, <3>3
  <2> QED
    BY <2>1, <2>2
<1>8. Into(C[Len(C)]) = class
  <2>1. CASE b = 0
    <3>1. Len(C) = a /\ a \in 1 .. a
      BY <1>1, <2>1
    <3> QED
      BY <1>1, <1>3, <3>1
  <2>2. CASE b # 0
    <3>1. b \in 1 .. b
      BY <1>1, <2>2
    <3> QED
      BY <1>1, <1>2, <3>1
  <2> QED
    BY <2>1, <2>2
<1>9. Len(C) > 0
  BY <1>1
<1> QED
  BY <1>1, <1>7, <1>8, <1>9 DEF Flows, Sound, C

(* ... and another section may.                                             *)
LEMMA FlowsThen ==
  ASSUME NEW class, NEW next, NEW A, NEW B, Flows(A, class), Flows(B, next)
  PROVE  Flows(A \o B, next)
<1> DEFINE C == A \o B
           a == Len(A)
           b == Len(B)
<1>1. /\ IsList(C) /\ Len(C) = a + b /\ a \in Nat /\ b \in Nat /\ a > 0 /\ b > 0
      /\ \A i \in 1 .. a : C[i] = A[i]
      /\ \A i \in 1 .. b : C[a + i] = B[i]
  BY ListsJoin, ListIs DEF Flows
<1>2. \A i \in 1 .. b : B[i].key # "#" => i > 1 /\ SectionOf(B[i].key) = Into(B[i - 1])
  BY DEF Flows, Sound
<1>3. \A i \in 1 .. a : A[i].key # "#" => i > 1 /\ SectionOf(A[i].key) = Into(A[i - 1])
  BY DEF Flows, Sound
<1>4. Into(B[b]) = next
  BY DEF Flows
<1> HIDE DEF C, a, b
<1>5. \A i \in 1 .. a : C[i].key # "#" => i > 1 /\ SectionOf(C[i].key) = Into(C[i - 1])
  <2> TAKE i \in 1 .. a
  <2>1. i > 1 => i - 1 \in 1 .. a
    BY <1>1
  <2> QED
    BY <1>1, <1>3, <2>1
<1>6. ASSUME NEW i \in 1 .. b, C[a + i].key # "#"
      PROVE  a + i > 1 /\ SectionOf(C[a + i].key) = Into(C[a + i - 1])
  <2>1. i > 1 /\ SectionOf(B[i].key) = Into(B[i - 1])
    BY <1>1, <1>2, <1>6
  <2> DEFINE j == i - 1
  <2>2. j \in 1 .. b /\ a + i - 1 = a + j /\ a + i > 1 /\ Into(B[j]) = SectionOf(B[i].key)
    BY <1>1, <2>1
  <2> HIDE DEF j
  <2> QED
    BY <1>1, <2>2
<1>7. ASSUME NEW i \in 1 .. Len(C), C[i].key # "#"
      PROVE  i > 1 /\ SectionOf(C[i].key) = Into(C[i - 1])
  <2>1. CASE i \in 1 .. a
    BY <1>5, <1>7, <2>1
  <2>2. CASE i \notin 1 .. a
    <3> DEFINE j == i - a
    <3>1. j \in 1 .. b /\ i = a + j
      BY <1>1, <2>2
    <3> HIDE DEF j
    <3>2. C[a + j].key # "#"
      BY <1>7, <3>1
    <3>3. a + j > 1 /\ SectionOf(C[a + j].key) = Into(C[a + j - 1])
      BY <1>6, <3>1, <3>2
    <3> QED
      BY <1>1, <3>1, <3>3
  <2> QED
    BY <2>1, <2>2
<1>8. Into(C[Len(C)]) = next
  <2>1. b \in 1 .. b
    BY <1>1
  <2> QED
    BY <1>1, <1>4, <2>1
<1>9. Len(C) > 0
  BY <1>1
<1> QED
  BY <1>1, <1>7, <1>8, <1>9 DEF Flows, Sound, C

-----------------------------------------------------------------------------
(* The fields of the masters' links are those of a list within the list,    *)
(* after so many lines.                                                     *)
Linkless(L) == IsList(L) /\ \A l \in ToSet(L) : l.key \notin MasterKeys

Placed(L, n, M) ==
  /\ IsList(L) /\ IsList(M) /\ n \in Nat /\ n + Len(M) <= Len(L)
  /\ \A k \in 1 .. Len(M) : L[n + k] = M[k]
  /\ \A i \in 1 .. Len(L) : L[i].key \in MasterKeys => i \in n + 1 .. n + Len(M)

(* Lines without a link, one after the other.                               *)
LEMMA LinklessJoin ==
  ASSUME NEW A, NEW B, Linkless(A), Linkless(B)
  PROVE  Linkless(A \o B)
BY ListsJoin DEF Linkless

(* Lines without links after the links ...                                  *)
LEMMA PlacedBefore ==
  ASSUME NEW A, NEW n, NEW M, NEW B, Placed(A, n, M), Linkless(B)
  PROVE  Placed(A \o B, n, M)
<1> DEFINE C == A \o B
           a == Len(A)
           b == Len(B)
           m == Len(M)
<1>1. /\ IsList(C) /\ Len(C) = a + b /\ a \in Nat /\ b \in Nat
      /\ \A i \in 1 .. a : C[i] = A[i]
      /\ \A i \in 1 .. b : C[a + i] = B[i]
  BY ListsJoin, ListIs DEF Placed, Linkless
<1>2. \A i \in 1 .. b : B[i].key \notin MasterKeys
  BY ListIs DEF Linkless
<1>3. /\ IsList(M) /\ n \in Nat /\ m \in Nat /\ n + m <= a
      /\ \A k \in 1 .. m : A[n + k] = M[k]
      /\ \A i \in 1 .. a : A[i].key \in MasterKeys => i \in n + 1 .. n + m
  BY ListIs DEF Placed
<1> HIDE DEF C, a, b, m
<1>4. \A k \in 1 .. m : C[n + k] = M[k]
  <2> TAKE k \in 1 .. m
  <2>1. n + k \in 1 .. a
    BY <1>1, <1>3
  <2> QED
    BY <1>1, <1>3, <2>1
<1>5. ASSUME NEW i \in 1 .. Len(C), C[i].key \in MasterKeys
      PROVE  i \in n + 1 .. n + m
  <2>1. CASE i \in 1 .. a
    BY <1>1, <1>3, <1>5, <2>1
  <2>2. CASE i \notin 1 .. a
    <3> DEFINE j == i - a
    <3>1. j \in 1 .. b /\ i = a + j
      BY <1>1, <2>2
    <3> HIDE DEF j
    <3> QED
      BY <1>1, <1>2, <1>5, <3>1
  <2> QED
    BY <2>1, <2>2
<1>6. n + m <= Len(C)
  BY <1>1, <1>3
<1> QED
  BY <1>1, <1>3, <1>4, <1>5, <1>6 DEF Placed, C, m

(* ... and before them.                                                     *)
LEMMA PlacedAfter ==
  ASSUME NEW A, NEW n, NEW M, NEW B, Linkless(A), Placed(B, n, M)
  PROVE  Placed(A \o B, Len(A) + n, M)
<1> DEFINE C == A \o B
           a == Len(A)
           b == Len(B)
           m == Len(M)
<1>1. /\ IsList(C) /\ Len(C) = a + b /\ a \in Nat /\ b \in Nat
      /\ \A i \in 1 .. a : C[i] = A[i]
      /\ \A i \in 1 .. b : C[a + i] = B[i]
  BY ListsJoin, ListIs DEF Placed, Linkless
<1>2. \A i \in 1 .. a : A[i].key \notin MasterKeys
  BY ListIs DEF Linkless
<1>3. /\ IsList(M) /\ n \in Nat /\ m \in Nat /\ n + m <= b
      /\ \A k \in 1 .. m : B[n + k] = M[k]
      /\ \A i \in 1 .. b : B[i].key \in MasterKeys => i \in n + 1 .. n + m
  BY ListIs DEF Placed
<1> HIDE DEF C, a, b, m
<1>4. \A k \in 1 .. m : C[a + n + k] = M[k]
  <2> TAKE k \in 1 .. m
  <2> DEFINE j == n + k
  <2>1. j \in 1 .. b /\ a + n + k = a + j
    BY <1>1, <1>3
  <2>2. B[j] = M[k]
    BY <1>3
  <2> HIDE DEF j
  <2> QED
    BY <1>1, <2>1, <2>2
<1>5. ASSUME NEW i \in 1 .. Len(C), C[i].key \in MasterKeys
      PROVE  i \in a + n + 1 .. a + n + m
  <2>1. CASE i \in 1 .. a
    BY <1>1, <1>2, <1>5, <2>1
  <2>2. CASE i \notin 1 .. a
    <3> DEFINE j == i - a
    <3>1. j \in 1 .. b /\ i = a + j
      BY <1>1, <2>2
    <3> HIDE DEF j
    <3>2. j \in n + 1 .. n + m
      BY <1>1, <1>3, <1>5, <3>1
    <3> QED
      BY <1>1, <1>3, <3>1, <3>2
  <2> QED
    BY <2>1, <2>2
<1>6. a + n \in Nat /\ a + n + m <= Len(C)
  BY <1>1, <1>3
<1> QED
  BY <1>1, <1>3, <1>4, <1>5, <1>6 DEF Placed, C, a, m

(* The elements of tuples.                                                  *)
LEMMA TupleSets ==
  /\ IsList(<<>>) /\ ToSet(<<>>) = {}
  /\ \A a : IsList(<<a>>) /\ Len(<<a>>) = 1 /\ <<a>>[1] = a /\ ToSet(<<a>>) = {a}
  /\ \A a, b : /\ IsList(<<a, b>>) /\ Len(<<a, b>>) = 2 /\ ToSet(<<a, b>>) = {a, b}
               /\ <<a, b>>[1] = a /\ <<a, b>>[2] = b
  /\ \A a, b, c : /\ IsList(<<a, b, c>>) /\ Len(<<a, b, c>>) = 3 /\ ToSet(<<a, b, c>>) = {a, b, c}
                  /\ <<a, b, c>>[1] = a /\ <<a, b, c>>[2] = b /\ <<a, b, c>>[3] = c
<1>1. \A a : ToSet(<<a>>) = {a}
  BY DEF ToSet
<1>2. \A a, b : ToSet(<<a, b>>) = {a, b}
  BY DEF ToSet
<1>3. \A a, b, c : ToSet(<<a, b, c>>) = {a, b, c}
  BY DEF ToSet
<1> QED
  BY <1>1, <1>2, <1>3, TuplesListed, ToSetEmpty

(* A header, alone, with a field of its section or with another header.     *)
LEMMA HeaderFlows ==
  ASSUME NEW class
  PROVE  /\ Flows(<<Section(class)>>, class)
         /\ \A f : f.key # "#" /\ SectionOf(f.key) = class => Flows(<<Section(class), f>>, class)
<1>1. Section(class).key = "#" /\ Into(Section(class)) = class
  BY DEF Section, Into
<1> DEFINE h == Section(class)
<1> HIDE DEF h
<1>2. h.key = "#" /\ Into(h) = class
  BY <1>1 DEF h
<1>3. Flows(<<h>>, class)
  <2> DEFINE L == <<h>>
  <2>1. IsList(L) /\ Len(L) = 1 /\ L[1] = h
    BY TupleSets
  <2> HIDE DEF L
  <2>2. L[1].key = "#" /\ Into(L[1]) = class
    BY <1>2, <2>1
  <2>3. \A i \in 1 .. 1 : L[i].key = "#"
    BY <2>2
  <2>4. Flows(L, class)
    BY <2>1, <2>2, <2>3 DEF Flows, Sound
  <2> QED
    BY <2>4 DEF L
<1>4. ASSUME NEW f, f.key # "#", SectionOf(f.key) = class
      PROVE  Flows(<<h, f>>, class)
  <2> DEFINE L == <<h, f>>
  <2>1. IsList(L) /\ Len(L) = 2 /\ L[1] = h /\ L[2] = f
    BY TupleSets
  <2> HIDE DEF L
  <2>2. \A i \in 1 .. 2 : L[i].key # "#" => i > 1 /\ SectionOf(L[i].key) = Into(L[i - 1])
    <3>0. L[1].key = "#"
      BY <1>2, <2>1
    <3>1. \A i \in 1 .. 2 : L[i].key # "#" => i = 2
      BY <3>0
    <3>2. 2 > 1 /\ 2 - 1 = 1
      OBVIOUS
    <3>3. SectionOf(L[2].key) = Into(L[2 - 1])
      BY <1>2, <1>4, <2>1, <3>2
    <3> QED
      BY <3>1, <3>2, <3>3
  <2>3. Into(L[Len(L)]) = class
    BY <1>4, <2>1 DEF Into
  <2>4. Flows(L, class)
    BY <2>1, <2>2, <2>3 DEF Flows, Sound
  <2> QED
    BY <2>4 DEF L
<1> QED
  BY <1>3, <1>4 DEF h

(* The sections of the keys.                                                *)
LEMMA SectionsAre ==
  /\ \A k \in ServerKeys : SectionOf(k) = "Server" /\ k # "#" /\ k \notin MasterKeys
  /\ \A k \in ReplicationKeys : SectionOf(k) = "Replication" /\ k # "#"
  /\ \A k \in {"role", "master_host", "master_port", "slave_read_only", "connected_slaves", "slave"} :
       k \in ReplicationKeys /\ k \notin MasterKeys
  /\ SectionOf("cmdstat") = "Commandstats" /\ SectionOf("errorstat") = "Errorstats"
  /\ SectionOf("latency_percentiles_usec") = "Latencystats" /\ SectionOf("cluster_enabled") = "Cluster"
  /\ SectionOf("cluster_state") = "Cluster Info" /\ SectionOf("cluster_known_nodes") = "Cluster Info"
  /\ SectionOf("tls_server_cert_serial") = "TLS"
  /\ SectionOf("tls_server_cert_expires_in_seconds") = "TLS"
  /\ SectionOf("engines_count") = "Scripting Engines" /\ SectionOf("engine_") = "Scripting Engines"
  /\ SectionOf("db") = "Keyspace" /\ SectionOf("sentinel_masters") = "Sentinel"
  /\ SectionOf("master") = "Sentinel"
BY DEF SectionOf, ServerKeys, ReplicationKeys, MasterKeys

(* INFO, section by section: Server, ...                                    *)
LEMMA ServerLinesAre ==
  ASSUME NEW s
  PROVE  /\ Flows(ServerLines(s), "Server") /\ Linkless(ServerLines(s))
         /\ ToSet(ServerLines(s)) =
              {Section("Server"), Field("uptime_in_seconds", s.uptime)}
              \cup IF IsValkey(s)
                   THEN {Field("server_mode", s.mode), Field("valkey_version", "9.1"),
                         Field("availability_zone", s.zone)}
                   ELSE {Field("redis_mode", s.mode)}
<1> DEFINE A == <<Section("Server"), Field("uptime_in_seconds", s.uptime)>>
           B == IF IsValkey(s)
                THEN <<Field("server_mode", s.mode), Field("valkey_version", "9.1"),
                       Field("availability_zone", s.zone)>>
                ELSE <<Field("redis_mode", s.mode)>>
<1>1. ServerLines(s) = A \o B
  BY DEF ServerLines
<1>2. Flows(A, "Server")
  BY HeaderFlows, SectionsAre DEF Field, Numbered, ServerKeys
<1>3. ToSet(A) = {Section("Server"), Field("uptime_in_seconds", s.uptime)} /\ IsList(A)
  BY TupleSets
<1>4. /\ IsList(B)
      /\ ToSet(B) = IF IsValkey(s)
                    THEN {Field("server_mode", s.mode), Field("valkey_version", "9.1"),
                          Field("availability_zone", s.zone)}
                    ELSE {Field("redis_mode", s.mode)}
  <2>1. CASE IsValkey(s)
    BY <2>1, TupleSets
  <2>2. CASE ~ IsValkey(s)
    BY <2>2, TupleSets
  <2> QED
    BY <2>1, <2>2
<1> HIDE DEF A, B
<1>5. \A l \in ToSet(B) : l.key \in ServerKeys
  BY <1>4 DEF Field, Numbered, ServerKeys
<1>6. Body("Server", B)
  BY <1>4, <1>5, SectionsAre DEF Body
<1>7. \A l \in ToSet(A) : l.key \notin MasterKeys
  <2>1. Section("Server").key = "#" /\ Field("uptime_in_seconds", s.uptime).key = "uptime_in_seconds"
    BY DEF Section, Field, Numbered
  <2> QED
    BY <1>3, <2>1 DEF MasterKeys
<1>8. Linkless(A) /\ Linkless(B)
  BY <1>3, <1>4, <1>5, <1>7, SectionsAre DEF Linkless
<1> QED
  BY <1>1, <1>2, <1>3, <1>4, <1>6, <1>8, FlowsOn, LinklessJoin, ListsJoin

(* The five lines of a master.                                              *)
LEMMA MasterLineIs ==
  ASSUME NEW m, NEW n
  PROVE  /\ MasterLine(m, n)[1] = Numbered("master_host", n, m.host)
         /\ MasterLine(m, n)[2] = Numbered("master_port", n, m.port)
         /\ MasterLine(m, n)[3] = Numbered("master_link_status", n, m.link)
         /\ MasterLine(m, n)[4] = Numbered("master_last_io_seconds_ago", n, m.io)
         /\ MasterLine(m, n)[5] = Field("slave_repl_offset", m.offset)
BY DEF MasterLine

(* (five lines for each master)                                             *)
LEMMA FifthsAre ==
  ASSUME NEW n \in Nat, NEW k \in 1 .. 5 * n
  PROVE  /\ (k - 1) % 5 \in {0, 1, 2, 3, 4} /\ (k - 1) \div 5 + 1 \in 1 .. n /\ (k - 1) \div 5 \in Nat
         /\ (k - 1) % 5 # 0 => k - 1 \in 1 .. 5 * n /\ (k - 2) \div 5 = (k - 1) \div 5
                               /\ (k - 2) % 5 = ((k - 1) % 5) - 1
OBVIOUS

(* ... the links to the masters, ...                                        *)
LEMMA MasterLinesAre ==
  ASSUME NEW s, NEW S, s.masters \in Seq(S)
  PROVE  LET n == Len(s.masters)
             F == MasterLines(s)
         IN /\ n \in Nat /\ IsList(F) /\ Len(F) = 5 * n
            /\ \A k \in 1 .. 5 * n :
                 LET q == (k - 1) \div 5
                     r == (k - 1) % 5
                     m == s.masters[q + 1]
                 IN F[k] = CASE r = 0 -> Numbered("master_host", q, m.host)
                             [] r = 1 -> Numbered("master_port", q, m.port)
                             [] r = 2 -> Numbered("master_link_status", q, m.link)
                             [] r = 3 -> Numbered("master_last_io_seconds_ago", q, m.io)
                             [] r = 4 -> Field("slave_repl_offset", m.offset)
<1> DEFINE n == Len(s.masters)
           F == MasterLines(s)
<1>1. n \in Nat
  BY LenProperties
<1>2. F = [i \in 1 .. 5 * n |-> MasterLine(s.masters[(i - 1) \div 5 + 1], (i - 1) \div 5)[1 + ((i - 1) % 5)]]
  BY DEF MasterLines
<1> HIDE DEF n, F
<1>3. 5 * n \in Nat /\ F = [i \in 1 .. 5 * n |-> F[i]]
  BY <1>1, <1>2
<1>4. IsList(F) /\ Len(F) = 5 * n
  BY <1>3, MapList
<1>5. ASSUME NEW k \in 1 .. 5 * n
      PROVE  LET q == (k - 1) \div 5
                 r == (k - 1) % 5
                 m == s.masters[q + 1]
             IN F[k] = CASE r = 0 -> Numbered("master_host", q, m.host)
                         [] r = 1 -> Numbered("master_port", q, m.port)
                         [] r = 2 -> Numbered("master_link_status", q, m.link)
                         [] r = 3 -> Numbered("master_last_io_seconds_ago", q, m.io)
                         [] r = 4 -> Field("slave_repl_offset", m.offset)
  <2> DEFINE q == (k - 1) \div 5
             r == (k - 1) % 5
             m == s.masters[q + 1]
  <2>1. F[k] = MasterLine(m, q)[1 + r]
    BY <1>2
  <2>2. r \in {0, 1, 2, 3, 4}
    BY <1>1, FifthsAre
  <2> HIDE DEF q, r, m
  <2>3. F[k] = CASE r = 0 -> Numbered("master_host", q, m.host)
                 [] r = 1 -> Numbered("master_port", q, m.port)
                 [] r = 2 -> Numbered("master_link_status", q, m.link)
                 [] r = 3 -> Numbered("master_last_io_seconds_ago", q, m.io)
                 [] r = 4 -> Field("slave_repl_offset", m.offset)
    <3>1. CASE r = 0
      <4>1. 1 + r = 1
        BY <3>1
      <4> QED
        BY <2>1, <3>1, <4>1, MasterLineIs
    <3>2. CASE r = 1
      <4>1. 1 + r = 2
        BY <3>2
      <4> QED
        BY <2>1, <3>2, <4>1, MasterLineIs
    <3>3. CASE r = 2
      <4>1. 1 + r = 3
        BY <3>3
      <4> QED
        BY <2>1, <3>3, <4>1, MasterLineIs
    <3>4. CASE r = 3
      <4>1. 1 + r = 4
        BY <3>4
      <4> QED
        BY <2>1, <3>4, <4>1, MasterLineIs
    <3>5. CASE r = 4
      <4>1. 1 + r = 5
        BY <3>5
      <4> QED
        BY <2>1, <3>5, <4>1, MasterLineIs
    <3> QED
      BY <2>2, <3>1, <3>2, <3>3, <3>4, <3>5
  <2> QED
    BY <2>3 DEF q, r, m
<1> QED
  BY <1>1, <1>4, <1>5 DEF n, F

(* ... which belong to Replication, ...                                     *)
LEMMA MasterKeysAre ==
  ASSUME NEW s, NEW S, s.masters \in Seq(S)
  PROVE  /\ Body("Replication", MasterLines(s))
         /\ \A l \in ToSet(MasterLines(s)) :
              l.key \in MasterKeys \cup {"master_host", "master_port"}
<1> DEFINE n == Len(s.masters)
           F == MasterLines(s)
<1>1. n \in Nat /\ IsList(F) /\ Len(F) = 5 * n
  BY MasterLinesAre
<1>2. ASSUME NEW k \in 1 .. 5 * n
      PROVE  F[k].key \in MasterKeys \cup {"master_host", "master_port"}
  <2> DEFINE q == (k - 1) \div 5
             r == (k - 1) % 5
             m == s.masters[q + 1]
  <2>1. F[k] = CASE r = 0 -> Numbered("master_host", q, m.host)
                 [] r = 1 -> Numbered("master_port", q, m.port)
                 [] r = 2 -> Numbered("master_link_status", q, m.link)
                 [] r = 3 -> Numbered("master_last_io_seconds_ago", q, m.io)
                 [] r = 4 -> Field("slave_repl_offset", m.offset)
    BY MasterLinesAre
  <2>2. r \in {0, 1, 2, 3, 4}
    BY <1>1, FifthsAre
  <2> HIDE DEF q, r, m, F
  <2> QED
    BY <2>1, <2>2 DEF Numbered, Field, MasterKeys
<1> HIDE DEF n, F
<1>3. \A l \in ToSet(F) : l.key \in MasterKeys \cup {"master_host", "master_port"}
  BY <1>1, <1>2, ListIs
<1>4. MasterKeys \cup {"master_host", "master_port"} \subseteq ReplicationKeys
  BY DEF ReplicationKeys
<1> QED
  BY <1>1, <1>3, <1>4, SectionsAre DEF Body, F

(* (links are placed in themselves)                                         *)
LEMMA PlacedSelf == ASSUME NEW M, IsList(M) PROVE Placed(M, 0, M)
<1>1. Len(M) \in Nat
  BY ListIs
<1> DEFINE m == Len(M)
<1> HIDE DEF m
<1>2. m \in Nat /\ 0 + m <= m /\ \A k \in 1 .. m : 0 + k = k /\ k \in 0 + 1 .. 0 + m
  BY <1>1 DEF m
<1> QED
  BY <1>2 DEF Placed, m

(* A list made of the elements of another one.                              *)
LEMMA SlavesList ==
  ASSUME NEW S, NEW r \in Seq(S)
  PROVE  LET Z == [i \in DOMAIN r |-> Numbered("slave", i - 1, r[i])]
         IN IsList(Z) /\ ToSet(Z) = {Numbered("slave", i - 1, r[i]) : i \in DOMAIN r}
<1> DEFINE Z == [i \in DOMAIN r |-> Numbered("slave", i - 1, r[i])]
<1>1. Len(r) \in Nat /\ DOMAIN r = 1 .. Len(r)
  BY LenProperties
<1>2. Z = [i \in 1 .. Len(r) |-> Z[i]]
  BY <1>1
<1>3. ToSet(Z) = {Numbered("slave", i - 1, r[i]) : i \in DOMAIN r}
  BY DEF ToSet
<1> HIDE DEF Z
<1> QED
  BY <1>1, <1>2, <1>3, MapList DEF Z

(* ... Replication, ...                                                     *)
LEMMA ReplicationLinesAre ==
  ASSUME NEW s, NEW S, s.masters \in Seq(S), NEW T, s.slaves \in Seq(T)
  PROVE  /\ Flows(ReplicationLines(s), "Replication")
         /\ Placed(ReplicationLines(s), 2, MasterLines(s))
         /\ ToSet(ReplicationLines(s)) =
              {Section("Replication"), Field("role", s.role)} \cup ToSet(MasterLines(s))
              \cup (IF s.masters = <<>> THEN {} ELSE {Field("slave_read_only", "1")})
              \cup {Field("connected_slaves", "2")}
              \cup {Numbered("slave", i - 1, s.slaves[i]) : i \in DOMAIN s.slaves}
<1> DEFINE A == <<Section("Replication"), Field("role", s.role)>>
           M == MasterLines(s)
           X == IF s.masters = <<>> THEN <<>> ELSE <<Field("slave_read_only", "1")>>
           Y == <<Field("connected_slaves", "2")>>
           Z == [i \in DOMAIN s.slaves |-> Numbered("slave", i - 1, s.slaves[i])]
           AM == A \o M
           AX == AM \o X
           AY == AX \o Y
           R == AY \o Z
           c == "Replication"
<1>1. ReplicationLines(s) = R
  BY DEF ReplicationLines
<1>2. Flows(A, c)
  BY HeaderFlows, SectionsAre DEF Field, Numbered
<1>3. ToSet(A) = {Section(c), Field("role", s.role)} /\ IsList(A) /\ Len(A) = 2
  BY TupleSets
<1>4. IsList(X) /\ ToSet(X) = IF s.masters = <<>> THEN {} ELSE {Field("slave_read_only", "1")}
  <2>1. CASE s.masters = <<>>
    BY <2>1, TupleSets
  <2>2. CASE s.masters # <<>>
    BY <2>2, TupleSets
  <2> QED
    BY <2>1, <2>2
<1>5. IsList(Y) /\ ToSet(Y) = {Field("connected_slaves", "2")}
  BY TupleSets
<1>6. IsList(Z) /\ ToSet(Z) = {Numbered("slave", i - 1, s.slaves[i]) : i \in DOMAIN s.slaves}
  BY SlavesList
<1> HIDE DEF A, M, X, Y, Z
<1>7. /\ \A l \in ToSet(A) : l.key \notin MasterKeys
      /\ \A l \in ToSet(X) : l.key = "slave_read_only"
      /\ \A l \in ToSet(Y) : l.key = "connected_slaves"
      /\ \A l \in ToSet(Z) : l.key = "slave"
  <2>1. Section(c).key = "#" /\ Field("role", s.role).key = "role"
    BY DEF Section, Field, Numbered
  <2>2. \A l \in ToSet(A) : l.key \notin MasterKeys
    BY <1>3, <2>1 DEF MasterKeys
  <2>3. \A l \in ToSet(X) : l.key = "slave_read_only"
    BY <1>4 DEF Field, Numbered
  <2>4. \A l \in ToSet(Y) : l.key = "connected_slaves"
    BY <1>5 DEF Field, Numbered
  <2>5. \A l \in ToSet(Z) : l.key = "slave"
    BY <1>6 DEF Numbered
  <2> QED
    BY <2>2, <2>3, <2>4, <2>5
<1>8. Body(c, M) /\ Body(c, X) /\ Body(c, Y) /\ Body(c, Z)
  <2>1. Body(c, M)
    BY MasterKeysAre DEF M
  <2>2. Body(c, X) /\ Body(c, Y) /\ Body(c, Z)
    BY <1>4, <1>5, <1>6, <1>7, SectionsAre DEF Body
  <2> QED
    BY <2>1, <2>2
<1>9. Linkless(A) /\ Linkless(X) /\ Linkless(Y) /\ Linkless(Z)
  BY <1>3, <1>4, <1>5, <1>6, <1>7, SectionsAre DEF Linkless
<1>10. IsList(M)
  BY <1>8 DEF Body
<1>11. Flows(AM, c) /\ Placed(AM, 2, M) /\ ToSet(AM) = ToSet(A) \cup ToSet(M) /\ IsList(AM)
  <2>1. Placed(AM, 2 + 0, M)
    BY <1>3, <1>9, <1>10, PlacedSelf, PlacedAfter
  <2>2. 2 + 0 = 2
    OBVIOUS
  <2> QED
    BY <1>2, <1>3, <1>8, <1>10, <2>1, <2>2, FlowsOn, ListsJoin
<1> HIDE DEF AM
<1>12. Flows(AX, c) /\ Placed(AX, 2, M) /\ ToSet(AX) = ToSet(AM) \cup ToSet(X) /\ IsList(AX)
  BY <1>4, <1>8, <1>9, <1>11, FlowsOn, ListsJoin, PlacedBefore
<1> HIDE DEF AX
<1>13. Flows(AY, c) /\ Placed(AY, 2, M) /\ ToSet(AY) = ToSet(AX) \cup ToSet(Y) /\ IsList(AY)
  BY <1>5, <1>8, <1>9, <1>12, FlowsOn, ListsJoin, PlacedBefore
<1> HIDE DEF AY
<1>14. Flows(R, c) /\ Placed(R, 2, M) /\ ToSet(R) = ToSet(AY) \cup ToSet(Z)
  BY <1>6, <1>8, <1>9, <1>13, FlowsOn, ListsJoin, PlacedBefore
<1> HIDE DEF R
<1> QED
  BY <1>1, <1>3, <1>4, <1>5, <1>6, <1>11, <1>12, <1>13, <1>14 DEF M

(* (a list made of another)                                                 *)
LEMMA MappedList ==
  ASSUME NEW S, NEW r \in Seq(S), NEW T, NEW F \in [DOMAIN r -> T], \A e \in T : \E i \in DOMAIN r : e = F[i]
  PROVE  IsList(F) /\ ToSet(F) = T
<1>1. Len(r) \in Nat /\ DOMAIN r = 1 .. Len(r)
  BY LenProperties
<1>2. F = [i \in 1 .. Len(r) |-> F[i]]
  BY <1>1
<1>3. IsList(F) /\ DOMAIN F = DOMAIN r
  BY <1>1, <1>2, MapList
<1> QED
  BY <1>3 DEF ToSet

(* A header with the fields of its section.                                 *)
LEMMA SectionListed ==
  ASSUME NEW c, NEW F, IsList(F), \A l \in ToSet(F) : l.key # "#" /\ SectionOf(l.key) = c /\ l.key \notin MasterKeys
  PROVE  /\ Flows(<<Section(c)>> \o F, c) /\ Linkless(<<Section(c)>> \o F)
         /\ ToSet(<<Section(c)>> \o F) = {Section(c)} \cup ToSet(F)
<1> DEFINE A == <<Section(c)>>
<1>1. Flows(A, c)
  BY HeaderFlows
<1>2. IsList(A) /\ ToSet(A) = {Section(c)}
  BY TupleSets
<1>3. Section(c).key \notin MasterKeys
  BY DEF Section, MasterKeys
<1>4. Linkless(A)
  BY <1>2, <1>3 DEF Linkless
<1> HIDE DEF A
<1>5. Body(c, F) /\ Linkless(F)
  BY DEF Body, Linkless
<1>6. Flows(A \o F, c) /\ Linkless(A \o F) /\ ToSet(A \o F) = {Section(c)} \cup ToSet(F)
  BY <1>1, <1>2, <1>4, <1>5, FlowsOn, LinklessJoin, ListsJoin
<1> QED
  BY <1>6 DEF A

(* ... Keyspace, ...                                                        *)
LEMMA KeyspaceLinesAre ==
  ASSUME NEW s, NEW S, s.keyspace \in Seq(S)
  PROVE  /\ Flows(KeyspaceLines(s), "Keyspace") /\ Linkless(KeyspaceLines(s))
         /\ ToSet(KeyspaceLines(s)) =
              {Section("Keyspace")}
              \cup {Numbered("db", s.keyspace[i].db, s.keyspace[i]) : i \in DOMAIN s.keyspace}
<1> DEFINE F == [i \in DOMAIN s.keyspace |-> Numbered("db", s.keyspace[i].db, s.keyspace[i])]
           T == {Numbered("db", s.keyspace[i].db, s.keyspace[i]) : i \in DOMAIN s.keyspace}
<1>1. KeyspaceLines(s) = <<Section("Keyspace")>> \o F
  BY DEF KeyspaceLines
<1>2. F \in [DOMAIN s.keyspace -> T] /\ \A e \in T : \E i \in DOMAIN s.keyspace : e = F[i]
  OBVIOUS
<1>3. \A l \in T : l.key = "db"
  BY DEF Numbered
<1> HIDE DEF F, T
<1>4. IsList(F) /\ ToSet(F) = T
  BY <1>2, MappedList
<1>5. \A l \in ToSet(F) : l.key = "db"
  BY <1>3, <1>4
<1>6. "db" # "#" /\ SectionOf("db") = "Keyspace" /\ "db" \notin MasterKeys
  BY SectionsAre DEF MasterKeys
<1>7. \A l \in ToSet(F) : l.key # "#" /\ SectionOf(l.key) = "Keyspace" /\ l.key \notin MasterKeys
  BY <1>5, <1>6
<1>8. LET K == <<Section("Keyspace")>> \o F
      IN Flows(K, "Keyspace") /\ Linkless(K) /\ ToSet(K) = {Section("Keyspace")} \cup ToSet(F)
  BY <1>4, <1>7, SectionListed
<1> QED
  BY <1>1, <1>4, <1>8 DEF T

(* ... Sentinel, ...                                                        *)
LEMMA SentinelLinesAre ==
  ASSUME NEW s, NEW S, s.watched \in Seq(S)
  PROVE  /\ Flows(SentinelLines(s), "Sentinel") /\ Linkless(SentinelLines(s))
         /\ ToSet(SentinelLines(s)) =
              {Section("Sentinel"), Field("sentinel_masters", "2")}
              \cup {Numbered("master", i - 1, s.watched[i]) : i \in DOMAIN s.watched}
<1> DEFINE A == <<Section("Sentinel"), Field("sentinel_masters", "2")>>
           F == [i \in DOMAIN s.watched |-> Numbered("master", i - 1, s.watched[i])]
           T == {Numbered("master", i - 1, s.watched[i]) : i \in DOMAIN s.watched}
<1>1. SentinelLines(s) = A \o F
  BY DEF SentinelLines
<1>2. F \in [DOMAIN s.watched -> T] /\ \A e \in T : \E i \in DOMAIN s.watched : e = F[i]
  OBVIOUS
<1>3. \A l \in T : l.key = "master"
  BY DEF Numbered
<1>4. Flows(A, "Sentinel")
  BY HeaderFlows, SectionsAre DEF Field, Numbered
<1>5. IsList(A) /\ ToSet(A) = {Section("Sentinel"), Field("sentinel_masters", "2")}
  BY TupleSets
<1> HIDE DEF A, F, T
<1>6. IsList(F) /\ ToSet(F) = T
  BY <1>2, MappedList
<1>7. \A l \in ToSet(F) : l.key = "master"
  BY <1>3, <1>6
<1>8. Section("Sentinel").key = "#" /\ Field("sentinel_masters", "2").key = "sentinel_masters"
  BY DEF Section, Field, Numbered
<1>9. {"#", "sentinel_masters", "master"} \cap MasterKeys = {} /\ "master" # "#" /\ SectionOf("master") = "Sentinel"
  BY SectionsAre DEF MasterKeys
<1>10. Linkless(A) /\ Linkless(F) /\ Body("Sentinel", F)
  BY <1>5, <1>6, <1>7, <1>8, <1>9 DEF Linkless, Body
<1> QED
  BY <1>1, <1>4, <1>5, <1>6, <1>10, FlowsOn, LinklessJoin, ListsJoin DEF T

(* (tuples in parts)                                                        *)
LEMMA TriplesSplit ==
  /\ \A a, b, c : <<a, b, c>> = <<a, b>> \o <<c>>
  /\ \A a, b, c, d, e, f : <<a, b, c, d, e, f>> = <<a, b, c>> \o <<d, e, f>>
OBVIOUS

(* ... Commandstats, Errorstats and Latencystats, ...                       *)
LEMMA CommandLinesAre ==
  ASSUME NEW s, NEW S, s.commands \in Seq(S), NEW U, s.latencies \in Seq(U)
  PROVE  /\ Flows(CommandLines(s), "Latencystats") /\ Linkless(CommandLines(s))
         /\ ToSet(CommandLines(s)) =
              {Section("Commandstats"), Section("Errorstats"), Section("Latencystats"),
               Field("errorstat", [err |-> "ERR", count |-> 3])}
              \cup {Field("cmdstat", s.commands[i]) : i \in DOMAIN s.commands}
              \cup {Field("latency_percentiles_usec", s.latencies[i]) : i \in DOMAIN s.latencies}
<1> DEFINE F == [i \in DOMAIN s.commands |-> Field("cmdstat", s.commands[i])]
           G == [i \in DOMAIN s.latencies |-> Field("latency_percentiles_usec", s.latencies[i])]
           FT == {Field("cmdstat", s.commands[i]) : i \in DOMAIN s.commands}
           GT == {Field("latency_percentiles_usec", s.latencies[i]) : i \in DOMAIN s.latencies}
           f == Field("errorstat", [err |-> "ERR", count |-> 3])
           E == <<Section("Errorstats"), f>>
           H == <<Section("Latencystats")>>
           K == <<Section("Commandstats")>> \o F
           EH == E \o H
           L == K \o EH
<1>1. CommandLines(s) = L \o G
  <2>1. CommandLines(s) = K \o <<Section("Errorstats"), f, Section("Latencystats")>> \o G
    BY DEF CommandLines
  <2>2. EH = <<Section("Errorstats"), f, Section("Latencystats")>>
    BY TriplesSplit
  <2> HIDE DEF K, EH, G
  <2> QED
    BY <2>1, <2>2
<1>2. F \in [DOMAIN s.commands -> FT] /\ \A e \in FT : \E i \in DOMAIN s.commands : e = F[i]
  OBVIOUS
<1>3. G \in [DOMAIN s.latencies -> GT] /\ \A e \in GT : \E i \in DOMAIN s.latencies : e = G[i]
  OBVIOUS
<1>4. /\ \A l \in FT : l.key = "cmdstat"
      /\ \A l \in GT : l.key = "latency_percentiles_usec"
      /\ f.key = "errorstat"
  BY DEF Field, Numbered
<1> HIDE DEF F, G, FT, GT, f
<1>5. {"#", "errorstat", "cmdstat", "latency_percentiles_usec"} \cap MasterKeys = {}
  BY DEF MasterKeys
<1>6. IsList(F) /\ ToSet(F) = FT /\ IsList(G) /\ ToSet(G) = GT
  <2>1. IsList(F) /\ ToSet(F) = FT
    BY <1>2, MappedList
  <2>2. IsList(G) /\ ToSet(G) = GT
    BY <1>3, MappedList
  <2> QED
    BY <2>1, <2>2
<1>7. \A l \in ToSet(F) : l.key # "#" /\ SectionOf(l.key) = "Commandstats" /\ l.key \notin MasterKeys
  BY <1>4, <1>5, <1>6, SectionsAre
<1>8. Flows(K, "Commandstats") /\ Linkless(K) /\ ToSet(K) = {Section("Commandstats")} \cup FT
  BY <1>6, <1>7, SectionListed
<1>9. Flows(E, "Errorstats") /\ Flows(H, "Latencystats")
  <2>1. f.key # "#" /\ SectionOf(f.key) = "Errorstats"
    BY <1>4, SectionsAre
  <2> QED
    BY <2>1, HeaderFlows
<1>10. ToSet(E) = {Section("Errorstats"), f} /\ ToSet(H) = {Section("Latencystats")} /\ IsList(E) /\ IsList(H)
  BY TupleSets
<1>11. Linkless(E) /\ Linkless(H)
  <2>1. \A c : Section(c).key = "#"
    BY DEF Section
  <2> QED
    BY <1>4, <1>5, <1>10, <2>1 DEF Linkless
<1> HIDE DEF E, H, K
<1>12. Flows(EH, "Latencystats") /\ Linkless(EH) /\ ToSet(EH) = ToSet(E) \cup ToSet(H)
  BY <1>9, <1>11, FlowsThen, LinklessJoin, ListsJoin DEF Linkless
<1> HIDE DEF EH
<1>13. Flows(L, "Latencystats") /\ Linkless(L) /\ ToSet(L) = ToSet(K) \cup ToSet(EH)
  BY <1>8, <1>12, FlowsThen, LinklessJoin, ListsJoin DEF Linkless
<1>14. Body("Latencystats", G) /\ Linkless(G)
  BY <1>4, <1>5, <1>6, SectionsAre DEF Body, Linkless
<1> HIDE DEF L
<1>15. Flows(L \o G, "Latencystats") /\ Linkless(L \o G) /\ ToSet(L \o G) = ToSet(L) \cup ToSet(G)
  BY <1>13, <1>14, FlowsOn, LinklessJoin, ListsJoin DEF Linkless
<1>16. ToSet(L \o G) = {Section("Commandstats"), Section("Errorstats"), Section("Latencystats"), f} \cup FT \cup GT
  BY <1>6, <1>8, <1>10, <1>12, <1>13, <1>15
<1> QED
  BY <1>1, <1>15, <1>16 DEF FT, GT, f

(* ... Cluster ...                                                          *)
LEMMA ClusterLinesAre ==
  ASSUME NEW s
  PROVE  /\ \E class : Flows(ClusterLines(s), class)
         /\ Linkless(ClusterLines(s))
         /\ ToSet(ClusterLines(s)) =
              {Section("Cluster"), Field("cluster_enabled", IF s.cluster = "off" THEN "0" ELSE "1")}
              \cup IF IsValkey(s) /\ s.cluster # "off"
                   THEN {Section("Cluster Info"), Field("cluster_state", "ok"),
                         Field("cluster_known_nodes", "3")}
                   ELSE {}
<1> DEFINE g == Field("cluster_enabled", IF s.cluster = "off" THEN "0" ELSE "1")
           ci == "Cluster Info"
           i == Section(ci)
           j == Field("cluster_state", "ok")
           k == Field("cluster_known_nodes", "3")
           A == <<Section("Cluster"), g>>
           N == <<i>>
           M == <<j, k>>
           B == N \o M
           repeated == IsValkey(s) /\ s.cluster # "off"
<1>1. ClusterLines(s) = A \o (IF repeated THEN B ELSE <<>>)
  BY DEF ClusterLines, ClusterReply
<1>2. g.key = "cluster_enabled" /\ j.key = "cluster_state" /\ k.key = "cluster_known_nodes" /\ i.key = "#"
      /\ Section("Cluster").key = "#"
  BY DEF Field, Numbered, Section
<1>3. SectionOf("cluster_enabled") = "Cluster" /\ SectionOf("cluster_state") = ci /\ SectionOf("cluster_known_nodes") = ci
  BY SectionsAre
<1>4. ToSet(A) = {Section("Cluster"), g} /\ IsList(A) /\ ToSet(N) = {i} /\ IsList(N) /\ ToSet(M) = {j, k} /\ IsList(M)
  BY TupleSets
<1> HIDE DEF g, j, k
<1>5. Flows(A, "Cluster")
  BY <1>2, <1>3, HeaderFlows
<1>6. Flows(N, ci)
  BY HeaderFlows
<1> HIDE DEF ci, i, repeated
<1>7. {"#", "cluster_enabled", "cluster_state", "cluster_known_nodes"} \cap MasterKeys = {}
  BY DEF MasterKeys
<1> HIDE DEF A, N, M
<1>8. Linkless(A) /\ Linkless(N) /\ Linkless(M)
  BY <1>2, <1>4, <1>7 DEF Linkless
<1>9. Body(ci, M)
  BY <1>2, <1>3, <1>4 DEF Body
<1>10. Flows(B, ci) /\ Linkless(B) /\ ToSet(B) = {i, j, k}
  BY <1>4, <1>6, <1>8, <1>9, FlowsOn, LinklessJoin, ListsJoin
<1> HIDE DEF B
<1> DEFINE AB == A \o B
<1>11. Flows(AB, ci) /\ Linkless(AB) /\ ToSet(AB) = {Section("Cluster"), g, i, j, k}
  BY <1>4, <1>5, <1>8, <1>10, FlowsThen, LinklessJoin, ListsJoin DEF Linkless
<1>12. A \o <<>> = A
  BY <1>4 DEF IsList
<1> HIDE DEF AB
<1>13. CASE repeated
  <2>1. ClusterLines(s) = AB
    BY <1>1, <1>13 DEF AB
  <2>2. \E class : Flows(ClusterLines(s), class)
    BY <1>11, <2>1
  <2>3. Linkless(ClusterLines(s)) /\ ToSet(ClusterLines(s)) = {Section("Cluster"), g, i, j, k}
    BY <1>11, <2>1
  <2>4. ToSet(ClusterLines(s)) = {Section("Cluster"), g} \cup (IF repeated THEN {i, j, k} ELSE {})
    BY <1>13, <2>3
  <2> QED
    BY <2>2, <2>3, <2>4, Zenon DEF g, i, j, k, ci, repeated
<1>14. CASE ~ repeated
  <2>1. ClusterLines(s) = A
    BY <1>1, <1>12, <1>14
  <2>2. ToSet(ClusterLines(s)) = {Section("Cluster"), g} \cup (IF repeated THEN {i, j, k} ELSE {})
    BY <1>4, <1>14, <2>1
  <2>3. Linkless(ClusterLines(s)) /\ \E class : Flows(ClusterLines(s), class)
    BY <1>5, <1>8, <2>1
  <2> QED
    BY <2>2, <2>3, Zenon DEF g, i, j, k, ci, repeated
<1> QED
  BY <1>13, <1>14

(* ... and what only Valkey has.                                            *)
LEMMA ValkeyLinesAre ==
  ASSUME NEW s
  PROVE  /\ ValkeyLines(s) = <<>> \/ \E class : Flows(ValkeyLines(s), class)
         /\ Linkless(ValkeyLines(s))
         /\ ToSet(ValkeyLines(s)) =
              IF IsValkey(s)
              THEN {Section("TLS"), Field("tls_server_cert_serial", "a1"),
                    Field("tls_server_cert_expires_in_seconds", "3"),
                    Section("Scripting Engines"), Field("engines_count", "1"),
                    Numbered("engine_", 0, [name |-> "LUA", module |-> "lua", abi |-> "4", memory |-> 2])}
              ELSE {}
<1> DEFINE se == "Scripting Engines"
           a == Field("tls_server_cert_serial", "a1")
           b == Field("tls_server_cert_expires_in_seconds", "3")
           c == Field("engines_count", "1")
           d == Numbered("engine_", 0, [name |-> "LUA", module |-> "lua", abi |-> "4", memory |-> 2])
           h == Section("TLS")
           i == Section(se)
           A == <<h, a>>
           B == <<b>>
           C == <<i, c>>
           D == <<d>>
           AB == A \o B
           CD == C \o D
<1>1. ValkeyLines(s) = IF IsValkey(s) THEN AB \o CD ELSE <<>>
  <2>1. ValkeyLines(s) = IF IsValkey(s) THEN <<h, a, b, i, c, d>> ELSE <<>>
    BY Zenon DEF ValkeyLines
  <2> HIDE DEF a, b, c, d, h, i
  <2>2. <<h, a, b>> = AB /\ <<i, c, d>> = CD
    BY TriplesSplit
  <2> HIDE DEF AB, CD
  <2>3. <<h, a, b, i, c, d>> = <<h, a, b>> \o <<i, c, d>>
    OBVIOUS
  <2>4. <<h, a, b, i, c, d>> = AB \o CD
    BY <2>2, <2>3, Zenon
  <2> QED
    BY <2>1, <2>4
<1>2. /\ a.key = "tls_server_cert_serial" /\ b.key = "tls_server_cert_expires_in_seconds"
      /\ c.key = "engines_count" /\ d.key = "engine_" /\ h.key = "#" /\ i.key = "#"
  BY DEF Field, Numbered, Section
<1>3. /\ SectionOf("tls_server_cert_serial") = "TLS"
      /\ SectionOf("tls_server_cert_expires_in_seconds") = "TLS"
      /\ SectionOf("engines_count") = se /\ SectionOf("engine_") = se
  BY SectionsAre
<1> HIDE DEF a, b, c, d
<1>4. Flows(A, "TLS") /\ Flows(C, se)
  BY <1>2, <1>3, HeaderFlows
<1> HIDE DEF h, i, se
<1>5. /\ ToSet(A) = {h, a} /\ IsList(A) /\ ToSet(B) = {b} /\ IsList(B)
      /\ ToSet(C) = {i, c} /\ IsList(C) /\ ToSet(D) = {d} /\ IsList(D)
  BY TupleSets
<1>6. {"#", "tls_server_cert_serial", "tls_server_cert_expires_in_seconds", "engines_count", "engine_"}
        \cap MasterKeys = {}
  BY DEF MasterKeys
<1> HIDE DEF A, B, C, D
<1>7. Linkless(A) /\ Linkless(B) /\ Linkless(C) /\ Linkless(D)
  BY <1>2, <1>5, <1>6 DEF Linkless
<1>8. Body("TLS", B) /\ Body(se, D)
  BY <1>2, <1>3, <1>5 DEF Body
<1>9. Flows(AB, "TLS") /\ Linkless(AB) /\ ToSet(AB) = {h, a, b}
  BY <1>4, <1>5, <1>7, <1>8, FlowsOn, LinklessJoin, ListsJoin
<1>10. Flows(CD, se) /\ Linkless(CD) /\ ToSet(CD) = {i, c, d}
  BY <1>4, <1>5, <1>7, <1>8, FlowsOn, LinklessJoin, ListsJoin
<1> HIDE DEF AB, CD
<1> DEFINE L == AB \o CD
<1>11. Flows(L, se) /\ Linkless(L) /\ ToSet(L) = {h, a, b, i, c, d}
  BY <1>9, <1>10, FlowsThen, LinklessJoin, ListsJoin DEF Linkless
<1> HIDE DEF L
<1>12. CASE IsValkey(s)
  <2>1. ValkeyLines(s) = L
    BY <1>1, <1>12 DEF L
  <2>2. Linkless(ValkeyLines(s)) /\ ToSet(ValkeyLines(s)) = IF IsValkey(s) THEN {h, a, b, i, c, d} ELSE {}
    BY <1>11, <1>12, <2>1
  <2>3. \E class : Flows(ValkeyLines(s), class)
    BY <1>11, <2>1
  <2> QED
    BY <2>2, <2>3, Zenon DEF h, a, b, i, c, d, se
<1>13. CASE ~ IsValkey(s)
  <2>1. ValkeyLines(s) = <<>>
    BY <1>1, <1>13
  <2>2. Linkless(ValkeyLines(s)) /\ ToSet(ValkeyLines(s)) = {}
    BY <2>1, TupleSets DEF Linkless
  <2> QED
    BY <1>13, <2>1, <2>2
<1> QED
  BY <1>12, <1>13

(* INFO's lines, of all sections.                                           *)
LineSet(s) ==
  ToSet(ServerLines(s))
  \cup IF IsSentinel(s) THEN ToSet(SentinelLines(s))
       ELSE ToSet(ReplicationLines(s)) \cup ToSet(CommandLines(s)) \cup ToSet(ValkeyLines(s))
            \cup ToSet(ClusterLines(s)) \cup ToSet(KeyspaceLines(s))

(* What is assumed of any server.                                           *)
LEMMA TypesOf ==
  ASSUME NEW s \in Servers
  PROVE  /\ ServerTypes(s) /\ Consistent(s)
         /\ IsList(s.masters) /\ IsList(s.slaves) /\ IsList(s.commands) /\ IsList(s.latencies)
         /\ IsList(s.keyspace) /\ IsList(s.watched)
<1>1. ServerTypes(s) /\ Consistent(s)
  BY ServersAssumption
<1> QED
  BY <1>1 DEF ServerTypes, IsList

(* INFO as a whole, of a Sentinel ...                                       *)
LEMMA SentinelLinesFlow ==
  ASSUME NEW s \in Servers, IsSentinel(s)
  PROVE  /\ Sound(InfoAll(s)) /\ Placed(InfoAll(s), Ahead(s), MasterLines(s))
         /\ ToSet(InfoAll(s)) = LineSet(s) /\ IsList(InfoAll(s))
<1> DEFINE A == ServerLines(s)
           B == SentinelLines(s)
           L == A \o B
           M == MasterLines(s)
           n == Ahead(s)
<1>1. InfoAll(s) = L
  BY DEF InfoAll
<1>2. s.role = "" /\ s.masters = <<>>
  BY TypesOf DEF Consistent
<1>3. IsList(M) /\ Len(M) = 0
  <2>1. s.masters \in Seq({}) /\ Len(s.masters) = 0
    BY <1>2, TuplesAre
  <2>2. IsList(M) /\ Len(M) = 5 * Len(s.masters)
    BY <1>2, <2>1, MasterLinesAre
  <2> QED
    BY <2>1, <2>2
<1>4. Flows(A, "Server") /\ Linkless(A) /\ IsList(A)
  BY ServerLinesAre DEF Linkless
<1>5. Flows(B, "Sentinel") /\ Linkless(B) /\ IsList(B)
  <2>1. PICK S : s.watched \in Seq(S)
    BY TypesOf DEF IsList
  <2> QED
    BY <2>1, SentinelLinesAre DEF Linkless
<1>6. Len(B) >= 2
  <2> DEFINE C == <<Section("Sentinel"), Field("sentinel_masters", "2")>>
             F == [i \in DOMAIN s.watched |-> Numbered("master", i - 1, s.watched[i])]
             T == {Numbered("master", i - 1, s.watched[i]) : i \in DOMAIN s.watched}
  <2>1. B = C \o F
    BY DEF SentinelLines
  <2>2. IsList(C) /\ Len(C) = 2
    BY TupleSets
  <2>3. PICK S : s.watched \in Seq(S)
    BY TypesOf DEF IsList
  <2>4. F \in [DOMAIN s.watched -> T] /\ \A e \in T : \E i \in DOMAIN s.watched : e = F[i]
    OBVIOUS
  <2> HIDE DEF B, C, F, T
  <2>5. IsList(F)
    BY <2>3, <2>4, MappedList
  <2>6. Len(F) \in Nat
    BY <2>5, ListIs
  <2>7. Len(C \o F) = Len(C) + Len(F)
    BY <2>2, <2>5, ListsJoin
  <2>8. Len(B) = 2 + Len(F)
    BY <2>1, <2>2, <2>7
  <2> QED
    BY <2>6, <2>8
<1> HIDE DEF A, B, M
<1>7. Flows(L, "Sentinel") /\ Linkless(L) /\ ToSet(L) = ToSet(A) \cup ToSet(B)
  BY <1>4, <1>5, FlowsThen, LinklessJoin, ListsJoin
<1>8. Len(L) = Len(A) + Len(B) /\ Len(A) \in Nat /\ Len(B) \in Nat /\ IsList(L)
  BY <1>4, <1>5, ListsJoin, ListIs
<1>9. n = Len(A) + 2
  BY DEF Ahead, A
<1> HIDE DEF L, n
<1>10. n \in Nat /\ n + Len(M) <= Len(L)
  BY <1>3, <1>6, <1>8, <1>9
<1>11. \A i \in 1 .. Len(L) : L[i].key \notin MasterKeys
  BY <1>7, <1>8, ListIs DEF Linkless
<1>12. Placed(L, n, M)
  BY <1>3, <1>8, <1>10, <1>11 DEF Placed
<1>13. Sound(L)
  BY <1>7 DEF Flows
<1> QED
  BY <1>1, <1>7, <1>8, <1>12, <1>13 DEF LineSet, n, A, B, M

(* ... and of any other server.                                             *)
LEMMA ServerLinesFlow ==
  ASSUME NEW s \in Servers, ~ IsSentinel(s)
  PROVE  /\ Sound(InfoAll(s)) /\ Placed(InfoAll(s), Ahead(s), MasterLines(s))
         /\ ToSet(InfoAll(s)) = LineSet(s) /\ IsList(InfoAll(s))
<1> DEFINE M == MasterLines(s)
           A == ServerLines(s)
           B == ReplicationLines(s)
           C == CommandLines(s)
           D == ValkeyLines(s)
           E == ClusterLines(s)
           F == KeyspaceLines(s)
           L1 == A \o B
           L2 == L1 \o C
           L3 == L2 \o D
           L4 == L3 \o E
           L == L4 \o F
           n == Ahead(s)
<1>1. InfoAll(s) = L
  BY DEF InfoAll
<1>2. Flows(A, "Server") /\ Linkless(A) /\ IsList(A) /\ n = Len(A) + 2
  BY ServerLinesAre DEF Linkless, Ahead
<1>3. Flows(B, "Replication") /\ Placed(B, 2, M) /\ IsList(B)
  <2>1. PICK S : s.masters \in Seq(S)
    BY TypesOf DEF IsList
  <2>2. PICK T : s.slaves \in Seq(T)
    BY TypesOf DEF IsList
  <2> QED
    BY <2>1, <2>2, ReplicationLinesAre DEF Placed
<1>4. Flows(C, "Latencystats") /\ Linkless(C) /\ IsList(C)
  <2>1. PICK S : s.commands \in Seq(S)
    BY TypesOf DEF IsList
  <2>2. PICK T : s.latencies \in Seq(T)
    BY TypesOf DEF IsList
  <2> QED
    BY <2>1, <2>2, CommandLinesAre DEF Linkless
<1>5. (D = <<>> \/ \E class : Flows(D, class)) /\ Linkless(D) /\ IsList(D)
  BY ValkeyLinesAre DEF Linkless
<1>6. PICK e : Flows(E, e)
  BY ClusterLinesAre
<1>7. Linkless(E) /\ IsList(E)
  BY ClusterLinesAre DEF Linkless
<1>8. Flows(F, "Keyspace") /\ Linkless(F) /\ IsList(F)
  <2>1. PICK S : s.keyspace \in Seq(S)
    BY TypesOf DEF IsList
  <2> QED
    BY <2>1, KeyspaceLinesAre DEF Linkless
<1> HIDE DEF A, B, C, D, E, F, M, n
<1>9. Flows(L1, "Replication") /\ Placed(L1, n, M) /\ IsList(L1) /\ ToSet(L1) = ToSet(A) \cup ToSet(B)
  BY <1>2, <1>3, FlowsThen, PlacedAfter, ListsJoin
<1> HIDE DEF L1
<1>10. Flows(L2, "Latencystats") /\ Placed(L2, n, M) /\ IsList(L2) /\ ToSet(L2) = ToSet(L1) \cup ToSet(C)
  BY <1>4, <1>9, FlowsThen, PlacedBefore, ListsJoin
<1> HIDE DEF L2
<1>11. Placed(L3, n, M) /\ IsList(L3) /\ ToSet(L3) = ToSet(L2) \cup ToSet(D)
  BY <1>5, <1>10, PlacedBefore, ListsJoin
<1>12. \E class : Flows(L3, class)
  <2>1. CASE D = <<>>
    <3>1. L3 = L2
      BY <1>10, <2>1 DEF IsList
    <3> QED
      BY <1>10, <3>1
  <2>2. CASE D # <<>>
    <3>1. PICK class : Flows(D, class)
      BY <1>5, <2>2
    <3>2. Flows(L3, class)
      BY <1>10, <3>1, FlowsThen
    <3> QED
      BY <3>2
  <2> QED
    BY <2>1, <2>2
<1>13. PICK d : Flows(L3, d)
  BY <1>12
<1> HIDE DEF L3
<1>14. Flows(L4, e) /\ Placed(L4, n, M) /\ IsList(L4) /\ ToSet(L4) = ToSet(L3) \cup ToSet(E)
  BY <1>6, <1>7, <1>11, <1>13, FlowsThen, PlacedBefore, ListsJoin
<1> HIDE DEF L4
<1>15. Flows(L, "Keyspace") /\ Placed(L, n, M) /\ IsList(L) /\ ToSet(L) = ToSet(L4) \cup ToSet(F)
  BY <1>8, <1>14, FlowsThen, PlacedBefore, ListsJoin
<1> HIDE DEF L
<1>16. Sound(L)
  BY <1>15 DEF Flows
<1>17. ToSet(L) = LineSet(s)
  <2>1. ToSet(L) = ToSet(A) \cup ToSet(B) \cup ToSet(C) \cup ToSet(D) \cup ToSet(E) \cup ToSet(F)
    BY <1>9, <1>10, <1>11, <1>14, <1>15
  <2> DEFINE a == ToSet(A)
             b == ToSet(B)
             c == ToSet(C)
             f == ToSet(D)
             g == ToSet(E)
             h == ToSet(F)
  <2>2. LineSet(s) = a \cup (b \cup c \cup f \cup g \cup h)
    BY DEF LineSet, A, B, C, D, E, F
  <2> HIDE DEF a, b, c, f, g, h
  <2>3. a \cup b \cup c \cup f \cup g \cup h = a \cup (b \cup c \cup f \cup g \cup h)
    OBVIOUS
  <2> QED
    BY <2>1, <2>2, <2>3 DEF a, b, c, f, g, h
<1> QED
  BY <1>1, <1>15, <1>16, <1>17 DEF n, M

(* The lines the loop runs over are those of INFO.                          *)
LEMMA LinesAre ==
  ASSUME NEW s \in Servers
  PROVE  /\ Lines[s] = InfoAll(s) /\ IsList(Lines[s]) /\ Len(Lines[s]) \in Nat /\ Sound(Lines[s])
         /\ Placed(Lines[s], Ahead(s), MasterLines(s)) /\ ToSet(Lines[s]) = LineSet(s)
<1>1. Lines[s] = InfoAll(s)
  BY DEF Lines
<1> QED
  BY <1>1, SentinelLinesFlow, ServerLinesFlow, ListIs

(* What a line of INFO leaves in the reader, in whatever section it is.     *)
HostRead == IF Line.key = "master_host" THEN Line.value ELSE masterHost
PortRead == IF Line.key = "master_port" THEN Line.value ELSE masterPort

ReaderMoves ==
  /\ fieldClass' = Into(Line)
  /\ keyValues' = IF Kept(Line) THEN Put(keyValues, Line.key, Line.value) ELSE keyValues
  /\ masterHost' = HostRead /\ masterPort' = PortRead
  /\ handledDBs' = IF Line.key = "db" /\ Line.value.whole THEN handledDBs \cup {Line.n} ELSE handledDBs
  /\ cmdTotals' = IF Line.key = "cmdstat" THEN Put(cmdTotals, Line.value.cmd, TotalsOf(Line.value))
                  ELSE cmdTotals
  /\ cmdLatencies' = IF Line.key = "latency_percentiles_usec" THEN cmdLatencies \cup {Line.value}
                     ELSE cmdLatencies

(* The keys that are read in one section alone.                             *)
LEMMA SectionsTell ==
  \A key : /\ SectionOf(key) = "Keyspace" <=> key = "db"
           /\ SectionOf(key) = "Commandstats" <=> key = "cmdstat"
           /\ SectionOf(key) = "Latencystats" <=> key = "latency_percentiles_usec"
<1>1. ASSUME NEW key
      PROVE  /\ SectionOf(key) = "Keyspace" <=> key = "db"
             /\ SectionOf(key) = "Commandstats" <=> key = "cmdstat"
             /\ SectionOf(key) = "Latencystats" <=> key = "latency_percentiles_usec"
  <2> DEFINE ci == "Cluster Info"
             se == "Scripting Engines"
  <2>1. SectionOf(key) = CASE key \in ServerKeys -> "Server"
                           [] key \in ReplicationKeys -> "Replication"
                           [] key = "cmdstat" -> "Commandstats"
                           [] key = "errorstat" -> "Errorstats"
                           [] key = "latency_percentiles_usec" -> "Latencystats"
                           [] key = "cluster_enabled" -> "Cluster"
                           [] key \in {"cluster_state", "cluster_known_nodes"} -> ci
                           [] key \in {"tls_server_cert_serial", "tls_server_cert_expires_in_seconds"} -> "TLS"
                           [] key \in {"engines_count", "engine_"} -> se
                           [] key = "db" -> "Keyspace"
                           [] key \in {"sentinel_masters", "master"} -> "Sentinel"
                           [] OTHER -> "other"
    BY Zenon DEF SectionOf
  <2>2. ci \notin {"Keyspace", "Commandstats", "Latencystats"}
    BY Zenon
  <2>3. se \notin {"Keyspace", "Commandstats", "Latencystats"}
    BY Zenon
  <2> HIDE DEF ci, se
  <2> QED
    BY <2>1, <2>2, <2>3, SMT DEF ServerKeys, ReplicationKeys, MasterKeys
<1> QED
  BY <1>1

(* A line with a handler belongs to the section at hand.                    *)
LEMMA FieldMoves ==
  ASSUME NEW class, FieldOf(class), InPlace
  PROVE  /\ fieldClass' = Into(Line) /\ SectionOf(Line.key) = class
         /\ keyValues' = IF Kept(Line) THEN Put(keyValues, Line.key, Line.value) ELSE keyValues
         /\ masterHost' = HostRead /\ masterPort' = PortRead
BY DEF FieldOf, InPlace, Into, Kept, HostRead, PortRead

(* Every line moves the loop's variables like this.                         *)
LEMMA InfoMoves ==
  ASSUME InfoLine, InPlace
  PROVE  ReaderMoves /\ NextLine
<1>1. CASE SectionLine
  BY <1>1 DEF SectionLine, ReaderMoves, Into, Kept, Remembered, HostRead, PortRead
<1>2. CASE CommandStats
  <2>1. FieldOf("Commandstats")
    BY <1>2 DEF CommandStats
  <2>2. Line.key = "cmdstat"
    BY <2>1, FieldMoves, SectionsTell
  <2>3. cmdTotals' = Put(cmdTotals, Line.value.cmd, TotalsOf(Line.value)) /\ UNCHANGED <<handledDBs, cmdLatencies>>
    BY <1>2 DEF CommandStats, TotalsOf
  <2> QED
    BY <2>1, <2>2, <2>3, FieldMoves DEF ReaderMoves, FieldOf
<1>3. CASE LatencyStats
  <2>1. FieldOf("Latencystats")
    BY <1>3 DEF LatencyStats
  <2>2. Line.key = "latency_percentiles_usec"
    BY <2>1, FieldMoves, SectionsTell
  <2> QED
    BY <1>3, <2>1, <2>2, FieldMoves DEF ReaderMoves, FieldOf, LatencyStats
<1>4. CASE Keyspace
  <2>1. FieldOf("Keyspace")
    BY <1>4 DEF Keyspace
  <2>2. Line.key = "db"
    BY <2>1, FieldMoves, SectionsTell
  <2>3. handledDBs' = (IF Line.value.whole THEN handledDBs \cup {Line.n} ELSE handledDBs)
        /\ UNCHANGED <<cmdTotals, cmdLatencies>>
    BY <1>4 DEF Keyspace
  <2> QED
    BY <2>1, <2>2, <2>3, FieldMoves DEF ReaderMoves, FieldOf
<1>5. ASSUME NEW class, FieldOf(class), UnlessMatched,
             class \notin {"Keyspace", "Commandstats", "Latencystats"}
      PROVE  ReaderMoves /\ NextLine
  <2>1. Line.key \notin {"db", "cmdstat", "latency_percentiles_usec"}
    BY <1>5, FieldMoves, SectionsTell
  <2> QED
    BY <1>5, <2>1, FieldMoves DEF ReaderMoves, UnlessMatched, FieldOf
<1>6. CASE Replication
  BY <1>5, <1>6 DEF Replication
<1>7. CASE ServerField
  BY <1>5, <1>7 DEF ServerField
<1>8. CASE TLSField
  BY <1>5, <1>8 DEF TLSField
<1>9. CASE ErrorStats
  BY <1>5, <1>9 DEF ErrorStats
<1>10. CASE Sentinel
  BY <1>5, <1>10 DEF Sentinel
<1>11. CASE OtherField
  BY <1>5, <1>11 DEF OtherField
<1>12. CASE ScriptingEngine
  BY <1>5, <1>12, Zenon DEF ScriptingEngine
<1>13. CASE RepeatedClusterInfo
  BY <1>5, <1>13, Zenon DEF RepeatedClusterInfo
<1> QED
  BY <1>1, <1>2, <1>3, <1>4, <1>6, <1>7, <1>8, <1>9, <1>10, <1>11, <1>12, <1>13 DEF InfoLine

-----------------------------------------------------------------------------
(* The values of the fields that are read again.                            *)
KeptValue(s, key) ==
  CASE key = "role" -> s.role
    [] key \in {"redis_mode", "server_mode"} -> s.mode
    [] key = "valkey_version" -> "9.1"
    [] key = "availability_zone" -> s.zone
    [] key = "master_host" -> s.masters[1].host
    [] key = "master_port" -> s.masters[1].port
    [] key = "slave_read_only" -> "1"

KeptKeys(s) ==
  (IF IsSentinel(s) THEN {} ELSE {"role"})
  \cup (IF IsValkey(s) THEN {"server_mode", "valkey_version", "availability_zone"} ELSE {"redis_mode"})
  \cup (IF s.masters = <<>> THEN {} ELSE {"master_host", "master_port", "slave_read_only"})

(* Of several masters the first one's address is kept.                      *)
LEMMA MastersKept ==
  ASSUME NEW s, NEW S, s.masters \in Seq(S)
  PROVE  /\ \A l \in ToSet(MasterLines(s)) :
              Kept(l) => l.key \in {"master_host", "master_port"} /\ l.value = KeptValue(s, l.key)
         /\ s.masters # <<>> => \E k, l \in ToSet(MasterLines(s)) :
              Kept(k) /\ k.key = "master_host" /\ Kept(l) /\ l.key = "master_port"
<1> DEFINE n == Len(s.masters)
           F == MasterLines(s)
           At(q) == s.masters[q + 1]
<1>1. n \in Nat /\ IsList(F) /\ Len(F) = 5 * n
  BY MasterLinesAre
<1>2. ASSUME NEW k \in 1 .. 5 * n
      PROVE  LET q == (k - 1) \div 5
                 r == (k - 1) % 5
                 m == s.masters[q + 1]
             IN /\ r \in {0, 1, 2, 3, 4} /\ q \in Nat
                /\ F[k] = CASE r = 0 -> Numbered("master_host", q, m.host)
                            [] r = 1 -> Numbered("master_port", q, m.port)
                            [] r = 2 -> Numbered("master_link_status", q, m.link)
                            [] r = 3 -> Numbered("master_last_io_seconds_ago", q, m.io)
                            [] r = 4 -> Field("slave_repl_offset", m.offset)
  BY <1>1, MasterLinesAre, FifthsAre
<1> HIDE DEF n, F
<1>3. ASSUME NEW k \in 1 .. 5 * n, Kept(F[k])
      PROVE  F[k].key \in {"master_host", "master_port"} /\ F[k].value = KeptValue(s, F[k].key)
  <2> DEFINE q == (k - 1) \div 5
             r == (k - 1) % 5
             m == s.masters[q + 1]
  <2>1. /\ r \in {0, 1, 2, 3, 4} /\ q \in Nat
        /\ F[k] = CASE r = 0 -> Numbered("master_host", q, m.host)
                    [] r = 1 -> Numbered("master_port", q, m.port)
                    [] r = 2 -> Numbered("master_link_status", q, m.link)
                    [] r = 3 -> Numbered("master_last_io_seconds_ago", q, m.io)
                    [] r = 4 -> Field("slave_repl_offset", m.offset)
    BY <1>2
  <2>2. q = 0 => m = s.masters[1]
    OBVIOUS
  <2> HIDE DEF q, r, m
  <2>3. r \in {0, 1} /\ q = 0
    BY <1>3, <2>1 DEF Kept, Remembered, Numbered, Field
  <2>4. CASE r = 0
    BY <2>1, <2>2, <2>3, <2>4 DEF KeptValue, Numbered
  <2>5. CASE r = 1
    BY <2>1, <2>2, <2>3, <2>5 DEF KeptValue, Numbered
  <2> QED
    BY <2>3, <2>4, <2>5
<1>4. ASSUME s.masters # <<>>
      PROVE  \E k, l \in ToSet(F) : Kept(k) /\ k.key = "master_host" /\ Kept(l) /\ l.key = "master_port"
  <2>1. n > 0
    BY <1>1, <1>4, EmptySeq DEF n
  <2>2. 1 \in 1 .. 5 * n /\ 2 \in 1 .. 5 * n
    BY <1>1, <2>1
  <2>3. (1 - 1) \div 5 = 0 /\ (1 - 1) % 5 = 0 /\ (2 - 1) \div 5 = 0 /\ (2 - 1) % 5 = 1
    OBVIOUS
  <2>4. F[1] = Numbered("master_host", 0, s.masters[1].host) /\ F[2] = Numbered("master_port", 0, s.masters[1].port)
    <3>0. ASSUME NEW k \in 1 .. 5 * n, NEW q, NEW r, q = (k - 1) \div 5, r = (k - 1) % 5
          PROVE  /\ r = 0 => F[k] = Numbered("master_host", q, s.masters[q + 1].host)
                 /\ r = 1 => F[k] = Numbered("master_port", q, s.masters[q + 1].port)
      <4>1. (k - 1) % 5 = 0 => F[k] = Numbered("master_host", (k - 1) \div 5, s.masters[(k - 1) \div 5 + 1].host)
        BY <1>2
      <4>2. (k - 1) % 5 = 1 => F[k] = Numbered("master_port", (k - 1) \div 5, s.masters[(k - 1) \div 5 + 1].port)
        BY <1>2
      <4> QED
        BY <3>0, <4>1, <4>2
    <3>1. F[1] = Numbered("master_host", 0, s.masters[0 + 1].host)
      BY <2>2, <2>3, <3>0
    <3>2. F[2] = Numbered("master_port", 0, s.masters[0 + 1].port)
      BY <2>2, <2>3, <3>0
    <3> QED
      BY <3>1, <3>2
  <2>5. F[1] \in ToSet(F) /\ F[2] \in ToSet(F)
    BY <1>1, <2>2, ListIs
  <2>6. Kept(F[1]) /\ F[1].key = "master_host" /\ Kept(F[2]) /\ F[2].key = "master_port"
    BY <2>4 DEF Kept, Remembered, Numbered
  <2> QED
    BY <2>5, <2>6
<1>5. \A l \in ToSet(F) :
        Kept(l) => l.key \in {"master_host", "master_port"} /\ l.value = KeptValue(s, l.key)
  <2> TAKE l \in ToSet(F)
  <2>1. PICK k \in 1 .. 5 * n : l = F[k]
    BY <1>1, ListIs
  <2> QED
    BY <1>3, <2>1
<1> QED
  BY <1>4, <1>5 DEF F

(* The keys of the lines of each section, a header's included.              *)
LEMMA KeysAre ==
  ASSUME NEW s \in Servers
  PROVE  /\ \A l \in ToSet(ServerLines(s)) : l.key \in {"#"} \cup ServerKeys
         /\ \A l \in ToSet(ReplicationLines(s)) : l.key \in {"#"} \cup ReplicationKeys
         /\ \A l \in ToSet(CommandLines(s)) : l.key \in {"#", "cmdstat", "errorstat", "latency_percentiles_usec"}
         /\ \A l \in ToSet(ValkeyLines(s)) :
              l.key \in {"#", "tls_server_cert_serial", "tls_server_cert_expires_in_seconds",
                         "engines_count", "engine_"}
         /\ \A l \in ToSet(ClusterLines(s)) :
              l.key \in {"#", "cluster_enabled", "cluster_state", "cluster_known_nodes"}
         /\ \A l \in ToSet(KeyspaceLines(s)) : l.key \in {"#", "db"}
         /\ \A l \in ToSet(SentinelLines(s)) : l.key \in {"#", "sentinel_masters", "master"}
<1>0. /\ \A name : Section(name).key = "#"
      /\ \A key, value : Field(key, value).key = key
      /\ \A key, n, value : Numbered(key, n, value).key = key
  BY DEF Section, Field, Numbered
<1>1. \A l \in ToSet(ServerLines(s)) : l.key \in {"#"} \cup ServerKeys
  BY <1>0, ServerLinesAre DEF ServerKeys
<1>2. \A l \in ToSet(ReplicationLines(s)) : l.key \in {"#"} \cup ReplicationKeys
  <2>1. PICK S : s.masters \in Seq(S)
    BY TypesOf DEF IsList
  <2>2. PICK T : s.slaves \in Seq(T)
    BY TypesOf DEF IsList
  <2>3. \A l \in ToSet(MasterLines(s)) : l.key \in ReplicationKeys
    BY <2>1, MasterKeysAre DEF ReplicationKeys
  <2> QED
    BY <1>0, <2>1, <2>2, <2>3, ReplicationLinesAre DEF ReplicationKeys
<1>3. \A l \in ToSet(CommandLines(s)) : l.key \in {"#", "cmdstat", "errorstat", "latency_percentiles_usec"}
  <2>1. PICK S : s.commands \in Seq(S)
    BY TypesOf DEF IsList
  <2>2. PICK T : s.latencies \in Seq(T)
    BY TypesOf DEF IsList
  <2> QED
    BY <1>0, <2>1, <2>2, CommandLinesAre
<1>4. \A l \in ToSet(ValkeyLines(s)) :
        l.key \in {"#", "tls_server_cert_serial", "tls_server_cert_expires_in_seconds",
                   "engines_count", "engine_"}
  <2> DEFINE se == Section("Scripting Engines")
             e == Numbered("engine_", 0, [name |-> "LUA", module |-> "lua", abi |-> "4", memory |-> 2])
  <2>1. ToSet(ValkeyLines(s)) =
              IF IsValkey(s)
              THEN {Section("TLS"), Field("tls_server_cert_serial", "a1"),
                    Field("tls_server_cert_expires_in_seconds", "3"),
                    se, Field("engines_count", "1"), e}
              ELSE {}
    BY ValkeyLinesAre
  <2>2. se.key = "#" /\ e.key = "engine_"
    BY <1>0
  <2> HIDE DEF se, e
  <2> QED
    BY <1>0, <2>1, <2>2
<1>5. \A l \in ToSet(ClusterLines(s)) :
        l.key \in {"#", "cluster_enabled", "cluster_state", "cluster_known_nodes"}
  <2> DEFINE ci == Section("Cluster Info")
  <2>1. ToSet(ClusterLines(s)) =
              {Section("Cluster"), Field("cluster_enabled", IF s.cluster = "off" THEN "0" ELSE "1")}
              \cup IF IsValkey(s) /\ s.cluster # "off"
                   THEN {ci, Field("cluster_state", "ok"), Field("cluster_known_nodes", "3")}
                   ELSE {}
    BY ClusterLinesAre
  <2>2. ci.key = "#"
    BY <1>0
  <2> HIDE DEF ci
  <2> QED
    BY <1>0, <2>1, <2>2
<1>6. \A l \in ToSet(KeyspaceLines(s)) : l.key \in {"#", "db"}
  <2>1. PICK S : s.keyspace \in Seq(S)
    BY TypesOf DEF IsList
  <2> QED
    BY <1>0, <2>1, KeyspaceLinesAre
<1>7. \A l \in ToSet(SentinelLines(s)) : l.key \in {"#", "sentinel_masters", "master"}
  <2>1. PICK S : s.watched \in Seq(S)
    BY TypesOf DEF IsList
  <2> QED
    BY <1>0, <2>1, SentinelLinesAre
<1> QED
  BY <1>1, <1>2, <1>3, <1>4, <1>5, <1>6, <1>7

(* Of the fields that a section remembers.                                  *)
LEMMA KeptAre ==
  ASSUME NEW s \in Servers
  PROVE  /\ \A l \in LineSet(s) : Kept(l) => l.key \in KeptKeys(s) /\ l.value = KeptValue(s, l.key)
         /\ \A key \in KeptKeys(s) : \E l \in LineSet(s) : Kept(l) /\ l.key = key
<1>0. /\ \A name : ~ Kept(Section(name))
      /\ \A key, value : Field(key, value).key = key /\ Field(key, value).value = value
                         /\ (Kept(Field(key, value)) <=> key \in Remembered)
      /\ \A key, n, value : Numbered(key, n, value).key = key /\ Numbered(key, n, value).value = value
  BY DEF Section, Field, Numbered, Kept, Remembered
<1>1. IsSentinel(s) => ~ IsValkey(s) /\ s.masters = <<>>
  <2>1. CASE IsSentinel(s)
    <3>1. s.role = "" /\ "" # "slave" /\ (s.role = "slave" <=> s.masters # <<>>)
      BY <2>1, TypesOf DEF Consistent
    <3>2. ~ IsValkey(s)
      BY <2>1 DEF IsSentinel, IsValkey
    <3> QED
      BY <3>1, <3>2
  <2> QED
    BY <2>1
<1>2. /\ \A l \in ToSet(ServerLines(s)) :
           Kept(l) => l.key \in KeptKeys(s) /\ l.value = KeptValue(s, l.key)
      /\ \A key \in IF IsValkey(s) THEN {"server_mode", "valkey_version", "availability_zone"} ELSE {"redis_mode"} :
           \E l \in ToSet(ServerLines(s)) : Kept(l) /\ l.key = key
  <2> DEFINE V == {Field("server_mode", s.mode), Field("valkey_version", "9.1"),
                   Field("availability_zone", s.zone)}
             N == {Field("redis_mode", s.mode)}
  <2>1. /\ \A l \in V : IsValkey(s) => l.key \in KeptKeys(s) /\ l.value = KeptValue(s, l.key)
        /\ \A l \in N : ~ IsValkey(s) => l.key \in KeptKeys(s) /\ l.value = KeptValue(s, l.key)
    BY <1>0 DEF KeptKeys, KeptValue
  <2>2. /\ \A key \in {"server_mode", "valkey_version", "availability_zone"} :
             \E l \in V : Kept(l) /\ l.key = key
        /\ \A key \in {"redis_mode"} : \E l \in N : Kept(l) /\ l.key = key
    BY <1>0 DEF Remembered
  <2>3. ~ Kept(Section("Server")) /\ ~ Kept(Field("uptime_in_seconds", s.uptime))
    BY <1>0 DEF Remembered
  <2> HIDE DEF V, N
  <2>4. ToSet(ServerLines(s)) = {Section("Server"), Field("uptime_in_seconds", s.uptime)}
                                \cup IF IsValkey(s) THEN V ELSE N
    BY ServerLinesAre DEF V, N
  <2> QED
    BY <2>1, <2>2, <2>3, <2>4
<1>3. ASSUME ~ IsSentinel(s)
      PROVE  /\ \A l \in ToSet(ReplicationLines(s)) :
                  Kept(l) => l.key \in KeptKeys(s) /\ l.value = KeptValue(s, l.key)
             /\ \A key \in KeptKeys(s) : key \in {"role", "master_host", "master_port", "slave_read_only"} =>
                  \E l \in ToSet(ReplicationLines(s)) : Kept(l) /\ l.key = key
  <2>1. PICK S : s.masters \in Seq(S)
    BY TypesOf DEF IsList
  <2>2. PICK T : s.slaves \in Seq(T)
    BY TypesOf DEF IsList
  <2> DEFINE R == ToSet(ReplicationLines(s))
             M == ToSet(MasterLines(s))
             Z == {Numbered("slave", i - 1, s.slaves[i]) : i \in DOMAIN s.slaves}
             Y == {Field("connected_slaves", "2")}
             X == IF s.masters = <<>> THEN {} ELSE {Field("slave_read_only", "1")}
             A == {Section("Replication"), Field("role", s.role)}
  <2>3. R = A \cup M \cup X \cup Y \cup Z
    BY <2>1, <2>2, ReplicationLinesAre
  <2>4. /\ \A l \in M : Kept(l) => l.key \in {"master_host", "master_port"} /\ l.value = KeptValue(s, l.key)
        /\ s.masters # <<>> => \E k, l \in M :
             Kept(k) /\ k.key = "master_host" /\ Kept(l) /\ l.key = "master_port"
    BY <2>1, MastersKept
  <2>5. s.masters = <<>> => M = {}
    <3>1. ASSUME s.masters = <<>>
          PROVE  M = {}
      <4>1. s.masters \in Seq({}) /\ Len(s.masters) = 0
        BY <3>1, TuplesAre
      <4>2. IsList(MasterLines(s)) /\ Len(MasterLines(s)) = 5 * Len(s.masters)
        BY <4>1, MasterLinesAre
      <4>3. \A e \in M : \E i \in 1 .. 0 : TRUE
        BY <4>1, <4>2, ListIs
      <4> QED
        BY <4>3
    <3> QED
      BY <3>1
  <2> HIDE DEF R, M
  <2>6. \A l \in Z \cup Y : ~ Kept(l)
    BY <1>0 DEF Kept, Remembered
  <2>7. \A l \in A \cup X : Kept(l) => l.key \in KeptKeys(s) /\ l.value = KeptValue(s, l.key)
    BY <1>0, <1>3 DEF KeptKeys, KeptValue
  <2>8. \A l \in M : Kept(l) => l.key \in KeptKeys(s) /\ l.value = KeptValue(s, l.key)
    BY <2>4, <2>5 DEF KeptKeys
  <2>9. \E l \in A : Kept(l) /\ l.key = "role"
    BY <1>0 DEF Remembered
  <2>10. s.masters # <<>> => \E l \in X : Kept(l) /\ l.key = "slave_read_only"
    BY <1>0 DEF Remembered
  <2> HIDE DEF Z, Y, X, A
  <2>11. \A l \in R : Kept(l) => l.key \in KeptKeys(s) /\ l.value = KeptValue(s, l.key)
    BY <2>3, <2>6, <2>7, <2>8
  <2>12. ASSUME NEW key \in KeptKeys(s), key \in {"role", "master_host", "master_port", "slave_read_only"}
         PROVE  \E l \in R : Kept(l) /\ l.key = key
    <3>1. key # "role" => s.masters # <<>>
      BY <2>12 DEF KeptKeys
    <3> QED
      BY <2>3, <2>4, <2>9, <2>10, <2>12, <3>1
  <2> QED
    BY <2>11, <2>12 DEF R
<1>4. \A l \in ToSet(CommandLines(s)) \cup ToSet(ValkeyLines(s)) \cup ToSet(ClusterLines(s))
              \cup ToSet(KeyspaceLines(s)) \cup ToSet(SentinelLines(s)) : ~ Kept(l)
  BY KeysAre DEF Kept, Remembered
<1>5. \A l \in LineSet(s) : Kept(l) => l.key \in KeptKeys(s) /\ l.value = KeptValue(s, l.key)
  BY <1>2, <1>3, <1>4 DEF LineSet
<1>6. ASSUME NEW key \in KeptKeys(s)
      PROVE  \E l \in LineSet(s) : Kept(l) /\ l.key = key
  <2>1. CASE key \in IF IsValkey(s) THEN {"server_mode", "valkey_version", "availability_zone"} ELSE {"redis_mode"}
    BY <1>2, <2>1 DEF LineSet
  <2>2. CASE key \in {"role", "master_host", "master_port", "slave_read_only"}
    <3>1. ~ IsSentinel(s)
      BY <1>1, <1>6, <2>2 DEF KeptKeys
    <3> QED
      BY <1>3, <2>2, <3>1 DEF LineSet
  <2> QED
    BY <2>1, <2>2 DEF KeptKeys
<1> QED
  BY <1>5, <1>6

(* The lines of commands, of their latencies and of databases.              *)
LEMMA ListedLines ==
  ASSUME NEW s \in Servers
  PROVE  /\ \A l \in LineSet(s) : l.key = "cmdstat" =>
              ~ IsSentinel(s) /\ \E i \in DOMAIN s.commands : l = Field("cmdstat", s.commands[i])
         /\ \A l \in LineSet(s) : l.key = "latency_percentiles_usec" =>
              ~ IsSentinel(s)
              /\ \E i \in DOMAIN s.latencies : l = Field("latency_percentiles_usec", s.latencies[i])
         /\ \A l \in LineSet(s) : l.key = "db" =>
              ~ IsSentinel(s)
              /\ \E i \in DOMAIN s.keyspace : l = Numbered("db", s.keyspace[i].db, s.keyspace[i])
         /\ ~ IsSentinel(s) =>
              /\ \A i \in DOMAIN s.commands : Field("cmdstat", s.commands[i]) \in LineSet(s)
              /\ \A i \in DOMAIN s.latencies :
                   Field("latency_percentiles_usec", s.latencies[i]) \in LineSet(s)
              /\ \A i \in DOMAIN s.keyspace : Numbered("db", s.keyspace[i].db, s.keyspace[i]) \in LineSet(s)
<1>1. PICK S : s.commands \in Seq(S)
  BY TypesOf DEF IsList
<1>2. PICK T : s.latencies \in Seq(T)
  BY TypesOf DEF IsList
<1>3. PICK U : s.keyspace \in Seq(U)
  BY TypesOf DEF IsList
<1> DEFINE C == ToSet(CommandLines(s))
           K == ToSet(KeyspaceLines(s))
           CT == {Field("cmdstat", s.commands[i]) : i \in DOMAIN s.commands}
           LT == {Field("latency_percentiles_usec", s.latencies[i]) : i \in DOMAIN s.latencies}
           KT == {Numbered("db", s.keyspace[i].db, s.keyspace[i]) : i \in DOMAIN s.keyspace}
           H == {Section("Commandstats"), Section("Errorstats"), Section("Latencystats"),
                 Field("errorstat", [err |-> "ERR", count |-> 3])}
<1>4. C = H \cup CT \cup LT /\ K = {Section("Keyspace")} \cup KT
  BY <1>1, <1>2, <1>3, CommandLinesAre, KeyspaceLinesAre
<1>5. /\ \A l \in CT : l.key = "cmdstat"
      /\ \A l \in LT : l.key = "latency_percentiles_usec"
      /\ \A l \in KT : l.key = "db"
      /\ \A l \in H \cup {Section("Keyspace")} : l.key \in {"#", "errorstat"}
  BY DEF Field, Numbered, Section
<1>6. /\ \A l \in CT : \E i \in DOMAIN s.commands : l = Field("cmdstat", s.commands[i])
      /\ \A l \in LT : \E i \in DOMAIN s.latencies : l = Field("latency_percentiles_usec", s.latencies[i])
      /\ \A l \in KT : \E i \in DOMAIN s.keyspace : l = Numbered("db", s.keyspace[i].db, s.keyspace[i])
  OBVIOUS
<1>7. /\ \A i \in DOMAIN s.commands : Field("cmdstat", s.commands[i]) \in CT
      /\ \A i \in DOMAIN s.latencies : Field("latency_percentiles_usec", s.latencies[i]) \in LT
      /\ \A i \in DOMAIN s.keyspace : Numbered("db", s.keyspace[i].db, s.keyspace[i]) \in KT
  OBVIOUS
<1> HIDE DEF CT, LT, KT, H, C, K
<1>8. \A l \in LineSet(s) : l.key \in {"cmdstat", "latency_percentiles_usec"} => l \in C /\ ~ IsSentinel(s)
  BY KeysAre DEF LineSet, ServerKeys, ReplicationKeys, MasterKeys, C
<1>9. \A l \in LineSet(s) : l.key = "db" => l \in K /\ ~ IsSentinel(s)
  BY KeysAre DEF LineSet, ServerKeys, ReplicationKeys, MasterKeys, K
<1>10. ~ IsSentinel(s) => C \cup K \subseteq LineSet(s)
  BY DEF LineSet, C, K
<1>11. /\ \A l \in C : l.key = "cmdstat" => l \in CT
       /\ \A l \in C : l.key = "latency_percentiles_usec" => l \in LT
       /\ \A l \in K : l.key = "db" => l \in KT
  BY <1>4, <1>5
<1>12. ~ IsSentinel(s) => CT \subseteq LineSet(s) /\ LT \subseteq LineSet(s) /\ KT \subseteq LineSet(s)
  BY <1>4, <1>10
<1> QED
  BY <1>6, <1>7, <1>8, <1>9, <1>11, <1>12

(* The lines of INFO that have been read, and the next one.                 *)
LEMMA PastIs ==
  ASSUME server \in Servers, at \in 1 .. Len(Lines[server]) + 1
  PROVE  /\ Past \subseteq LineSet(server)
         /\ at <= Len(Lines[server]) => Line \in LineSet(server)
         /\ at = Len(Lines[server]) + 1 => Past = LineSet(server)
<1> DEFINE L == Lines[server]
           n == Len(L)
<1>1. IsList(L) /\ n \in Nat /\ ToSet(L) = LineSet(server)
  BY LinesAre
<1>2. /\ \A i \in 1 .. n : L[i] \in ToSet(L)
      /\ \A e \in ToSet(L) : \E i \in 1 .. n : e = L[i]
  BY <1>1, ListIs
<1>3. Past = {L[i] : i \in 1 .. at - 1} /\ Line = L[at] /\ at \in 1 .. n + 1
  BY DEF Past, Line
<1> HIDE DEF L, n
<1>4. Past \subseteq LineSet(server)
  BY <1>1, <1>2, <1>3
<1>5. at <= n => Line \in LineSet(server)
  BY <1>1, <1>2, <1>3
<1>6. at = n + 1 => Past = LineSet(server)
  BY <1>1, <1>2, <1>3
<1> QED
  BY <1>4, <1>5, <1>6 DEF L, n

(* The line the loop is at is in its section.                               *)
LEMMA LineInPlace ==
  ASSUME server \in Servers, Reading, at <= Len(Lines[server])
  PROVE  InPlace
<1> DEFINE L == Lines[server]
           n == Len(L)
<1>1. /\ IsList(L) /\ n \in Nat /\ Sound(L) /\ at \in 1 .. n /\ Line = L[at]
      /\ fieldClass = IF at = 1 THEN "" ELSE Into(L[at - 1])
  <2>1. IsList(L) /\ n \in Nat /\ Sound(L)
    BY LinesAre
  <2>2. at \in 1 .. n + 1 /\ at <= n
    BY DEF Reading
  <2>3. at \in 1 .. n
    BY <2>1, <2>2
  <2>4. Line = L[at] /\ fieldClass = IF at = 1 THEN "" ELSE Into(L[at - 1])
    BY DEF Line, Reading, FieldRead
  <2> QED
    BY <2>1, <2>3, <2>4
<1>2. \A i \in 1 .. n : L[i].key # "#" => i > 1 /\ SectionOf(L[i].key) = Into(L[i - 1])
  BY <1>1 DEF Sound
<1> HIDE DEF L, n
<1>3. Line.key # "#" => fieldClass = SectionOf(Line.key)
  <2>1. L[at].key # "#" => at > 1 /\ SectionOf(L[at].key) = Into(L[at - 1])
    BY <1>1, <1>2
  <2> QED
    <3>1. ASSUME Line.key # "#"
          PROVE  fieldClass = SectionOf(Line.key)
      <4>1. at > 1 /\ SectionOf(L[at].key) = Into(L[at - 1]) /\ fieldClass = IF at = 1 THEN "" ELSE Into(L[at - 1])
        BY <1>1, <2>1, <3>1
      <4>2. at \in 1 .. n /\ n \in Nat /\ at > 1
        BY <1>1, <4>1
      <4>3. at # 1
        BY <4>2
      <4> QED
        BY <1>1, <4>1, <4>3
    <3> QED
      BY <3>1
<1>4. Line \in LineSet(server)
  BY PastIs DEF Reading
<1>5. ASSUME Line.key = "cmdstat"
      PROVE  Line.value.fields \in Nat
  <2>1. PICK i \in DOMAIN server.commands : Line = Field("cmdstat", server.commands[i])
    BY <1>4, <1>5, ListedLines
  <2>2. server.commands[i].fields \in Nat
    <3>1. server.commands \in Seq([cmd : STRING, of : STRING, plain : BOOLEAN, calls : Nat, usec : Nat,
                                    rejected : Nat, slow : Nat \cup {-1}, fields : Nat])
      BY TypesOf DEF ServerTypes
    <3>2. \A S : server.commands \in Seq(S) => server.commands[i] \in S
      OBVIOUS
    <3> QED
      BY <3>1, <3>2
  <2> QED
    BY <2>1, <2>2 DEF Field, Numbered
<1> QED
  BY <1>3, <1>5 DEF InPlace

(* The master that a line of a link is about is the one named last.         *)
LEMMA MasterPlaces ==
  ASSUME NEW s \in Servers, NEW k \in 1 .. 5 * Len(s.masters)
  PROVE  LET n == Ahead(s)
             r == (k - 1) % 5
             m == MasterAt(s, n + k)
             l == Lines[s][n + k]
         IN /\ n \in Nat /\ n + k \in 1 .. Len(Lines[s])
            /\ r = 0 <=> l.key = "master_host"
            /\ r = 1 <=> l.key = "master_port"
            /\ r = 0 => l.value = m.host
            /\ r = 1 => l.value = m.port
            /\ r \in {2, 3, 4} <=> l.key \in MasterKeys
            /\ r # 0 => k - 1 \in 1 .. 5 * Len(s.masters) /\ MasterAt(s, n + (k - 1)) = m
                        /\ ((k - 1) - 1) % 5 = r - 1
<1> DEFINE n == Ahead(s)
           c == Len(s.masters)
           L == Lines[s]
           M == MasterLines(s)
           q == (k - 1) \div 5
           r == (k - 1) % 5
           m == s.masters[q + 1]
<1>1. PICK S : s.masters \in Seq(S)
  BY TypesOf DEF IsList
<1>2. c \in Nat /\ IsList(M) /\ Len(M) = 5 * c
  BY <1>1, MasterLinesAre
<1>3. M[k] = CASE r = 0 -> Numbered("master_host", q, m.host)
               [] r = 1 -> Numbered("master_port", q, m.port)
               [] r = 2 -> Numbered("master_link_status", q, m.link)
               [] r = 3 -> Numbered("master_last_io_seconds_ago", q, m.io)
               [] r = 4 -> Field("slave_repl_offset", m.offset)
  BY <1>1, MasterLinesAre
<1>4. /\ r \in {0, 1, 2, 3, 4} /\ q \in Nat /\ q + 1 \in 1 .. c
      /\ r # 0 => k - 1 \in 1 .. 5 * c /\ (k - 2) \div 5 = q /\ (k - 2) % 5 = r - 1
  BY <1>2, FifthsAre
<1>5. n \in Nat /\ n + Len(M) <= Len(L) /\ Len(L) \in Nat /\ L[n + k] = M[k]
  BY <1>2, LinesAre DEF Placed
<1> DEFINE i == n + k
           j == n + (k - 1)
<1>6. MasterAt(s, i) = s.masters[(i - n - 1) \div 5 + 1] /\ MasterAt(s, j) = s.masters[(j - n - 1) \div 5 + 1]
  <2> HIDE DEF i, j
  <2> QED
    BY DEF MasterAt
<1> HIDE DEF n
<1>7. i - n - 1 = k - 1 /\ j - n - 1 = k - 2 /\ (k - 1) - 1 = k - 2
  BY <1>2, <1>5
<1>8. MasterAt(s, i) = m /\ (r # 0 => MasterAt(s, j) = m)
  <2> HIDE DEF i, j
  <2>1. MasterAt(s, i) = s.masters[(k - 1) \div 5 + 1] /\ MasterAt(s, j) = s.masters[(k - 2) \div 5 + 1]
    BY <1>6, <1>7, Zenon
  <2> QED
    BY <1>4, <2>1
<1>9. n + k \in 1 .. Len(L)
  BY <1>2, <1>5
<1> DEFINE l == L[n + k]
           a == MasterAt(s, n + k)
           b == MasterAt(s, n + (k - 1))
<1>10. /\ r = 0 <=> l.key = "master_host"
       /\ r = 1 <=> l.key = "master_port"
       /\ r = 0 => l.value = a.host
       /\ r = 1 => l.value = a.port
       /\ r \in {2, 3, 4} <=> l.key \in MasterKeys
  <2>1. l = M[k] /\ a = m
    BY <1>5, <1>8
  <2> HIDE DEF l, a, m, q, r, M
  <2> QED
    BY <1>3, <1>4, <2>1 DEF Numbered, Field, MasterKeys
<1>11. r # 0 => k - 1 \in 1 .. 5 * c /\ b = a /\ ((k - 1) - 1) % 5 = r - 1
  BY <1>4, <1>7, <1>8
<1> QED
  BY <1>5, <1>9, <1>10, <1>11 DEF n

(* A line of a master's link, and the one after it.                         *)
LEMMA LinkPlaces ==
  ASSUME server \in Servers, at \in 1 .. Len(Lines[server]), MasterRead,
         NEW k \in 1 .. 5 * Len(server.masters), at = Ahead(server) + k
  PROVE  /\ (k - 1) % 5 # 0 => masterHost = MasterAt(server, at).host
         /\ (k - 1) % 5 \notin {0, 1} => masterPort = MasterAt(server, at).port
         /\ (k - 1) % 5 = 0 <=> Line.key = "master_host"
         /\ (k - 1) % 5 = 1 <=> Line.key = "master_port"
         /\ (k - 1) % 5 = 0 => Line.value = MasterAt(server, at).host
         /\ (k - 1) % 5 = 1 => Line.value = MasterAt(server, at).port
<1> DEFINE n == Ahead(server)
           r == (k - 1) % 5
           m == MasterAt(server, at)
           c == Len(server.masters)
           j == k - 1
<1>1. /\ n \in Nat
      /\ r = 0 <=> Line.key = "master_host"
      /\ r = 1 <=> Line.key = "master_port"
      /\ r = 0 => Line.value = m.host
      /\ r = 1 => Line.value = m.port
      /\ r # 0 => j \in 1 .. 5 * c /\ MasterAt(server, n + j) = m /\ (j - 1) % 5 = r - 1
  BY MasterPlaces DEF Line
<1>2. c \in Nat /\ k \in Nat
  <2>1. PICK S : server.masters \in Seq(S)
    BY TypesOf DEF IsList
  <2>2. c \in Nat
    BY <2>1, LenProperties
  <2> QED
    BY <2>2
<1>3. at = n + j + 1 /\ at - 1 = n + j
  BY <1>1, <1>2
<1>4. \A i \in 1 .. 5 * c : at = n + i + 1 =>
        /\ masterHost = MasterAt(server, at - 1).host
        /\ (i - 1) % 5 # 0 => masterPort = MasterAt(server, at - 1).port
  BY DEF MasterRead
<1>5. r \in Nat
  BY <1>2
<1> HIDE DEF n, r, m, c, j
<1>6. r # 0 => masterHost = m.host
  BY <1>1, <1>3, <1>4
<1>7. ASSUME r \notin {0, 1}
      PROVE  masterPort = m.port
  <2>1. j \in 1 .. 5 * c /\ MasterAt(server, n + j) = m /\ (j - 1) % 5 = r - 1
    BY <1>1, <1>7
  <2>2. (j - 1) % 5 # 0
    BY <1>5, <1>7, <2>1
  <2>3. (j - 1) % 5 # 0 => masterPort = MasterAt(server, at - 1).port
    BY <1>3, <1>4, <2>1
  <2> QED
    BY <1>3, <2>1, <2>2, <2>3
<1> QED
  BY <1>1, <1>6, <1>7 DEF r, m

(* A link comes behind the address of its master.                           *)
LEMMA LinkAt ==
  ASSUME server \in Servers, at \in 1 .. Len(Lines[server]), Line.key \in MasterKeys
  PROVE  \E k \in 1 .. 5 * Len(server.masters) : at = Ahead(server) + k /\ (k - 1) % 5 \in {2, 3, 4}
<1> DEFINE n == Ahead(server)
           c == Len(server.masters)
           L == Lines[server]
           M == MasterLines(server)
           k == at - n
<1>1. PICK S : server.masters \in Seq(S)
  BY TypesOf DEF IsList
<1>2. c \in Nat /\ Len(M) = 5 * c
  BY <1>1, MasterLinesAre
<1>3. n \in Nat /\ \A i \in 1 .. Len(L) : L[i].key \in MasterKeys => i \in n + 1 .. n + Len(M)
  BY LinesAre DEF Placed
<1>4. at \in n + 1 .. n + Len(M)
  BY <1>3 DEF Line
<1>5. k \in 1 .. 5 * c /\ at = n + k
  BY <1>2, <1>3, <1>4
<1> HIDE DEF k
<1>6. (k - 1) % 5 \in {2, 3, 4}
  BY <1>5, MasterPlaces DEF Line
<1> QED
  BY <1>5, <1>6

(* So it is told under that address.                                        *)
LEMMA LineTold ==
  ASSUME server \in Servers, at \in 1 .. Len(Lines[server]), MasterRead,
         masterHost' = HostRead, masterPort' = PortRead
  PROVE  FullPart(server, Line, masterHost', masterPort') = LineTells(server, at)
<1> DEFINE m == MasterAt(server, at)
<1>1. LineTells(server, at) = FullPart(server, Line, m.host, m.port)
  BY DEF LineTells, Line
<1>2. CASE Line.key \notin MasterKeys
  BY <1>1, <1>2 DEF FullPart
<1>3. CASE Line.key \in MasterKeys
  <2>1. PICK k \in 1 .. 5 * Len(server.masters) : at = Ahead(server) + k /\ (k - 1) % 5 \in {2, 3, 4}
    BY <1>3, LinkAt
  <2>2. masterHost = m.host /\ masterPort = m.port
    BY <2>1, LinkPlaces
  <2>3. Line.key \notin {"master_host", "master_port"}
    BY <1>3 DEF MasterKeys
  <2> QED
    BY <1>1, <2>2, <2>3 DEF HostRead, PortRead
<1> QED
  BY <1>2, <1>3

(* The reader stays as described.                                           *)
LEMMA MasterReadOn ==
  ASSUME server \in Servers, at \in 1 .. Len(Lines[server]), MasterRead,
         masterHost' = HostRead, masterPort' = PortRead, server' = server, at' = at + 1
  PROVE  MasterRead'
<1> SUFFICES ASSUME NEW k \in 1 .. 5 * Len(server.masters), at + 1 = Ahead(server) + k + 1
             PROVE  /\ HostRead = MasterAt(server, at + 1 - 1).host
                    /\ (k - 1) % 5 # 0 => PortRead = MasterAt(server, at + 1 - 1).port
  BY DEF MasterRead
<1>1. at \in Nat /\ at + 1 - 1 = at
  <2>1. Len(Lines[server]) \in Nat
    BY LinesAre
  <2> QED
    BY <2>1
<1>2. Ahead(server) \in Nat /\ k \in Int
  BY LinesAre DEF Placed
<1>3. at = Ahead(server) + k
  BY <1>1, <1>2
<1>4. HostRead = MasterAt(server, at).host
  BY <1>3, LinkPlaces DEF HostRead
<1>5. (k - 1) % 5 # 0 => PortRead = MasterAt(server, at).port
  BY <1>3, LinkPlaces DEF PortRead
<1> QED
  BY <1>1, <1>4, <1>5

(* The lines that are past.                                                 *)
LEMMA PastOn ==
  ASSUME server \in Servers, at \in 1 .. Len(Lines[server]), server' = server, at' = at + 1
  PROVE  /\ Past' = Past \cup {Line} /\ at' - 1 = at /\ at' # 1 /\ at' \in 1 .. Len(Lines[server]) + 1
         /\ at' \in Nat \ {0} /\ 1 .. at' - 1 = (1 .. at - 1) \cup {at}
<1> DEFINE n == Len(Lines[server])
<1>1. n \in Nat
  BY LinesAre
<1>2. at \in 1 .. n /\ at' = at + 1
  OBVIOUS
<1> HIDE DEF n
<1>3. at \in Nat /\ at' - 1 = at /\ at' # 1 /\ at' \in 1 .. n + 1 /\ at' \in Nat \ {0}
  BY <1>1, <1>2
<1>4. 1 .. at' - 1 = (1 .. at - 1) \cup {at}
  BY <1>3
<1>5. Past' = {Lines[server][i] : i \in 1 .. at' - 1}
  BY DEF Past
<1>6. Past' = Past \cup {Line}
  BY <1>4, <1>5 DEF Past, Line
<1> QED
  BY <1>3, <1>4, <1>6 DEF n

(* What is remembered of the lines stays so: fields ...                     *)
LEMMA FieldReadOn ==
  ASSUME server \in Servers, at \in 1 .. Len(Lines[server]), FieldRead, ReaderMoves,
         server' = server, at' = at + 1
  PROVE  FieldRead'
<1>1. Past' = Past \cup {Line} /\ at' - 1 = at /\ at' # 1
  BY PastOn
<1>2. fieldClass' = IF at' = 1 THEN "" ELSE Into(Lines[server'][at' - 1])
  BY <1>1 DEF ReaderMoves, Line
<1>3. Past \subseteq LineSet(server) /\ Line \in LineSet(server)
  <2>1. Len(Lines[server]) \in Nat
    BY LinesAre
  <2>2. at \in 1 .. Len(Lines[server]) + 1 /\ at <= Len(Lines[server])
    BY <2>1
  <2> QED
    BY <2>2, PastIs
<1>4. /\ DOMAIN keyValues = {l.key : l \in {r \in Past : Kept(r)}}
      /\ \A l \in Past : Kept(l) => keyValues[l.key] = l.value
  BY DEF FieldRead
<1>5. keyValues' = IF Kept(Line) THEN Put(keyValues, Line.key, Line.value) ELSE keyValues
  BY DEF ReaderMoves
<1>6. \A l, m \in LineSet(server) : Kept(l) /\ Kept(m) /\ l.key = m.key => l.value = m.value
  BY KeptAre
<1> DEFINE P == Past
           Q == Past \cup {Line}
           e == Line
<1>7. P \subseteq LineSet(server) /\ e \in LineSet(server) /\ Q = P \cup {e}
  BY <1>3
<1>8. CASE Kept(e)
  <2>1. keyValues' = Put(keyValues, e.key, e.value)
    BY <1>5, <1>8
  <2> HIDE DEF P, Q, e
  <2>2. /\ DOMAIN keyValues' = DOMAIN keyValues \cup {e.key}
        /\ keyValues'[e.key] = e.value
        /\ \A k \in DOMAIN keyValues : k # e.key => keyValues'[k] = keyValues[k]
    BY <2>1 DEF Put
  <2>3. DOMAIN keyValues' = {l.key : l \in {r \in Q : Kept(r)}}
    BY <1>4, <1>7, <1>8, <2>2 DEF P
  <2>4. ASSUME NEW l \in Q, Kept(l)
        PROVE  keyValues'[l.key] = l.value
    <3>1. CASE l.key = e.key
      BY <1>6, <1>7, <1>8, <2>2, <2>4, <3>1
    <3>2. CASE l.key # e.key
      <4>1. l \in P /\ l.key \in DOMAIN keyValues
        BY <1>4, <1>7, <2>4, <3>2 DEF P
      <4> QED
        BY <1>4, <2>2, <2>4, <3>2, <4>1 DEF P
    <3> QED
      BY <3>1, <3>2
  <2> QED
    BY <1>1, <1>2, <2>3, <2>4 DEF FieldRead, Q
<1>9. CASE ~ Kept(e)
  <2>1. keyValues' = keyValues
    BY <1>5, <1>9
  <2>2. {r \in Q : Kept(r)} = {r \in P : Kept(r)}
    BY <1>9
  <2>3. DOMAIN keyValues' = {l.key : l \in {r \in Q : Kept(r)}}
    BY <1>4, <2>1, <2>2
  <2>4. \A l \in Q : Kept(l) => keyValues'[l.key] = l.value
    BY <1>4, <1>9, <2>1
  <2> QED
    BY <1>1, <1>2, <2>3, <2>4 DEF FieldRead
<1> QED
  BY <1>8, <1>9

(* ... and commands.                                                        *)
LEMMA CommandReadOn ==
  ASSUME server \in Servers, at \in 1 .. Len(Lines[server]), CommandRead, ReaderMoves,
         server' = server, at' = at + 1
  PROVE  CommandRead'
<1> DEFINE P == Past
           e == Line
           Q == P \cup {e}
<1>1. Past' = Q
  BY PastOn
<1>2. P \subseteq LineSet(server) /\ e \in LineSet(server)
  <2>1. Len(Lines[server]) \in Nat
    BY LinesAre
  <2>2. at \in 1 .. Len(Lines[server]) + 1 /\ at <= Len(Lines[server])
    BY <2>1
  <2> QED
    BY <2>2, PastIs
<1>3. /\ handledDBs = {l.n : l \in {r \in P : r.key = "db" /\ r.value.whole}}
      /\ DOMAIN cmdTotals = {l.value.cmd : l \in {r \in P : r.key = "cmdstat"}}
      /\ \A l \in P : l.key = "cmdstat" => cmdTotals[l.value.cmd] = TotalsOf(l.value)
      /\ cmdLatencies = {l.value : l \in {r \in P : r.key = "latency_percentiles_usec"}}
  BY DEF CommandRead
<1>4. /\ handledDBs' = IF e.key = "db" /\ e.value.whole THEN handledDBs \cup {e.n} ELSE handledDBs
      /\ cmdTotals' = IF e.key = "cmdstat" THEN Put(cmdTotals, e.value.cmd, TotalsOf(e.value)) ELSE cmdTotals
      /\ cmdLatencies' = IF e.key = "latency_percentiles_usec" THEN cmdLatencies \cup {e.value} ELSE cmdLatencies
  BY DEF ReaderMoves
<1>5. \A l, m \in LineSet(server) :
        l.key = "cmdstat" /\ m.key = "cmdstat" /\ l.value.cmd = m.value.cmd => l.value = m.value
  <2>1. \A i, j \in DOMAIN server.commands : server.commands[i].cmd = server.commands[j].cmd => i = j
    BY TypesOf DEF Consistent
  <2>2. \A l \in LineSet(server) : l.key = "cmdstat" =>
          \E i \in DOMAIN server.commands : l.value = server.commands[i]
    BY ListedLines DEF Field, Numbered
  <2> QED
    BY <2>1, <2>2
<1> HIDE DEF P, e
<1>6. handledDBs' = {l.n : l \in {r \in Q : r.key = "db" /\ r.value.whole}}
  BY <1>3, <1>4
<1>7. cmdLatencies' = {l.value : l \in {r \in Q : r.key = "latency_percentiles_usec"}}
  BY <1>3, <1>4
<1>8. /\ DOMAIN cmdTotals' = {l.value.cmd : l \in {r \in Q : r.key = "cmdstat"}}
      /\ \A l \in Q : l.key = "cmdstat" => cmdTotals'[l.value.cmd] = TotalsOf(l.value)
  <2>1. CASE e.key = "cmdstat"
    <3>1. /\ DOMAIN cmdTotals' = DOMAIN cmdTotals \cup {e.value.cmd}
          /\ cmdTotals'[e.value.cmd] = TotalsOf(e.value)
          /\ \A k \in DOMAIN cmdTotals : k # e.value.cmd => cmdTotals'[k] = cmdTotals[k]
      BY <1>4, <2>1 DEF Put
    <3>2. DOMAIN cmdTotals' = {l.value.cmd : l \in {r \in Q : r.key = "cmdstat"}}
      BY <1>3, <2>1, <3>1
    <3>3. ASSUME NEW l \in Q, l.key = "cmdstat"
          PROVE  cmdTotals'[l.value.cmd] = TotalsOf(l.value)
      <4>1. CASE l.value.cmd = e.value.cmd
        <5>1. l.value = e.value
          BY <1>2, <1>5, <2>1, <3>3, <4>1
        <5> QED
          BY <3>1, <5>1
      <4>2. CASE l.value.cmd # e.value.cmd
        <5>1. l \in P /\ l.value.cmd \in DOMAIN cmdTotals
          BY <1>3, <3>3, <4>2
        <5> QED
          BY <1>3, <3>1, <3>3, <4>2, <5>1
      <4> QED
        BY <4>1, <4>2
    <3> QED
      BY <3>2, <3>3
  <2>2. CASE e.key # "cmdstat"
    <3>1. cmdTotals' = cmdTotals /\ {r \in Q : r.key = "cmdstat"} = {r \in P : r.key = "cmdstat"}
      BY <1>4, <2>2
    <3> QED
      BY <1>3, <2>2, <3>1
  <2> QED
    BY <2>1, <2>2
<1> HIDE DEF Q
<1> QED
  BY <1>1, <1>6, <1>7, <1>8 DEF CommandRead

(* One more line.                                                           *)
LEMMA UnionOn ==
  ASSUME NEW s, NEW I, NEW i
  PROVE  UNION {LineTells(s, j) : j \in I \cup {i}} = LineTells(s, i) \cup UNION {LineTells(s, j) : j \in I}
OBVIOUS

(* A line of INFO.                                                          *)
LEMMA InfoLineStep ==
  ASSUME IInv, InfoLine
  PROVE  IInv'
<1>1. pc = "info" /\ at <= Len(Lines[server]) /\ at' = at + 1 /\ pc' = "info"
      /\ UNCHANGED <<instanceRole, server, scrapes, settings, dbCount>>
  BY DEF InfoLine, SectionLine, Replication, ServerField, TLSField, ScriptingEngine, CommandStats,
         LatencyStats, ErrorStats, RepeatedClusterInfo, Keyspace, Sentinel, OtherField, FieldOf, NextLine
<1>2. Types /\ Fit(exporter) /\ RoleTold /\ server \in Servers /\ settings = {}
  BY <1>1 DEF IInv, Types
<1>3. /\ ToSet(samples) = BeforeInfo(server) \cup UNION {LineTells(server, i) : i \in 1 .. at - 1}
      /\ dbCount = Databases(server) /\ Reading
  BY <1>1 DEF IInv, CollectedEarly
<1>4. FieldRead /\ MasterRead /\ CommandRead /\ at \in 1 .. Len(Lines[server])
  <2>1. Len(Lines[server]) \in Nat
    BY <1>2, LinesAre
  <2>2. at \in 1 .. Len(Lines[server])
    BY <1>1, <1>3, <2>1 DEF Reading
  <2> QED
    BY <1>3, <2>2 DEF Reading
<1>5. InPlace
  BY <1>1, <1>2, <1>3, LineInPlace
<1>6. ReaderMoves
  BY <1>5, InfoMoves
<1>7. masterHost' = HostRead /\ masterPort' = PortRead
  BY <1>6 DEF ReaderMoves
<1>8. Grows(LineTells(server, at))
  BY <1>2, <1>4, <1>5, <1>7, LineGrows, LineTold
<1>9. FieldRead' /\ MasterRead' /\ CommandRead'
  BY <1>1, <1>2, <1>4, <1>6, <1>7, FieldReadOn, MasterReadOn, CommandReadOn
<1>10. at' \in 1 .. Len(Lines[server]) + 1 /\ at' \in Nat \ {0} /\ at' - 1 = at /\ at \in Nat
  BY <1>1, <1>2, <1>4, PastOn
<1>11. appendRole' = appendRole
  BY DEF InfoLine, SectionLine, Replication, ServerField, TLSField, ScriptingEngine, CommandStats,
         LatencyStats, ErrorStats, RepeatedClusterInfo, Keyspace, Sentinel, OtherField, Becomes, exporterVars
<1>12. Types'
  BY <1>1, <1>2, <1>10, <1>11, TypesStay DEF PCs, Types
<1>13. ToSet(samples)' = BeforeInfo(server) \cup UNION {LineTells(server, i) : i \in 1 .. at' - 1}
  <2>1. 1 .. at' - 1 = (1 .. at - 1) \cup {at}
    BY <1>1, <1>2, <1>4, PastOn
  <2>2. UNION {LineTells(server, i) : i \in (1 .. at - 1) \cup {at}}
          = LineTells(server, at) \cup UNION {LineTells(server, i) : i \in 1 .. at - 1}
    BY UnionOn
  <2>3. ToSet(samples)' = ToSet(samples) \cup LineTells(server, at)
    BY <1>8 DEF Grows
  <2> QED
    BY <1>3, <2>1, <2>2, <2>3
<1>14. CollectedEarly'
  <2>1. BeforeInfo(server)' = BeforeInfo(server) /\ \A i : LineTells(server, i)' = LineTells(server, i)
    BY <1>1, <1>11, WholeStays, PartsStay
  <2>2. UNION {LineTells(server, i)' : i \in 1 .. at' - 1} = UNION {LineTells(server, i) : i \in 1 .. at' - 1}
    BY <2>1
  <2>3. (dbCount = Databases(server))' /\ Reading'
    BY <1>1, <1>3, <1>9, <1>10 DEF Reading, Databases
  <2> QED
    BY <1>1, <1>13, <2>1, <2>2, <2>3 DEF CollectedEarly
<1>15. CollectedLate'
  BY <1>1 DEF CollectedLate
<1> QED
  BY <1>8, <1>12, <1>14, <1>15 DEF IInv, Grows

(* INFO tells a cluster where there is one.                                 *)
LEMMA HoldsCluster ==
  ASSUME NEW s \in Servers
  PROVE  Holds(s, "cluster_enabled", "1") <=> s.cluster # "off"
<1> DEFINE L == InfoAll(s)
           C == ToSet(ClusterLines(s))
           v == IF s.cluster = "off" THEN "0" ELSE "1"
           e == Field("cluster_enabled", v)
<1>1. ToSet(L) = LineSet(s)
  BY LinesAre
<1>2. Holds(s, "cluster_enabled", "1") <=> \E l \in LineSet(s) : l.key = "cluster_enabled" /\ l.value = "1"
  BY <1>1 DEF Holds, ToSet
<1>3. \A l \in LineSet(s) : l.key = "cluster_enabled" => l \in C /\ ~ IsSentinel(s)
  BY KeysAre DEF LineSet, ServerKeys, ReplicationKeys, MasterKeys
<1>4. e \in C /\ \A l \in C : l.key = "cluster_enabled" => l = e
  <2> DEFINE ci == Section("Cluster Info")
             h == Section("Cluster")
             k == {ci, Field("cluster_state", "ok"), Field("cluster_known_nodes", "3")}
  <2>1. C = {h, e} \cup IF IsValkey(s) /\ s.cluster # "off" THEN k ELSE {}
    BY ClusterLinesAre
  <2>2. h.key = "#" /\ \A l \in k : l.key # "cluster_enabled"
    <3>1. ci.key = "#" /\ h.key = "#"
      BY DEF Section
    <3>2. \A l \in {Field("cluster_state", "ok"), Field("cluster_known_nodes", "3")} : l.key # "cluster_enabled"
      BY DEF Field, Numbered
    <3> HIDE DEF ci
    <3> QED
      BY <3>1, <3>2
  <2> HIDE DEF h, k, C, e
  <2> QED
    BY <2>1, <2>2
<1>5. e.key = "cluster_enabled" /\ (e.value = "1" <=> s.cluster # "off")
  BY DEF Field, Numbered
<1>6. ~ IsSentinel(s) => C \subseteq LineSet(s)
  BY DEF LineSet
<1>7. IsSentinel(s) => s.cluster = "off"
  BY TypesOf DEF Consistent
<1> HIDE DEF C, e
<1> QED
  BY <1>2, <1>3, <1>4, <1>5, <1>6, <1>7

(* The number of databases, as the code finds it.                           *)
LEMMA DatabasesAre ==
  ASSUME NEW s \in Servers
  PROVE  /\ Databases(s) = CASE s.cluster \notin {"off", Denied} -> 1
                             [] s.cluster = "off" /\ Configured(s) = 0 -> DefaultDatabases
                             [] OTHER -> Configured(s)
         /\ Databases(s) \in Nat
<1>1. Databases(s) = CASE s.cluster \notin {"off", Denied} -> 1
                       [] s.cluster = "off" /\ Configured(s) = 0 -> DefaultDatabases
                       [] OTHER -> Configured(s)
  <2>1. (s.config # Denied /\ "databases" \in DOMAIN s.config /\ IsNumber(s.config["databases"]))
          <=> ("databases" \in Keys(s) /\ IsNumber(s.config["databases"]))
    BY DEF Keys
  <2> QED
    BY <2>1 DEF Databases, Configured
<1>2. Configured(s) \in Nat /\ DefaultDatabases \in Nat
  BY ConfiguredIs, InfoMetricsAssumption
<1>3. Databases(s) \in Nat
  <2>1. CASE s.cluster \notin {"off", Denied}
    BY <1>1, <2>1
  <2>2. CASE s.cluster \in {"off", Denied}
    <3> DEFINE c == Configured(s)
    <3> HIDE DEF c
    <3>1. Databases(s) \in {DefaultDatabases, c}
      BY <1>1, <2>2 DEF c
    <3> QED
      BY <1>2, <3>1 DEF c
  <2> QED
    BY <2>1, <2>2
<1> QED
  BY <1>1, <1>3

(* Before the first line, nothing has been read.                            *)
LEMMA ReadingBegins ==
  ASSUME server' \in Servers, InitReader', at' = 1
  PROVE  Reading'
<1>1. Past' = {}
  <2>1. 1 .. at' - 1 = {}
    OBVIOUS
  <2> QED
    BY <2>1 DEF Past
<1>2. Len(Lines[server']) \in Nat /\ Ahead(server') \in Nat
  BY LinesAre DEF Placed
<1>3. 1 \in 1 .. Len(Lines[server']) + 1
  BY <1>2
<1>4. MasterRead'
  <2>1. PICK S : server'.masters \in Seq(S)
    BY TypesOf DEF IsList
  <2>2. Len(server'.masters) \in Nat
    BY <2>1, LenProperties
  <2> DEFINE n == Ahead(server')
             c == Len(server'.masters)
  <2> HIDE DEF n, c
  <2>3. \A k \in 1 .. 5 * c : 1 # n + k + 1
    BY <1>2, <2>2 DEF n, c
  <2> QED
    BY <2>3 DEF MasterRead, n, c
<1>5. DOMAIN keyValues' = {} /\ DOMAIN cmdTotals' = {}
  <2>1. DOMAIN <<>> = {}
    BY TuplesAre, LenProperties
  <2> QED
    BY <2>1 DEF InitReader
<1>6. FieldRead'
  BY <1>1, <1>5 DEF FieldRead, InitReader
<1>7. CommandRead'
  BY <1>1, <1>5 DEF CommandRead, InitReader
<1> QED
  BY <1>3, <1>4, <1>6, <1>7 DEF Reading

(* The other steps before INFO and after it: CLUSTER INFO, ...              *)
LEMMA ClusterInfoStep ==
  ASSUME IInv, ClusterInfo
  PROVE  IInv'
<1>1. /\ pc = "cluster" /\ pc' = "info" /\ server' = server
      /\ UNCHANGED <<instanceRole, scrapes, settings, at, reader>>
  BY DEF ClusterInfo
<1>2. Types /\ Fit(exporter) /\ RoleTold /\ server \in Servers /\ settings = {} /\ at = 1 /\ InitReader
  BY <1>1 DEF IInv, Types
<1>3. ToSet(samples) = Connected(server) \cup PromisedConfig(server) /\ dbCount = Configured(server)
  BY <1>1 DEF IInv, CollectedEarly
<1>4. Grows(ClusterPart(server)) /\ dbCount' = Databases(server) /\ appendRole' = appendRole
  <2>1. CASE server.cluster = "off"
    <3>1. Becomes(exporter) /\ dbCount' = IF dbCount = 0 THEN DefaultDatabases ELSE dbCount
      BY <1>2, <2>1, HoldsCluster DEF ClusterInfo
    <3>2. ClusterPart(server) = {}
      BY <2>1 DEF ClusterPart
    <3>3. dbCount' = Databases(server)
      <4> DEFINE c == Configured(server)
      <4> HIDE DEF c
      <4>1. Databases(server) = IF c = 0 THEN DefaultDatabases ELSE c
        BY <1>2, <2>1, DatabasesAre DEF c
      <4> QED
        BY <1>3, <3>1, <4>1 DEF c
    <3> QED
      BY <1>2, <3>1, <3>2, <3>3, SameGrows DEF Becomes
  <2>2. CASE server.cluster # "off" /\ server.cluster = Denied
    <3>1. Becomes(exporter) /\ dbCount' = dbCount
      BY <1>2, <2>2, HoldsCluster DEF ClusterInfo
    <3>2. ClusterPart(server) = {}
      BY <2>2 DEF ClusterPart
    <3>3. Databases(server) = Configured(server)
      BY <1>2, <2>2, DatabasesAre
    <3> QED
      BY <1>2, <1>3, <3>1, <3>2, <3>3, SameGrows DEF Becomes
  <2>3. CASE server.cluster # "off" /\ server.cluster # Denied
    <3>1. Becomes(FoldLeft(FromField, exporter, ClusterReply)) /\ dbCount' = 1
      BY <1>2, <2>3, HoldsCluster DEF ClusterInfo
    <3>2. ClusterPart(server) = {Plain(server, "cluster_state", 1), Plain(server, "cluster_known_nodes", 3)}
      BY <2>3 DEF ClusterPart
    <3>3. Databases(server) = 1
      BY <1>2, <2>3, DatabasesAre
    <3>4. Grows(ClusterPart(server))
      BY <1>2, <3>1, <3>2, ClusterAdds, BecomesGrows
    <3> QED
      BY <3>1, <3>3, <3>4 DEF Becomes
  <2> QED
    BY <2>1, <2>2, <2>3
<1>5. at' = 1 /\ InitReader'
  BY <1>1, <1>2 DEF InitReader, reader
<1>6. Types'
  <2>1. dbCount' \in Nat
    BY <1>2, <1>4, DatabasesAre
  <2> QED
    BY <1>1, <1>2, <1>4, <1>5, <2>1, TypesStay DEF PCs, Types
<1>7. Reading'
  <2>1. server' \in Servers /\ InitReader' /\ at' = 1
    BY <1>1, <1>2, <1>5
  <2> QED
    BY <2>1, ReadingBegins
<1>8. ToSet(samples)' = BeforeInfo(server)
  BY <1>3, <1>4 DEF Grows, BeforeInfo
<1>9. BeforeInfo(server)' = BeforeInfo(server) /\ Databases(server)' = Databases(server)
  BY <1>1, <1>4, WholeStays DEF Databases
<1>10. UNION {LineTells(server, i)' : i \in 1 .. at' - 1} = {}
  <2>1. 1 .. at' - 1 = {}
    BY <1>5
  <2> QED
    BY <2>1
<1>11. CollectedEarly'
  BY <1>1, <1>4, <1>7, <1>8, <1>9, <1>10 DEF CollectedEarly
<1>12. CollectedLate'
  BY <1>1 DEF CollectedLate
<1> QED
  BY <1>4, <1>6, <1>11, <1>12 DEF IInv, Grows

(* The next part of a scrape begins.                                        *)
LEMMA GoesOn ==
  ASSUME Types, pc \notin {"idle", "config", "failed", "info"}, NEW part,
         part \in PCs \ {"idle", "config", "failed", "info"}, GoOn(part), appendRole' = appendRole
  PROVE  Types' /\ server' = server /\ pc' = part /\ at' = 1
<1>1. /\ pc' = part /\ at' = 1
      /\ UNCHANGED <<instanceRole, server, scrapes, settings, dbCount, reader>>
  BY DEF GoOn
<1>2. InitReader'
  BY <1>1 DEF Types, InitReader, reader
<1>3. settings' = {} /\ dbCount' \in Nat
  BY <1>1 DEF Types
<1> QED
  BY <1>1, <1>2, <1>3, TypesStay

(* ... extractLatencyMetrics, ...                                           *)
LEMMA LatencyStep ==
  ASSUME IInv, Latency
  PROVE  IInv'
<1>1. pc = "latency" /\ GoOn("slowlog") /\ appendRole' = appendRole
  BY DEF Latency, Becomes
<1>2. Types /\ Fit(exporter) /\ RoleTold /\ server \in Servers
  BY <1>1 DEF IInv, Types
<1>3. ToSet(samples) = AfterInfo(server)
  BY <1>1 DEF IInv, CollectedEarly
<1>4. Grows(PromisedLatency(server))
  BY <1>2, LatencyGrows
<1>5. Types' /\ server' = server /\ pc' = "slowlog"
  BY <1>1, <1>2, GoesOn DEF PCs
<1>6. /\ AfterInfo(server)' = AfterInfo(server)
      /\ PromisedLatency(server)' = PromisedLatency(server)
  BY <1>1, <1>5, WholeStays, PromisesStay
<1>7. CollectedEarly' /\ CollectedLate'
  BY <1>3, <1>4, <1>5, <1>6 DEF CollectedEarly, CollectedLate, Grows
<1> QED
  BY <1>4, <1>5, <1>7 DEF IInv, Grows

(* ... extractSlowLogMetrics, ...                                           *)
LEMMA SlowLogStep ==
  ASSUME IInv, SlowLog
  PROVE  IInv'
<1>1. pc = "slowlog" /\ GoOn("commandlog") /\ appendRole' = appendRole
  BY DEF SlowLog, Becomes
<1>2. Types /\ Fit(exporter) /\ RoleTold /\ server \in Servers
  BY <1>1 DEF IInv, Types
<1>3. ToSet(samples) = AfterInfo(server) \cup PromisedLatency(server)
  BY <1>1 DEF IInv, CollectedEarly
<1>4. Grows(PromisedSlowLog(server))
  BY <1>2, SlowLogGrows
<1>5. Types' /\ server' = server /\ pc' = "commandlog"
  BY <1>1, <1>2, GoesOn DEF PCs
<1>6. /\ AfterInfo(server)' = AfterInfo(server)
      /\ PromisedLatency(server)' = PromisedLatency(server)
      /\ PromisedSlowLog(server)' = PromisedSlowLog(server)
  BY <1>1, <1>5, WholeStays, PromisesStay
<1>7. CollectedEarly' /\ CollectedLate'
  BY <1>3, <1>4, <1>5, <1>6 DEF CollectedEarly, CollectedLate, Grows
<1> QED
  BY <1>4, <1>5, <1>7 DEF IInv, Grows

(* The masters of a Sentinel and the clients are lists.                     *)
LEMMA ListedIs ==
  ASSUME NEW s \in Servers
  PROVE  /\ IsList(Listed(s)) /\ Len(Listed(s)) \in Nat /\ Len(s.watched) \in Nat
         /\ DOMAIN Listed(s) = 1 .. Len(Listed(s)) /\ DOMAIN s.watched = 1 .. Len(s.watched)
<1>1. PICK S : s.clients \in Maybe(Seq(S))
  BY TypesOf DEF ServerTypes
<1>2. Listed(s) \in Seq(S)
  BY <1>1, AnswersAre DEF Listed
<1>3. PICK T : s.watched \in Seq(T)
  BY TypesOf DEF IsList
<1> QED
  BY <1>2, <1>3, LenProperties DEF IsList

(* ... extractCommandLogMetrics, ...                                        *)
LEMMA CommandLogStep ==
  ASSUME IInv, CommandLog
  PROVE  IInv'
<1> DEFINE part == IF IsSentinel(server) THEN "sentinel" ELSE "clients"
<1>1. pc = "commandlog" /\ GoOn(part) /\ appendRole' = appendRole
  BY DEF CommandLog, Becomes
<1>2. Types /\ Fit(exporter) /\ RoleTold /\ server \in Servers
  BY <1>1 DEF IInv, Types
<1>3. ToSet(samples) = AfterInfo(server) \cup PromisedLatency(server) \cup PromisedSlowLog(server)
  BY <1>1 DEF IInv, CollectedLate
<1>4. Grows(PromisedCommandLog(server))
  BY <1>2, CommandLogGrows
<1>5. Types' /\ server' = server /\ pc' = part /\ at' = 1
  BY <1>1, <1>2, GoesOn DEF PCs
<1>6. AfterLogs(server)' = AfterLogs(server) /\ AfterSentinel(server)' = AfterSentinel(server)
  BY <1>1, <1>5, WholeStays
<1>7. ToSet(samples)' = AfterLogs(server)
  BY <1>3, <1>4 DEF Grows, AfterLogs
<1>8. CollectedEarly'
  BY <1>5 DEF CollectedEarly
<1>9. IsSentinel(server)' = IsSentinel(server)
  BY <1>5 DEF IsSentinel
<1>10. 1 <= Len(server.watched) + 1 /\ 1 <= Len(Listed(server)) + 1
  BY <1>2, ListedIs
<1>11. Len(server'.watched) = Len(server.watched) /\ Len(Listed(server')) = Len(Listed(server))
  BY <1>5
<1>12. WatchedTells(server, at - 1)' = {} /\ ListedTells(server, at - 1)' = {}
  <2>1. 1 .. at' - 1 = {}
    BY <1>5
  <2> QED
    BY <2>1 DEF WatchedTells, ListedTells
<1>13. CollectedLate'
  <2>1. CASE IsSentinel(server)
    BY <1>5, <1>6, <1>7, <1>9, <1>10, <1>12, <2>1 DEF CollectedLate
  <2>2. CASE ~ IsSentinel(server)
    <3>1. AfterSentinel(server) = AfterLogs(server)
      BY <2>2 DEF AfterSentinel
    <3> QED
      BY <1>5, <1>6, <1>7, <1>10, <1>12, <2>2, <3>1 DEF CollectedLate
  <2> QED
    BY <2>1, <2>2
<1> QED
  BY <1>4, <1>5, <1>8, <1>13 DEF IInv, Grows

(* One more of a list.                                                      *)
LEMMA WatchedOn ==
  ASSUME NEW s, s.mastersReply # Denied, NEW n \in Nat \ {0}
  PROVE  WatchedTells(s, n) = WatchedTells(s, n - 1) \cup PromisedMaster(s, s.watched[n])
<1>1. 1 .. n = (1 .. n - 1) \cup {n}
  OBVIOUS
<1>2. ASSUME NEW I
      PROVE  UNION {PromisedMaster(s, s.watched[i]) : i \in I \cup {n}}
               = PromisedMaster(s, s.watched[n]) \cup UNION {PromisedMaster(s, s.watched[i]) : i \in I}
  OBVIOUS
<1>3. UNION {PromisedMaster(s, s.watched[i]) : i \in (1 .. n - 1) \cup {n}}
        = PromisedMaster(s, s.watched[n]) \cup UNION {PromisedMaster(s, s.watched[i]) : i \in 1 .. n - 1}
  BY <1>2
<1>4. /\ WatchedTells(s, n) = UNION {PromisedMaster(s, s.watched[i]) : i \in 1 .. n}
      /\ WatchedTells(s, n - 1) = UNION {PromisedMaster(s, s.watched[i]) : i \in 1 .. n - 1}
  BY DEF WatchedTells
<1> QED
  BY <1>1, <1>3, <1>4

(* (one more client)                                                        *)
LEMMA ListedOn ==
  ASSUME NEW s, NEW n \in Nat \ {0}
  PROVE  ListedTells(s, n) = ListedTells(s, n - 1) \cup ListedPart(s, Listed(s)[n])
<1>1. 1 .. n = (1 .. n - 1) \cup {n}
  OBVIOUS
<1>2. ASSUME NEW I
      PROVE  UNION {ListedPart(s, Listed(s)[i]) : i \in I \cup {n}}
               = ListedPart(s, Listed(s)[n]) \cup UNION {ListedPart(s, Listed(s)[i]) : i \in I}
  OBVIOUS
<1>3. UNION {ListedPart(s, Listed(s)[i]) : i \in (1 .. n - 1) \cup {n}}
        = ListedPart(s, Listed(s)[n]) \cup UNION {ListedPart(s, Listed(s)[i]) : i \in 1 .. n - 1}
  BY <1>2
<1>4. /\ ListedTells(s, n) = UNION {ListedPart(s, Listed(s)[i]) : i \in 1 .. n}
      /\ ListedTells(s, n - 1) = UNION {ListedPart(s, Listed(s)[i]) : i \in 1 .. n - 1}
  BY DEF ListedTells
<1> QED
  BY <1>1, <1>3, <1>4

(* ... a master of a Sentinel, ...                                          *)
LEMMA SentinelMasterStep ==
  ASSUME IInv, SentinelMaster
  PROVE  IInv'
<1>1. /\ pc = "sentinel" /\ server.mastersReply # Denied /\ at <= Len(server.watched)
      /\ at' = at + 1 /\ appendRole' = appendRole
      /\ UNCHANGED <<instanceRole, server, pc, scrapes, settings, dbCount, reader>>
  BY DEF SentinelMaster, Becomes
<1>2. /\ Types /\ Fit(exporter) /\ RoleTold /\ server \in Servers /\ at \in Nat \ {0}
      /\ settings = {} /\ dbCount \in Nat /\ InitReader
  BY <1>1 DEF IInv, Types
<1>3. IsSentinel(server) /\ ToSet(samples) = AfterLogs(server) \cup WatchedTells(server, at - 1)
  BY <1>1 DEF IInv, CollectedLate
<1>4. Grows(PromisedMaster(server, server.watched[at]))
  BY <1>2, SentinelMasterGrows
<1>5. Types'
  <2>1. at' \in Nat \ {0}
    BY <1>1, <1>2
  <2>2. InitReader'
    BY <1>1, <1>2 DEF InitReader, reader
  <2> QED
    BY <1>1, <1>2, <2>1, <2>2, TypesStay DEF PCs
<1>6. AfterLogs(server)' = AfterLogs(server) /\ \A n : WatchedTells(server, n)' = WatchedTells(server, n)
  BY <1>1, WholeStays
<1>7. ToSet(samples)' = AfterLogs(server) \cup WatchedTells(server, at)
  BY <1>1, <1>2, <1>3, <1>4, WatchedOn DEF Grows
<1>8. at' - 1 = at
  BY <1>1, <1>2
<1>9. WatchedTells(server, at - 1)' = WatchedTells(server, at)
  <2>1. \A m : PromisedMaster(server, m)' = PromisedMaster(server, m)
    BY <1>1, PartsStay
  <2>2. WatchedTells(server, at - 1)' = UNION {PromisedMaster(server, server.watched[i])' : i \in 1 .. at' - 1}
    BY <1>1 DEF WatchedTells
  <2> QED
    BY <1>1, <1>8, <2>1, <2>2 DEF WatchedTells
<1>10. at' <= Len(server'.watched) + 1
  BY <1>1, <1>2, ListedIs
<1>11. CollectedEarly'
  BY <1>1 DEF CollectedEarly
<1>12. CollectedLate'
  BY <1>1, <1>3, <1>6, <1>7, <1>9, <1>10 DEF CollectedLate, IsSentinel
<1> QED
  BY <1>4, <1>5, <1>11, <1>12 DEF IInv, Grows

(* ... its configuration, ...                                               *)
LEMMA SentinelOverStep ==
  ASSUME IInv, SentinelOver
  PROVE  IInv'
<1>1. /\ pc = "sentinel" /\ (server.mastersReply = Denied \/ at > Len(server.watched))
      /\ GoOn("clients") /\ appendRole' = appendRole
  BY DEF SentinelOver, Becomes
<1>2. Types /\ Fit(exporter) /\ RoleTold /\ server \in Servers /\ at \in Nat \ {0}
  BY <1>1 DEF IInv, Types
<1>3. /\ IsSentinel(server) /\ at <= Len(server.watched) + 1
      /\ ToSet(samples) = AfterLogs(server) \cup WatchedTells(server, at - 1)
  BY <1>1 DEF IInv, CollectedLate
<1>4. Grows(PromisedSettings(server))
  BY <1>2, SentinelOverGrows
<1>5. Types' /\ server' = server /\ pc' = "clients" /\ at' = 1
  BY <1>1, <1>2, GoesOn DEF PCs
<1>6. WatchedTells(server, at - 1) = WatchedTells(server, Len(server.watched))
  <2>1. CASE server.mastersReply = Denied
    BY <2>1 DEF WatchedTells
  <2>2. CASE at > Len(server.watched)
    <3>1. Len(server.watched) \in Nat
      BY <1>2, ListedIs
    <3>2. at - 1 = Len(server.watched)
      BY <1>2, <1>3, <2>2, <3>1
    <3> QED
      BY <3>2
  <2> QED
    BY <1>1, <2>1, <2>2
<1>7. ToSet(samples)' = AfterSentinel(server)
  BY <1>3, <1>4, <1>6 DEF Grows, AfterSentinel
<1>8. AfterSentinel(server)' = AfterSentinel(server)
  BY <1>1, <1>5, WholeStays
<1>9. ListedTells(server, at - 1)' = {}
  <2>1. 1 .. at' - 1 = {}
    BY <1>5
  <2> QED
    BY <2>1 DEF ListedTells
<1>10. at' <= Len(Listed(server)') + 1
  BY <1>2, <1>5, ListedIs
<1>11. CollectedEarly' /\ CollectedLate'
  BY <1>5, <1>7, <1>8, <1>9, <1>10 DEF CollectedEarly, CollectedLate
<1> QED
  BY <1>4, <1>5, <1>11 DEF IInv, Grows

(* ... a client, ...                                                        *)
LEMMA ClientStep ==
  ASSUME IInv, Client
  PROVE  IInv'
<1>1. /\ pc = "clients" /\ at <= Len(Listed(server))
      /\ at' = at + 1 /\ appendRole' = appendRole
      /\ UNCHANGED <<instanceRole, server, pc, scrapes, settings, dbCount, reader>>
  BY DEF Client, Becomes
<1>2. /\ Types /\ Fit(exporter) /\ RoleTold /\ server \in Servers /\ at \in Nat \ {0}
      /\ settings = {} /\ dbCount \in Nat /\ InitReader
  BY <1>1 DEF IInv, Types
<1>3. ToSet(samples) = AfterSentinel(server) \cup ListedTells(server, at - 1)
  BY <1>1 DEF IInv, CollectedLate
<1>4. Grows(ListedPart(server, Listed(server)[at]))
  BY <1>2, ClientGrows
<1>5. Types'
  <2>1. at' \in Nat \ {0}
    BY <1>1, <1>2
  <2>2. InitReader'
    BY <1>1, <1>2 DEF InitReader, reader
  <2> QED
    BY <1>1, <1>2, <2>1, <2>2, TypesStay DEF PCs
<1>6. AfterSentinel(server)' = AfterSentinel(server)
  BY <1>1, WholeStays
<1>7. ToSet(samples)' = AfterSentinel(server) \cup ListedTells(server, at)
  BY <1>2, <1>3, <1>4, ListedOn DEF Grows
<1>8. at' - 1 = at
  BY <1>1, <1>2
<1>9. ListedTells(server, at - 1)' = ListedTells(server, at)
  <2>1. \A c : ListedPart(server, c)' = ListedPart(server, c)
    BY <1>1, PartsStay
  <2>2. Listed(server)' = Listed(server)
    BY <1>1
  <2>3. ListedTells(server, at - 1)' = UNION {ListedPart(server, Listed(server)[i])' : i \in 1 .. at' - 1}
    BY DEF ListedTells
  <2> QED
    BY <1>8, <2>1, <2>2, <2>3 DEF ListedTells
<1>10. at' <= Len(Listed(server)') + 1
  BY <1>1, <1>2, ListedIs
<1>11. CollectedEarly'
  BY <1>1 DEF CollectedEarly
<1>12. CollectedLate'
  BY <1>1, <1>6, <1>7, <1>9, <1>10 DEF CollectedLate
<1> QED
  BY <1>4, <1>5, <1>11, <1>12 DEF IInv, Grows

(* ... the end of them, ...                                                 *)
LEMMA ClientsOverStep ==
  ASSUME IInv, ClientsOver
  PROVE  IInv'
<1>1. pc = "clients" /\ at > Len(Listed(server)) /\ GoOn("modules") /\ Becomes(exporter)
      /\ appendRole' = appendRole
  BY DEF ClientsOver, Becomes
<1>2. Types /\ Fit(exporter) /\ RoleTold /\ server \in Servers /\ at \in Nat \ {0}
  BY <1>1 DEF IInv, Types
<1>3. at <= Len(Listed(server)) + 1 /\ ToSet(samples) = AfterSentinel(server) \cup ListedTells(server, at - 1)
  BY <1>1 DEF IInv, CollectedLate
<1>4. Grows({})
  BY <1>1, <1>2, SameGrows
<1>5. Types' /\ server' = server /\ pc' = "modules"
  BY <1>1, <1>2, GoesOn DEF PCs
<1>6. ListedTells(server, at - 1) = PromisedClients(server)
  <2>1. Len(Listed(server)) \in Nat /\ DOMAIN Listed(server) = 1 .. Len(Listed(server))
    BY <1>2, ListedIs
  <2>2. at - 1 = Len(Listed(server))
    BY <1>1, <1>2, <1>3, <2>1
  <2> QED
    BY <1>2, <2>1, <2>2, ClientsAre DEF ListedTells
<1>7. ToSet(samples)' = AfterSentinel(server) \cup PromisedClients(server)
  BY <1>3, <1>4, <1>6 DEF Grows
<1>8. /\ AfterSentinel(server)' = AfterSentinel(server)
      /\ PromisedClients(server)' = PromisedClients(server)
  BY <1>1, <1>5, WholeStays, PromisesStay
<1>9. CollectedEarly' /\ CollectedLate'
  BY <1>5, <1>7, <1>8 DEF CollectedEarly, CollectedLate
<1> QED
  BY <1>4, <1>5, <1>9 DEF IInv, Grows

(* ... extractModulesMetrics ...                                            *)
LEMMA ModulesStep ==
  ASSUME IInv, Modules
  PROVE  IInv'
<1>1. pc = "modules" /\ GoOn("indexes") /\ appendRole' = appendRole
  BY DEF Modules, Becomes
<1>2. Types /\ Fit(exporter) /\ RoleTold /\ server \in Servers
  BY <1>1 DEF IInv, Types
<1>3. ToSet(samples) = AfterSentinel(server) \cup PromisedClients(server)
  BY <1>1 DEF IInv, CollectedLate
<1>4. Grows(PromisedModules(server))
  BY <1>2, ModulesGrows
<1>5. Types' /\ server' = server /\ pc' = "indexes"
  BY <1>1, <1>2, GoesOn DEF PCs
<1>6. /\ AfterSentinel(server)' = AfterSentinel(server)
      /\ PromisedClients(server)' = PromisedClients(server)
      /\ PromisedModules(server)' = PromisedModules(server)
  BY <1>1, <1>5, WholeStays, PromisesStay
<1>7. CollectedEarly' /\ CollectedLate'
  BY <1>3, <1>4, <1>5, <1>6 DEF CollectedEarly, CollectedLate, Grows
<1> QED
  BY <1>4, <1>5, <1>7 DEF IInv, Grows

(* The parts of a scrape are all that is promised.                          *)
LEMMA PartsAre ==
  ASSUME NEW s \in Servers
  PROVE  AfterSentinel(s) \cup PromisedClients(s) \cup PromisedModules(s) \cup PromisedIndexes(s)
           = Promised(s)
<1>1. IsSentinel(s) =>
        PromisedSentinel(s) = PromisedWatched(s) \cup PromisedSettings(s)
                              \cup WatchedTells(s, Len(s.watched))
  <2>1. DOMAIN s.watched = 1 .. Len(s.watched)
    BY ListedIs
  <2>2. WatchedTells(s, Len(s.watched)) =
          UNION {PromisedMaster(s, m) : m \in IF s.mastersReply = Denied THEN {} ELSE ToSet(s.watched)}
    BY <2>1 DEF WatchedTells, ToSet
  <2> QED
    BY <2>2 DEF PromisedSentinel
<1>2. CASE IsSentinel(s)
  BY <1>1, <1>2 DEF AfterSentinel, AfterLogs, AfterInfo, Promised
<1>3. CASE ~ IsSentinel(s)
  BY <1>3 DEF AfterSentinel, AfterLogs, AfterInfo, Promised
<1> QED
  BY <1>2, <1>3

(* ... and extractSearchIndexesMetrics.                                     *)
LEMMA SearchIndexesStep ==
  ASSUME IInv, SearchIndexes
  PROVE  IInv'
<1>1. pc = "indexes" /\ GoOn("done") /\ appendRole' = appendRole
  BY DEF SearchIndexes, Becomes
<1>2. Types /\ Fit(exporter) /\ RoleTold /\ server \in Servers
  BY <1>1 DEF IInv, Types
<1>3. ToSet(samples) = AfterSentinel(server) \cup PromisedClients(server) \cup PromisedModules(server)
  BY <1>1 DEF IInv, CollectedLate
<1>4. Grows(PromisedIndexes(server))
  BY <1>2, SearchIndexesGrows
<1>5. Types' /\ server' = server /\ pc' = "done"
  BY <1>1, <1>2, GoesOn DEF PCs
<1>6. Promised(server)' = Promised(server)
  BY <1>1, <1>5, WholeStays
<1>7. ToSet(samples)' = Promised(server)
  BY <1>2, <1>3, <1>4, PartsAre DEF Grows
<1>8. CollectedEarly' /\ CollectedLate'
  BY <1>5, <1>6, <1>7 DEF CollectedEarly, CollectedLate
<1> QED
  BY <1>4, <1>5, <1>8 DEF IInv, Grows

(* Nothing happens.                                                         *)
LEMMA StutterStep ==
  ASSUME IInv, UNCHANGED vars
  PROVE  IInv'
<1>1. /\ UNCHANGED <<server, pc, scrapes, settings, dbCount, at, reader, exporterVars>>
      /\ UNCHANGED <<fieldClass, masterHost, masterPort, keyValues, handledDBs, cmdTotals, cmdLatencies>>
      /\ UNCHANGED <<appendRole, instanceRole, descriptions, samples, lost>>
  BY DEF vars, exporterVars, reader
<1>2. Grows({}) /\ samples' = samples
  BY <1>1, UnchangedGrows DEF IInv
<1>3. Types'
  BY <1>1 DEF IInv, Types, Keys, RoleTold, InitReader
<1>4. /\ BeforeInfo(server)' = BeforeInfo(server)
      /\ AfterInfo(server)' = AfterInfo(server)
      /\ AfterLogs(server)' = AfterLogs(server)
      /\ AfterSentinel(server)' = AfterSentinel(server)
      /\ Promised(server)' = Promised(server)
  BY <1>1, WholeStays
<1>5. /\ Connected(server)' = Connected(server)
      /\ PromisedConfig(server)' = PromisedConfig(server)
      /\ PromisedLatency(server)' = PromisedLatency(server)
      /\ PromisedSlowLog(server)' = PromisedSlowLog(server)
      /\ PromisedClients(server)' = PromisedClients(server)
      /\ PromisedModules(server)' = PromisedModules(server)
  BY <1>1, PromisesStay
<1>6. /\ \A keys : ConfigTells(server, keys)' = ConfigTells(server, keys)
      /\ \A i : LineTells(server, i)' = LineTells(server, i)
      /\ \A m : PromisedMaster(server, m)' = PromisedMaster(server, m)
      /\ \A c : ListedPart(server, c)' = ListedPart(server, c)
  BY <1>1, PartsStay
<1>7. ConfigTells(server, Keys(server) \ settings)' = ConfigTells(server, Keys(server) \ settings)
  <2>1. ConfigTells(server, Keys(server) \ settings)'
          = UNION {ConfigPart(server, k, server.config[k])' : k \in Keys(server) \ settings}
    BY <1>1 DEF ConfigTells, Keys
  <2> QED
    BY <1>1 DEF ConfigTells, Keys, ConfigPart, ShownPart, LimitPart, Plain, Told, WithRole
<1>8. /\ WatchedTells(server, at - 1)' = WatchedTells(server, at - 1)
      /\ ListedTells(server, at - 1)' = ListedTells(server, at - 1)
      /\ UNION {LineTells(server, i)' : i \in 1 .. at' - 1} = UNION {LineTells(server, i) : i \in 1 .. at - 1}
  <2>1. WatchedTells(server, at - 1)'
          = IF server.mastersReply = Denied THEN {}
            ELSE UNION {PromisedMaster(server, server.watched[i])' : i \in 1 .. at - 1}
    BY <1>1 DEF WatchedTells
  <2>2. ListedTells(server, at - 1)' = UNION {ListedPart(server, Listed(server)[i])' : i \in 1 .. at - 1}
    BY <1>1 DEF ListedTells
  <2>3. WatchedTells(server, at - 1)' = WatchedTells(server, at - 1)
    <3>1. UNION {PromisedMaster(server, server.watched[i])' : i \in 1 .. at - 1}
            = UNION {PromisedMaster(server, server.watched[i]) : i \in 1 .. at - 1}
      BY <1>1, <1>6
    <3> QED
      BY <2>1, <3>1 DEF WatchedTells
  <2>4. ListedTells(server, at - 1)' = ListedTells(server, at - 1)
    BY <1>1, <1>6, <2>2 DEF ListedTells
  <2> QED
    BY <1>1, <1>6, <2>3, <2>4
<1>9. Reading' = Reading
  BY <1>1 DEF Reading, FieldRead, MasterRead, CommandRead, Past
<1>10. ToSet(samples)' = ToSet(samples)
  BY <1>2
<1>11. CollectedEarly /\ CollectedLate
  BY DEF IInv
<1>12. CollectedEarly'
  BY <1>1, <1>4, <1>5, <1>7, <1>8, <1>9, <1>10, <1>11 DEF CollectedEarly, Keys, Configured,
       Databases
<1>13. CollectedLate'
  BY <1>1, <1>4, <1>5, <1>8, <1>10, <1>11 DEF CollectedLate, IsSentinel
<1> QED
  BY <1>2, <1>3, <1>12, <1>13 DEF IInv, Grows

(* The table of NewRedisExporter.                                           *)
LEMMA TableFits == Described \in Fitting
<1>1. DOMAIN Described \subseteq Static \cup Dynamic
  BY DEF Static
<1>2. \A m \in DOMAIN Described : Described[m] = WithRole(m, LabelsOf(m), "instance_role")
  BY DEF Described
<1>3. \A m \in DOMAIN Described : LabelsIn(m) = LabelsOf(m)
  <2>1. /\ "connected_client_created_at_timestamp" \notin DOMAIN Described
        /\ "connected_client_shard_channel_subscriptions_count" \notin DOMAIN Described
    <3> USE NamesAre DEF ByMaster, BySlave, ByDb, ByCommand, ByEngine, BySetting, ByNumber, ByLimit,
                         ByWatched, ByClient, BySpike, Unlabelled, Single
    <3> QED
      OBVIOUS
  <2> QED
    BY <2>1 DEF LabelsIn
<1>4. \A m \in DOMAIN Described : Described[m] = DescriptionOf(m)
  BY <1>2, <1>3 DEF DescriptionOf
<1>5. \A m \in DOMAIN Described : Described[m] \in AnyLabels
  BY <1>4 DEF AnyLabels, Static
<1>6. Described \in [DOMAIN Described -> AnyLabels]
  <2>1. Described = [m \in DOMAIN Described |-> Described[m]]
    BY DEF Described
  <2> HIDE DEF Described
  <2> QED
    BY <1>5, <2>1
<1> QED
  BY <1>1, <1>4, <1>6 DEF Fitting

(* The invariant holds at the start.                                        *)
LEMMA InitInv ==
  ASSUME Init
  PROVE  IInv
<1>1. Types
  <2>1. /\ appendRole \in BOOLEAN /\ server \in Servers /\ pc = "idle" /\ scrapes = 0
        /\ settings = {} /\ dbCount = 0 /\ at = 1 /\ InitReader
    BY DEF Init
  <2>2. scrapes \in 0 .. MaxScrapes /\ dbCount \in Nat /\ at \in Nat \ {0}
    BY <2>1, InfoMetricsAssumption
  <2> QED
    BY <2>1, <2>2 DEF Types, PCs
<1>2. CollectedEarly /\ CollectedLate
  BY DEF Init, CollectedEarly, CollectedLate
<1>3. Fit(exporter)
  <2>1. samples \in Seq(ToSet(samples)) /\ lost = {} /\ Sampled(ToSet(samples))
    BY TuplesAre, ToSetEmpty DEF Init, Sampled
  <2>2. descriptions \in Fitting
    BY TableFits DEF Init
  <2> QED
    BY <2>1, <2>2 DEF Fit, exporter
<1> QED
  BY <1>1, <1>2, <1>3 DEF IInv

(* What some lines of INFO tell, those of the masters' links apart.         *)
LinesTell(s, L) == UNION {LinePart(s, l) : l \in L}

(* Some lines and some more, ...                                            *)
LEMMA LinesTellBoth ==
  ASSUME NEW s, NEW A, NEW B
  PROVE  LinesTell(s, A \cup B) = LinesTell(s, A) \cup LinesTell(s, B)
BY DEF LinesTell

(* ... and a few.                                                           *)
LEMMA LinesTellAll ==
  ASSUME NEW s
  PROVE  /\ LinesTell(s, {}) = {}
         /\ \A k : LinesTell(s, {k}) = LinePart(s, k)
         /\ \A k, l : LinesTell(s, {k, l}) = LinePart(s, k) \cup LinePart(s, l)
         /\ \A k, l, m : LinesTell(s, {k, l, m}) = LinePart(s, k) \cup LinePart(s, l) \cup LinePart(s, m)
<1>1. LinesTell(s, {}) = {}
  BY DEF LinesTell
<1>2. ASSUME NEW a PROVE LinesTell(s, {a}) = LinePart(s, a)
  BY DEF LinesTell
<1>3. ASSUME NEW a, NEW b PROVE LinesTell(s, {a, b}) = LinePart(s, a) \cup LinePart(s, b)
  <2>1. {a, b} = {a} \cup {b}
    OBVIOUS
  <2>2. LinesTell(s, {a} \cup {b}) = LinesTell(s, {a}) \cup LinesTell(s, {b})
    BY LinesTellBoth
  <2> QED
    BY <1>2, <2>1, <2>2
<1>4. ASSUME NEW a, NEW b, NEW c
      PROVE  LinesTell(s, {a, b, c}) = LinePart(s, a) \cup LinePart(s, b) \cup LinePart(s, c)
  <2>1. {a, b, c} = {a} \cup {b, c}
    OBVIOUS
  <2>2. LinesTell(s, {a} \cup {b, c}) = LinesTell(s, {a}) \cup LinesTell(s, {b, c})
    BY LinesTellBoth
  <2> QED
    BY <1>2, <1>3, <2>1, <2>2
<1> QED
  BY <1>1, <1>2, <1>3, <1>4

(* A header and a field that is only remembered tell nothing, ...           *)
LEMMA SilentLines ==
  ASSUME NEW s
  PROVE  /\ \A c : LinePart(s, Section(c)) = {}
         /\ \A k \in {"server_mode", "valkey_version", "availability_zone", "redis_mode", "role",
                      "master_host", "master_port", "slave_read_only", "latency_percentiles_usec"}
                     \cup MasterKeys :
              \A n, v : LinePart(s, Numbered(k, n, v)) = {}
         /\ \A v : /\ LinePart(s, Field("cluster_state", v)) = {}
                   /\ LinePart(s, Field("cluster_known_nodes", v)) = {}
<1>1. ASSUME NEW c PROVE LinePart(s, Section(c)) = {}
  BY DEF LinePart, FieldPart, FieldKeys, Section, MasterKeys
<1>2. ASSUME NEW k \in {"server_mode", "valkey_version", "availability_zone", "redis_mode", "role",
                        "master_host", "master_port", "slave_read_only", "latency_percentiles_usec"},
             NEW n, NEW v
      PROVE  LinePart(s, Numbered(k, n, v)) = {}
  BY DEF LinePart, FieldPart, FieldKeys, Numbered, MasterKeys
<1>3. ASSUME NEW k \in MasterKeys, NEW n, NEW v
      PROVE  LinePart(s, Numbered(k, n, v)) = {}
  BY DEF LinePart, Numbered, MasterKeys
<1>4. ASSUME NEW v
      PROVE  /\ LinePart(s, Field("cluster_state", v)) = {}
             /\ LinePart(s, Field("cluster_known_nodes", v)) = {}
  BY DEF LinePart, Numbered, Field, MasterKeys
<1> QED
  BY <1>1, <1>2, <1>3, <1>4

(* ... the other ones tell what is promised of them.                        *)
LEMMA ToldLines ==
  ASSUME NEW s
  PROVE  /\ \A v \in DOMAIN Number : LinePart(s, Field("uptime_in_seconds", v)) =
              {Plain(s, "uptime_in_seconds", Number[v]), Plain(s, "start_time_seconds", Now - Number[v])}
         /\ LinePart(s, Field("connected_slaves", "2")) = {Plain(s, "connected_slaves", 2)}
         /\ \A v : LinePart(s, Field("tls_server_cert_serial", v)) =
              {Told(s, "tls_certificate_info", <<"certificate", "serial">>, <<"server", v>>, 1)}
         /\ LinePart(s, Field("tls_server_cert_expires_in_seconds", "3")) =
              {Plain(s, "tls_server_cert_expires_in_seconds", 3)}
         /\ LinePart(s, Field("engines_count", "1")) = {Plain(s, "scripting_engines_count", 1)}
         /\ LinePart(s, Field("cluster_enabled", "0")) = {Plain(s, "cluster_enabled", 0)}
         /\ LinePart(s, Field("cluster_enabled", "1")) = {Plain(s, "cluster_enabled", 1)}
         /\ LinePart(s, Field("sentinel_masters", "2")) = {Plain(s, "sentinel_masters", 2)}
<1>1. Number["0"] = 0 /\ Number["1"] = 1 /\ Number["2"] = 2 /\ Number["3"] = 3
      /\ {"0", "1", "2", "3"} \subseteq DOMAIN Number
  BY DEF Number
<1>2. \A v \in DOMAIN Number : v # "ok" /\ v # "fail"
  BY DEF Number
<1>3. \A v \in DOMAIN Number : \A k \in FieldKeys :
        FieldPart(s, Field(k, v)) = {Plain(s, MetricOf(k), Number[v])}
  BY <1>2 DEF FieldPart, IsNumber, Field, Numbered
<1>4. ASSUME NEW v \in DOMAIN Number
      PROVE  LinePart(s, Field("uptime_in_seconds", v)) =
               {Plain(s, "uptime_in_seconds", Number[v]), Plain(s, "start_time_seconds", Now - Number[v])}
  <2>1. LinePart(s, Field("uptime_in_seconds", v)) =
          FieldPart(s, Field("uptime_in_seconds", v)) \cup {Plain(s, "start_time_seconds", Now - Number[v])}
    BY DEF LinePart, Field, Numbered, MasterKeys, IsNumber
  <2>2. "uptime_in_seconds" \in FieldKeys /\ MetricOf("uptime_in_seconds") = "uptime_in_seconds"
    BY DEF FieldKeys, MetricOf
  <2> QED
    BY <1>3, <2>1, <2>2
<1>5. \A k \in {"connected_slaves", "tls_server_cert_expires_in_seconds", "engines_count", "cluster_enabled"} :
        \A v : LinePart(s, Field(k, v)) = FieldPart(s, Field(k, v))
  BY DEF LinePart, Field, Numbered, MasterKeys
<1>6. /\ MetricOf("connected_slaves") = "connected_slaves"
      /\ MetricOf("tls_server_cert_expires_in_seconds") = "tls_server_cert_expires_in_seconds"
      /\ MetricOf("engines_count") = "scripting_engines_count"
      /\ MetricOf("cluster_enabled") = "cluster_enabled"
      /\ {"connected_slaves", "tls_server_cert_expires_in_seconds", "engines_count", "cluster_enabled"}
           \subseteq FieldKeys
  BY DEF FieldKeys, MetricOf
<1>7. ASSUME NEW v
      PROVE  LinePart(s, Field("tls_server_cert_serial", v)) =
               {Told(s, "tls_certificate_info", <<"certificate", "serial">>, <<"server", v>>, 1)}
  BY DEF LinePart, Field, Numbered, MasterKeys
<1>8. LinePart(s, Field("sentinel_masters", "2")) = {Plain(s, "sentinel_masters", 2)}
  BY <1>1 DEF LinePart, Field, Numbered, MasterKeys, IsNumber
<1> QED
  BY <1>1, <1>3, <1>4, <1>5, <1>6, <1>7, <1>8

(* ... and these what the parts are made of.                                *)
LEMMA ListLines ==
  ASSUME NEW s
  PROVE  /\ \A n, v : LinePart(s, Numbered("slave", n, v)) = SlavePart(s, v)
         /\ \A v : LinePart(s, Field("cmdstat", v)) = CommandPart(s, v)
         /\ LinePart(s, Field("errorstat", [err |-> "ERR", count |-> 3])) =
              {Told(s, "errors_total", <<"err">>, <<"ERR">>, 3)}
         /\ \A v : LinePart(s, Numbered("engine_", 0, v)) = EnginePart(s, v)
         /\ \A n, v : LinePart(s, Numbered("db", n, v)) = DbPart(s, n, v)
         /\ \A n, v : LinePart(s, Numbered("master", n, v)) = WatchedPart(s, v)
BY DEF LinePart, Field, Numbered, MasterKeys

(* Lines that tell nothing.                                                 *)
LEMMA SilentTell ==
  ASSUME NEW s, NEW L, \A l \in L : LinePart(s, l) = {}
  PROVE  LinesTell(s, L) = {}
BY DEF LinesTell

(* What the sections tell.                                                  *)
LEMMA ServerTells ==
  ASSUME NEW s \in Servers
  PROVE  LinesTell(s, ToSet(ServerLines(s))) =
           {Plain(s, "uptime_in_seconds", Number[s.uptime]),
            Plain(s, "start_time_seconds", Now - Number[s.uptime])}
<1> DEFINE h == Section("Server")
           u == Field("uptime_in_seconds", s.uptime)
           a == Field("server_mode", s.mode)
           b == Field("valkey_version", "9.1")
           c == Field("availability_zone", s.zone)
           d == Field("redis_mode", s.mode)
<1>1. ToSet(ServerLines(s)) = {h, u} \cup IF IsValkey(s) THEN {a, b, c} ELSE {d}
  BY ServerLinesAre
<1>2. LinePart(s, h) = {} /\ LinePart(s, a) = {} /\ LinePart(s, b) = {} /\ LinePart(s, c) = {}
      /\ LinePart(s, d) = {}
  BY SilentLines DEF Field
<1>3. s.uptime \in DOMAIN Number
  BY TypesOf DEF ServerTypes
<1>4. LinePart(s, u) = {Plain(s, "uptime_in_seconds", Number[s.uptime]),
                        Plain(s, "start_time_seconds", Now - Number[s.uptime])}
  BY <1>3, ToldLines
<1> HIDE DEF h, u, a, b, c, d
<1>5. LinesTell(s, {h, u}) = LinePart(s, u) /\ LinesTell(s, {a, b, c}) = {} /\ LinesTell(s, {d}) = {}
  <2>1. LinesTell(s, {h, u}) = LinePart(s, h) \cup LinePart(s, u)
    BY LinesTellAll
  <2>2. LinesTell(s, {a, b, c}) = {}
    BY <1>2, SilentTell
  <2>3. LinesTell(s, {d}) = LinePart(s, d)
    BY LinesTellAll
  <2> QED
    BY <1>2, <2>1, <2>2, <2>3
<1>6. LinesTell(s, {h, u} \cup {a, b, c}) = LinePart(s, u)
  <2>1. LinesTell(s, {h, u} \cup {a, b, c}) = LinesTell(s, {h, u}) \cup LinesTell(s, {a, b, c})
    BY LinesTellBoth
  <2> QED
    BY <1>5, <2>1
<1>7. LinesTell(s, {h, u} \cup {d}) = LinePart(s, u)
  <2>1. LinesTell(s, {h, u} \cup {d}) = LinesTell(s, {h, u}) \cup LinesTell(s, {d})
    BY LinesTellBoth
  <2> QED
    BY <1>5, <2>1
<1> QED
  BY <1>1, <1>4, <1>6, <1>7

(* What Valkey tells of itself, ...                                         *)
LEMMA ValkeyTells ==
  ASSUME NEW s
  PROVE  LinesTell(s, ToSet(ValkeyLines(s))) =
           IF ~ IsValkey(s) THEN {} ELSE
           {Told(s, "tls_certificate_info", <<"certificate", "serial">>, <<"server", "a1">>, 1),
            Plain(s, "tls_server_cert_expires_in_seconds", 3), Plain(s, "scripting_engines_count", 1),
            Told(s, "scripting_engine_info", <<"engine", "module", "abi_version">>, <<"LUA", "lua", "4">>, 1),
            Told(s, "scripting_engine_memory_used_bytes", <<"engine", "module", "abi_version">>,
                 <<"LUA", "lua", "4">>, 2)}
<1> DEFINE e == [name |-> "LUA", module |-> "lua", abi |-> "4", memory |-> 2]
           h == Section("TLS")
           a == Field("tls_server_cert_serial", "a1")
           b == Field("tls_server_cert_expires_in_seconds", "3")
           i == Section("Scripting Engines")
           c == Field("engines_count", "1")
           d == Numbered("engine_", 0, e)
           A == Told(s, "tls_certificate_info", <<"certificate", "serial">>, <<"server", "a1">>, 1)
           B == Plain(s, "tls_server_cert_expires_in_seconds", 3)
           C == Plain(s, "scripting_engines_count", 1)
           D == Told(s, "scripting_engine_info", <<"engine", "module", "abi_version">>, <<"LUA", "lua", "4">>, 1)
           E == Told(s, "scripting_engine_memory_used_bytes", <<"engine", "module", "abi_version">>,
                     <<"LUA", "lua", "4">>, 2)
<1>1. ToSet(ValkeyLines(s)) = IF IsValkey(s) THEN {h, a, b, i, c, d} ELSE {}
  BY ValkeyLinesAre
<1>2. LinePart(s, h) = {} /\ LinePart(s, i) = {}
  BY SilentLines
<1>3. LinePart(s, a) = {A} /\ LinePart(s, b) = {B} /\ LinePart(s, c) = {C}
  BY ToldLines
<1>4. LinePart(s, d) = {D, E}
  <2>1. LinePart(s, d) = EnginePart(s, e)
    BY ListLines
  <2> QED
    BY <2>1 DEF EnginePart
<1> HIDE DEF h, a, b, i, c, d, A, B, C, D, E
<1>5. {h, a, b, i, c, d} = {h, a, b} \cup {i, c, d}
  OBVIOUS
<1>6. LinesTell(s, {h, a, b} \cup {i, c, d}) = LinesTell(s, {h, a, b}) \cup LinesTell(s, {i, c, d})
  BY LinesTellBoth
<1>7. LinesTell(s, {h, a, b}) = {A, B}
  BY <1>2, <1>3, LinesTellAll
<1>8. LinesTell(s, {i, c, d}) = {C, D, E}
  BY <1>2, <1>3, <1>4, LinesTellAll
<1>9. IsValkey(s) => LinesTell(s, ToSet(ValkeyLines(s))) = {A, B, C, D, E}
  BY <1>1, <1>5, <1>6, <1>7, <1>8
<1>10. ~ IsValkey(s) => LinesTell(s, ToSet(ValkeyLines(s))) = {}
  BY <1>1, LinesTellAll
<1> QED
  BY <1>9, <1>10 DEF A, B, C, D, E

(* ... and of its cluster.                                                  *)
LEMMA ClusterTells ==
  ASSUME NEW s
  PROVE  LinesTell(s, ToSet(ClusterLines(s))) =
           {Plain(s, "cluster_enabled", IF s.cluster = "off" THEN 0 ELSE 1)}
<1> DEFINE h == Section("Cluster")
           e == Field("cluster_enabled", IF s.cluster = "off" THEN "0" ELSE "1")
           i == Section("Cluster Info")
           a == Field("cluster_state", "ok")
           b == Field("cluster_known_nodes", "3")
<1>1. ToSet(ClusterLines(s)) = {h, e} \cup IF IsValkey(s) /\ s.cluster # "off" THEN {i, a, b} ELSE {}
  BY ClusterLinesAre
<1>2. LinePart(s, h) = {} /\ LinePart(s, i) = {} /\ LinePart(s, a) = {} /\ LinePart(s, b) = {}
  BY SilentLines
<1>3. LinePart(s, e) = {Plain(s, "cluster_enabled", IF s.cluster = "off" THEN 0 ELSE 1)}
  BY ToldLines
<1> HIDE DEF h, e, i, a, b
<1>4. LinesTell(s, {h, e}) = LinePart(s, e) /\ LinesTell(s, {i, a, b}) = {} /\ LinesTell(s, {}) = {}
  <2>1. LinesTell(s, {h, e}) = LinePart(s, h) \cup LinePart(s, e)
    BY LinesTellAll
  <2>2. LinesTell(s, {i, a, b}) = {}
    BY <1>2, SilentTell
  <2>3. LinesTell(s, {}) = {}
    BY LinesTellAll
  <2> QED
    BY <1>2, <2>1, <2>2, <2>3
<1>5. LinesTell(s, {h, e} \cup {i, a, b}) = LinePart(s, e)
  <2>1. LinesTell(s, {h, e} \cup {i, a, b}) = LinesTell(s, {h, e}) \cup LinesTell(s, {i, a, b})
    BY LinesTellBoth
  <2> QED
    BY <1>4, <2>1
<1>6. {h, e} \cup {} = {h, e}
  OBVIOUS
<1> QED
  BY <1>1, <1>3, <1>4, <1>5, <1>6

(* The lines of a list.                                                     *)
LEMMA KeyspaceTells ==
  ASSUME NEW s \in Servers
  PROVE  LinesTell(s, ToSet(KeyspaceLines(s))) = UNION {DbPart(s, d.db, d) : d \in ToSet(s.keyspace)}
<1> DEFINE h == Section("Keyspace")
           K == {Numbered("db", s.keyspace[i].db, s.keyspace[i]) : i \in DOMAIN s.keyspace}
<1>1. PICK S : s.keyspace \in Seq(S)
  BY TypesOf DEF IsList
<1>2. ToSet(KeyspaceLines(s)) = {h} \cup K
  BY <1>1, KeyspaceLinesAre
<1>3. LinePart(s, h) = {}
  BY SilentLines
<1>4. \A d : LinePart(s, Numbered("db", d.db, d)) = DbPart(s, d.db, d)
  BY ListLines
<1>5. LinesTell(s, K) = UNION {DbPart(s, s.keyspace[i].db, s.keyspace[i]) : i \in DOMAIN s.keyspace}
  <2>1. LinesTell(s, K) = UNION {LinePart(s, Numbered("db", s.keyspace[i].db, s.keyspace[i])) :
                                   i \in DOMAIN s.keyspace}
    BY DEF LinesTell
  <2> QED
    BY <1>4, <2>1
<1>6. UNION {DbPart(s, s.keyspace[i].db, s.keyspace[i]) : i \in DOMAIN s.keyspace}
        = UNION {DbPart(s, d.db, d) : d \in ToSet(s.keyspace)}
  BY DEF ToSet
<1> HIDE DEF h, K
<1>7. LinesTell(s, {h} \cup K) = LinesTell(s, {h}) \cup LinesTell(s, K)
  BY LinesTellBoth
<1>8. LinesTell(s, {h}) = {}
  BY <1>3, LinesTellAll
<1> QED
  BY <1>2, <1>5, <1>6, <1>7, <1>8

(* The masters of a Sentinel.                                               *)
LEMMA SentinelTells ==
  ASSUME NEW s \in Servers
  PROVE  LinesTell(s, ToSet(SentinelLines(s))) =
           {Plain(s, "sentinel_masters", 2)} \cup UNION {WatchedPart(s, m) : m \in ToSet(s.watched)}
<1> DEFINE h == Section("Sentinel")
           f == Field("sentinel_masters", "2")
           K == {Numbered("master", i - 1, s.watched[i]) : i \in DOMAIN s.watched}
<1>1. PICK S : s.watched \in Seq(S)
  BY TypesOf DEF IsList
<1>2. ToSet(SentinelLines(s)) = {h, f} \cup K
  BY <1>1, SentinelLinesAre
<1>3. LinePart(s, h) = {} /\ LinePart(s, f) = {Plain(s, "sentinel_masters", 2)}
  BY SilentLines, ToldLines
<1>4. \A n, m : LinePart(s, Numbered("master", n, m)) = WatchedPart(s, m)
  BY ListLines
<1>5. LinesTell(s, K) = UNION {WatchedPart(s, s.watched[i]) : i \in DOMAIN s.watched}
  <2>1. LinesTell(s, K) = UNION {LinePart(s, Numbered("master", i - 1, s.watched[i])) : i \in DOMAIN s.watched}
    BY DEF LinesTell
  <2> QED
    BY <1>4, <2>1
<1>6. UNION {WatchedPart(s, s.watched[i]) : i \in DOMAIN s.watched}
        = UNION {WatchedPart(s, m) : m \in ToSet(s.watched)}
  BY DEF ToSet
<1> HIDE DEF h, f, K
<1>7. LinesTell(s, {h, f} \cup K) = LinesTell(s, {h, f}) \cup LinesTell(s, K)
  BY LinesTellBoth
<1>8. LinesTell(s, {h, f}) = LinePart(s, f)
  BY <1>3, LinesTellAll
<1> QED
  BY <1>2, <1>3, <1>5, <1>6, <1>7, <1>8

(* Commands, errors and latencies.                                          *)
LEMMA CommandsTell ==
  ASSUME NEW s \in Servers
  PROVE  LinesTell(s, ToSet(CommandLines(s))) =
           {Told(s, "errors_total", <<"err">>, <<"ERR">>, 3)}
           \cup UNION {CommandPart(s, c) : c \in ToSet(s.commands)}
<1> DEFINE H == {Section("Commandstats"), Section("Errorstats"), Section("Latencystats")}
           e == Field("errorstat", [err |-> "ERR", count |-> 3])
           J == {Section("Commandstats"), Section("Errorstats"), Section("Latencystats"), e}
           K == {Field("cmdstat", s.commands[i]) : i \in DOMAIN s.commands}
           M == {Field("latency_percentiles_usec", s.latencies[i]) : i \in DOMAIN s.latencies}
<1>3. ToSet(CommandLines(s)) = J \cup K \cup M
  <2>1. \E S, T : s.commands \in Seq(S) /\ s.latencies \in Seq(T)
    BY TypesOf DEF IsList
  <2> QED
    BY <2>1, CommandLinesAre
<1>4. LinePart(s, e) = {Told(s, "errors_total", <<"err">>, <<"ERR">>, 3)}
  BY ListLines
<1>5. J = H \cup {e}
  OBVIOUS
<1>6. LinesTell(s, H) = {}
  BY SilentLines, SilentTell
<1>7. LinesTell(s, M) = {}
  <2>1. \A v : LinePart(s, Field("latency_percentiles_usec", v)) = {}
    BY SilentLines DEF Field
  <2> QED
    BY <2>1, SilentTell
<1>8. LinesTell(s, K) = UNION {CommandPart(s, s.commands[i]) : i \in DOMAIN s.commands}
  <2>1. LinesTell(s, K) = UNION {LinePart(s, Field("cmdstat", s.commands[i])) : i \in DOMAIN s.commands}
    BY DEF LinesTell
  <2>2. \A v : LinePart(s, Field("cmdstat", v)) = CommandPart(s, v)
    BY ListLines
  <2> QED
    BY <2>1, <2>2
<1>9. UNION {CommandPart(s, s.commands[i]) : i \in DOMAIN s.commands}
        = UNION {CommandPart(s, c) : c \in ToSet(s.commands)}
  BY DEF ToSet
<1> HIDE DEF H, e, J, K, M
<1>10. LinesTell(s, H \cup {e}) = LinesTell(s, H) \cup LinesTell(s, {e})
  BY LinesTellBoth
<1>11. LinesTell(s, {e}) = LinePart(s, e)
  BY LinesTellAll
<1>12. LinesTell(s, J \cup K) = LinesTell(s, J) \cup LinesTell(s, K)
  BY LinesTellBoth
<1> DEFINE A == J \cup K
<1> HIDE DEF A
<1>13. LinesTell(s, A \cup M) = LinesTell(s, A) \cup LinesTell(s, M)
  BY LinesTellBoth
<1>14. LinesTell(s, A) = LinePart(s, e) \cup LinesTell(s, K)
  BY <1>5, <1>6, <1>10, <1>11, <1>12 DEF A
<1>15. LinesTell(s, ToSet(CommandLines(s))) = LinesTell(s, A \cup M)
  BY <1>3 DEF A
<1> DEFINE U == UNION {CommandPart(s, c) : c \in ToSet(s.commands)}
<1>16. LinesTell(s, K) = U
  BY <1>8, <1>9
<1> HIDE DEF U
<1>17. LinesTell(s, A \cup M) = LinePart(s, e) \cup U
  BY <1>7, <1>13, <1>14, <1>16
<1> QED
  BY <1>4, <1>15, <1>17 DEF U

(* Replication, the links to masters apart.                                 *)
LEMMA ReplicationTells ==
  ASSUME NEW s \in Servers
  PROVE  LinesTell(s, ToSet(ReplicationLines(s))) =
           {Plain(s, "connected_slaves", 2)} \cup UNION {SlavePart(s, r) : r \in ToSet(s.slaves)}
<1> DEFINE H == {Section("Replication"), Field("role", s.role)}
           M == ToSet(MasterLines(s))
           R == IF s.masters = <<>> THEN {} ELSE {Field("slave_read_only", "1")}
           c == Field("connected_slaves", "2")
           K == {Numbered("slave", i - 1, s.slaves[i]) : i \in DOMAIN s.slaves}
<1>1. PICK S : s.masters \in Seq(S)
  BY TypesOf DEF IsList
<1>2. PICK T : s.slaves \in Seq(T)
  BY TypesOf DEF IsList
<1>3. ToSet(ReplicationLines(s)) = H \cup M \cup R \cup {c} \cup K
  BY <1>1, <1>2, ReplicationLinesAre
<1>4. LinePart(s, c) = {Plain(s, "connected_slaves", 2)}
  BY ToldLines
<1>5. LinesTell(s, H) = {} /\ LinesTell(s, R) = {}
  <2>1. LinePart(s, Section("Replication")) = {} /\ LinePart(s, Field("role", s.role)) = {}
        /\ LinePart(s, Field("slave_read_only", "1")) = {}
    BY SilentLines DEF Field
  <2> QED
    BY <2>1, SilentTell
<1>6. LinesTell(s, M) = {}
  <2>1. \A l : l.key \in MasterKeys \cup {"master_host", "master_port"} => LinePart(s, l) = {}
    BY DEF LinePart, FieldPart, FieldKeys, MasterKeys
  <2>2. \A l \in M : l.key \in MasterKeys \cup {"master_host", "master_port"}
    BY <1>1, MasterKeysAre
  <2> QED
    BY <2>1, <2>2, SilentTell
<1>7. LinesTell(s, K) = UNION {SlavePart(s, s.slaves[i]) : i \in DOMAIN s.slaves}
  <2>1. LinesTell(s, K) = UNION {LinePart(s, Numbered("slave", i - 1, s.slaves[i])) : i \in DOMAIN s.slaves}
    BY DEF LinesTell
  <2>2. \A n, v : LinePart(s, Numbered("slave", n, v)) = SlavePart(s, v)
    BY ListLines
  <2> QED
    BY <2>1, <2>2
<1>8. UNION {SlavePart(s, s.slaves[i]) : i \in DOMAIN s.slaves} = UNION {SlavePart(s, r) : r \in ToSet(s.slaves)}
  BY DEF ToSet
<1> HIDE DEF H, M, R, c, K
<1> DEFINE A == H \cup M
           B == A \cup R
           C == B \cup {c}
<1>9. LinesTell(s, A) = LinesTell(s, H) \cup LinesTell(s, M)
  BY LinesTellBoth
<1> HIDE DEF A
<1>10. LinesTell(s, B) = LinesTell(s, A) \cup LinesTell(s, R)
  BY LinesTellBoth
<1> HIDE DEF B
<1>11. LinesTell(s, C) = LinesTell(s, B) \cup LinesTell(s, {c})
  BY LinesTellBoth
<1>12. LinesTell(s, {c}) = LinePart(s, c)
  BY LinesTellAll
<1> HIDE DEF C
<1>13. LinesTell(s, C \cup K) = LinesTell(s, C) \cup LinesTell(s, K)
  BY LinesTellBoth
<1>14. LinesTell(s, C) = {Plain(s, "connected_slaves", 2)}
  BY <1>4, <1>5, <1>6, <1>9, <1>10, <1>11, <1>12
<1>15. ToSet(ReplicationLines(s)) = C \cup K
  BY <1>3 DEF A, B, C
<1> QED
  BY <1>7, <1>8, <1>13, <1>14, <1>15

(* What a link to a master tells.                                           *)
OfMaster(s, metric, m, v) == Told(s, metric, <<"master_host", "master_port">>, <<m.host, m.port>>, v)

LinkTells(s, i) ==
  IF Lines[s][i].key \in MasterKeys
  THEN MasterPart(s, Lines[s][i].key, Lines[s][i].value, MasterAt(s, i).host, MasterAt(s, i).port)
  ELSE {}

(* The five lines of a link tell of that master, ...                        *)
LEMMA LinkLine ==
  ASSUME NEW s \in Servers, NEW k \in 1 .. 5 * Len(s.masters)
  PROVE  LET n == Ahead(s)
             m == s.masters[(k - 1) \div 5 + 1]
             r == (k - 1) % 5
         IN /\ r = 2 => LinkTells(s, n + k) = {OfMaster(s, "master_link_up", m, IF m.link = "up" THEN 1 ELSE 0)}
            /\ r = 3 => LinkTells(s, n + k) = {OfMaster(s, "master_last_io_seconds_ago", m, Number[m.io])}
            /\ r = 4 => LinkTells(s, n + k) = {OfMaster(s, "slave_repl_offset", m, Number[m.offset])}
<1> DEFINE n == Ahead(s)
           c == Len(s.masters)
           L == Lines[s]
           M == MasterLines(s)
           q == (k - 1) \div 5
           r == (k - 1) % 5
           m == s.masters[q + 1]
           i == n + k
<1>1. PICK S : s.masters \in Seq(S)
  BY TypesOf DEF IsList
<1>2. c \in Nat /\ IsList(M) /\ Len(M) = 5 * c
  BY <1>1, MasterLinesAre
<1>3. M[k] = CASE r = 0 -> Numbered("master_host", q, m.host)
               [] r = 1 -> Numbered("master_port", q, m.port)
               [] r = 2 -> Numbered("master_link_status", q, m.link)
               [] r = 3 -> Numbered("master_last_io_seconds_ago", q, m.io)
               [] r = 4 -> Field("slave_repl_offset", m.offset)
  BY <1>1, MasterLinesAre
<1>4. n \in Nat /\ L[i] = M[k]
  BY <1>2, LinesAre DEF Placed
<1>5. m.io \in DOMAIN Number /\ m.offset \in DOMAIN Number
  <2>1. q + 1 \in 1 .. c
    BY <1>2, FifthsAre
  <2>2. s.masters \in Seq([host : STRING, port : STRING, link : STRING,
                           io : DOMAIN Number, offset : DOMAIN Number])
    BY TypesOf DEF ServerTypes
  <2>3. m \in [host : STRING, port : STRING, link : STRING, io : DOMAIN Number, offset : DOMAIN Number]
    <3> HIDE DEF q
    <3> QED
      BY <2>1, <2>2, ElementOfSeq
  <2> HIDE DEF m
  <2> QED
    BY <2>3
<1>6. MasterAt(s, i) = m
  <2>1. MasterAt(s, i) = s.masters[(i - n - 1) \div 5 + 1]
    <3> HIDE DEF i
    <3> QED
      BY DEF MasterAt
  <2> HIDE DEF n
  <2>2. i - n - 1 = k - 1
    BY <1>2, <1>4
  <2> QED
    BY <2>1, <2>2
<1> HIDE DEF m, q, r, M, i
<1>7. LinkTells(s, i) = IF L[i].key \in MasterKeys THEN MasterPart(s, L[i].key, L[i].value, m.host, m.port) ELSE {}
  BY <1>6 DEF LinkTells
<1>8. ASSUME r = 2
      PROVE  LinkTells(s, i) = {OfMaster(s, "master_link_up", m, IF m.link = "up" THEN 1 ELSE 0)}
  <2>1. L[i].key = "master_link_status" /\ L[i].value = m.link
    BY <1>3, <1>4, <1>8 DEF Numbered
  <2> QED
    BY <1>7, <2>1 DEF MasterPart, OfMaster, MasterKeys
<1>9. ASSUME r = 3
      PROVE  LinkTells(s, i) = {OfMaster(s, "master_last_io_seconds_ago", m, Number[m.io])}
  <2>1. L[i].key = "master_last_io_seconds_ago" /\ L[i].value = m.io
    BY <1>3, <1>4, <1>9 DEF Numbered
  <2> QED
    BY <1>5, <1>7, <2>1 DEF MasterPart, OfMaster, MasterKeys, IsNumber
<1>10. ASSUME r = 4
       PROVE  LinkTells(s, i) = {OfMaster(s, "slave_repl_offset", m, Number[m.offset])}
  <2>1. L[i].key = "slave_repl_offset" /\ L[i].value = m.offset
    BY <1>3, <1>4, <1>10 DEF Numbered, Field
  <2> QED
    BY <1>5, <1>7, <2>1 DEF MasterPart, OfMaster, MasterKeys, IsNumber
<1> QED
  BY <1>8, <1>9, <1>10 DEF i, m, q, r

(* (every link has its five lines)                                          *)
LEMMA ThirdLine ==
  ASSUME NEW n \in Nat, NEW j \in 1 .. n, NEW r \in {0, 1, 2, 3, 4}
  PROVE  LET k == 5 * (j - 1) + r + 1
         IN k \in 1 .. 5 * n /\ (k - 1) % 5 = r /\ (k - 1) \div 5 + 1 = j
OBVIOUS

(* The links of all masters.                                                *)
LinkUp(s, m) == OfMaster(s, "master_link_up", m, IF m.link = "up" THEN 1 ELSE 0)
LinkIo(s, m) == OfMaster(s, "master_last_io_seconds_ago", m, Number[m.io])
LinkOffset(s, m) == OfMaster(s, "slave_repl_offset", m, Number[m.offset])

(* ... and all links together of all masters.                               *)
LEMMA LinksAre ==
  ASSUME NEW s \in Servers
  PROVE  UNION {LinkTells(s, i) : i \in 1 .. Len(Lines[s])} =
           {LinkUp(s, m) : m \in ToSet(s.masters)} \cup {LinkIo(s, m) : m \in ToSet(s.masters)}
           \cup {LinkOffset(s, m) : m \in ToSet(s.masters)}
<1> DEFINE n == Ahead(s)
           c == Len(s.masters)
           L == Lines[s]
           A == {LinkUp(s, m) : m \in ToSet(s.masters)}
           B == {LinkIo(s, m) : m \in ToSet(s.masters)}
           C == {LinkOffset(s, m) : m \in ToSet(s.masters)}
           At(k) == s.masters[(k - 1) \div 5 + 1]
           U == UNION {LinkTells(s, i) : i \in 1 .. Len(L)}
<1>1. PICK S : s.masters \in Seq(S)
  BY TypesOf DEF IsList
<1>2. c \in Nat /\ DOMAIN s.masters = 1 .. c /\ Len(MasterLines(s)) = 5 * c
  BY <1>1, MasterLinesAre, LenProperties
<1>3. n \in Nat /\ Len(L) \in Nat /\ n + 5 * c <= Len(L)
      /\ \A i \in 1 .. Len(L) : L[i].key \in MasterKeys => i \in n + 1 .. n + 5 * c
  BY <1>2, LinesAre DEF Placed
<1>4. ASSUME NEW k \in 1 .. 5 * c
      PROVE  /\ (k - 1) % 5 = 2 => LinkTells(s, n + k) = {LinkUp(s, At(k))}
             /\ (k - 1) % 5 = 3 => LinkTells(s, n + k) = {LinkIo(s, At(k))}
             /\ (k - 1) % 5 = 4 => LinkTells(s, n + k) = {LinkOffset(s, At(k))}
             /\ At(k) \in ToSet(s.masters)
             /\ n + k \in 1 .. Len(L)
             /\ (k - 1) % 5 \notin {2, 3, 4} => LinkTells(s, n + k) = {}
  <2>1. /\ (k - 1) % 5 = 2 => LinkTells(s, n + k) = {LinkUp(s, At(k))}
        /\ (k - 1) % 5 = 3 => LinkTells(s, n + k) = {LinkIo(s, At(k))}
        /\ (k - 1) % 5 = 4 => LinkTells(s, n + k) = {LinkOffset(s, At(k))}
    BY LinkLine DEF LinkUp, LinkIo, LinkOffset
  <2>2. (k - 1) \div 5 + 1 \in 1 .. c
    BY <1>2, FifthsAre
  <2>3. At(k) \in ToSet(s.masters)
    BY <1>2, <2>2 DEF ToSet
  <2>4. (k - 1) % 5 \notin {2, 3, 4} => LinkTells(s, n + k) = {}
    BY MasterPlaces DEF LinkTells
  <2>5. n + k \in 1 .. Len(L)
    BY <1>2, <1>3
  <2> QED
    BY <2>1, <2>3, <2>4, <2>5
<1> HIDE DEF n, c, At
<1>5. U \subseteq A \cup B \cup C
  <2>1. ASSUME NEW i \in 1 .. Len(L) PROVE LinkTells(s, i) \subseteq A \cup B \cup C
    <3>1. CASE L[i].key \notin MasterKeys
      BY <3>1 DEF LinkTells
    <3>2. CASE L[i].key \in MasterKeys
      <4> DEFINE k == i - n
      <4>1. i \in n + 1 .. n + 5 * c
        BY <1>3, <3>2
      <4>2. k \in 1 .. 5 * c /\ n + k = i
        BY <1>2, <1>3, <4>1
      <4> HIDE DEF k
      <4>3. LinkTells(s, i) \in {{LinkUp(s, At(k))}, {LinkIo(s, At(k))}, {LinkOffset(s, At(k))}, {}}
            /\ At(k) \in ToSet(s.masters)
        BY <1>4, <4>2
      <4> QED
        BY <4>3
    <3> QED
      BY <3>1, <3>2
  <2> QED
    BY <2>1
<1>6. ASSUME NEW m \in ToSet(s.masters)
      PROVE  LinkUp(s, m) \in U /\ LinkIo(s, m) \in U /\ LinkOffset(s, m) \in U
  <2>1. PICK j \in 1 .. c : m = s.masters[j]
    BY <1>2 DEF ToSet
  <2>2. ASSUME NEW r \in {2, 3, 4}
        PROVE  \E k \in 1 .. 5 * c : (k - 1) % 5 = r /\ At(k) = m
    <3> DEFINE k == 5 * (j - 1) + r + 1
    <3>1. k \in 1 .. 5 * c /\ (k - 1) % 5 = r /\ (k - 1) \div 5 + 1 = j
      BY <1>2, ThirdLine
    <3> HIDE DEF k
    <3> QED
      BY <2>1, <3>1 DEF At
  <2>3. \A i \in 1 .. Len(L) : LinkTells(s, i) \subseteq U
    OBVIOUS
  <2> HIDE DEF U
  <2>4. LinkUp(s, m) \in U
    <3>1. PICK k \in 1 .. 5 * c : (k - 1) % 5 = 2 /\ At(k) = m
      BY <2>2
    <3> QED
      BY <1>4, <2>3, <3>1
  <2>5. LinkIo(s, m) \in U
    <3>1. PICK k \in 1 .. 5 * c : (k - 1) % 5 = 3 /\ At(k) = m
      BY <2>2
    <3> QED
      BY <1>4, <2>3, <3>1
  <2>6. LinkOffset(s, m) \in U
    <3>1. PICK k \in 1 .. 5 * c : (k - 1) % 5 = 4 /\ At(k) = m
      BY <2>2
    <3> QED
      BY <1>4, <2>3, <3>1
  <2> QED
    BY <2>4, <2>5, <2>6
<1>7. A \cup B \cup C \subseteq U
  <2> HIDE DEF U
  <2> QED
    BY <1>6
<1> QED
  BY <1>5, <1>7

(* All lines of INFO, then.                                                 *)
LEMMA AllLinesTell ==
  ASSUME NEW s \in Servers
  PROVE  UNION {LineTells(s, i) : i \in 1 .. Len(Lines[s])} =
           LinesTell(s, LineSet(s)) \cup UNION {LinkTells(s, i) : i \in 1 .. Len(Lines[s])}
<1> DEFINE n == Len(Lines[s])
<1>1. \A i : LineTells(s, i) = LinePart(s, Lines[s][i]) \cup LinkTells(s, i)
  BY DEF LineTells, FullPart, LinkTells
<1>2. LineSet(s) = {Lines[s][i] : i \in 1 .. n}
  <2>1. LineSet(s) = ToSet(Lines[s]) /\ DOMAIN Lines[s] = 1 .. n
    BY LinesAre, ListIs
  <2> QED
    BY <2>1 DEF ToSet
<1> DEFINE T == UNION {LineTells(s, i) : i \in 1 .. n}
           K == UNION {LinkTells(s, i) : i \in 1 .. n}
           M == LinesTell(s, LineSet(s))
<1>3. \A x : x \in T <=> \E i \in 1 .. n : x \in LineTells(s, i)
  OBVIOUS
<1>4. \A x : x \in K <=> \E i \in 1 .. n : x \in LinkTells(s, i)
  OBVIOUS
<1>5. \A x : x \in M <=> \E i \in 1 .. n : x \in LinePart(s, Lines[s][i])
  BY <1>2 DEF LinesTell
<1> HIDE DEF T, K, M, n
<1>6. T = M \cup K
  BY <1>1, <1>3, <1>4, <1>5
<1> QED
  BY <1>6 DEF T, K, M, n

(* What the reader knows after the last line.                               *)
CommandsOf(s) == IF IsSentinel(s) THEN {} ELSE ToSet(s.commands)
LatenciesOf(s) == IF IsSentinel(s) THEN {} ELSE ToSet(s.latencies)

(* After the last line all fields are remembered, ...                       *)
LEMMA EndFields ==
  ASSUME server \in Servers, FieldRead, Past = LineSet(server)
  PROVE  DOMAIN keyValues = KeptKeys(server) /\ \A k \in KeptKeys(server) : keyValues[k] = KeptValue(server, k)
<1> DEFINE P == Past
<1>1. DOMAIN keyValues = {l.key : l \in {r \in P : Kept(r)}} /\ \A l \in P : Kept(l) => keyValues[l.key] = l.value
  BY DEF FieldRead
<1>2. \A l \in P : Kept(l) => l.key \in KeptKeys(server) /\ l.value = KeptValue(server, l.key)
  BY KeptAre
<1>3. \A key \in KeptKeys(server) : \E l \in P : Kept(l) /\ l.key = key
  BY KeptAre
<1> HIDE DEF P
<1> QED
  BY <1>1, <1>2, <1>3

(* ... all databases and commands, ...                                      *)
LEMMA EndCommands ==
  ASSUME server \in Servers, CommandRead, Past = LineSet(server)
  PROVE  /\ handledDBs = {d.db : d \in {e \in ToSet(server.keyspace) : e.whole}}
         /\ DOMAIN cmdTotals = {c.cmd : c \in CommandsOf(server)}
         /\ \A c \in CommandsOf(server) : cmdTotals[c.cmd] = TotalsOf(c)
         /\ cmdLatencies = LatenciesOf(server)
<1> DEFINE s == server
           P == LineSet(s)
           C(i) == Field("cmdstat", s.commands[i])
           M(i) == Field("latency_percentiles_usec", s.latencies[i])
           K(i) == Numbered("db", s.keyspace[i].db, s.keyspace[i])
<1>1. /\ \A l \in P : l.key = "cmdstat" => ~ IsSentinel(s) /\ \E i \in DOMAIN s.commands : l = C(i)
      /\ \A l \in P : l.key = "latency_percentiles_usec" =>
           ~ IsSentinel(s) /\ \E i \in DOMAIN s.latencies : l = M(i)
      /\ \A l \in P : l.key = "db" => ~ IsSentinel(s) /\ \E i \in DOMAIN s.keyspace : l = K(i)
      /\ ~ IsSentinel(s) => /\ \A i \in DOMAIN s.commands : C(i) \in P
                            /\ \A i \in DOMAIN s.latencies : M(i) \in P
                            /\ \A i \in DOMAIN s.keyspace : K(i) \in P
  BY ListedLines
<1>2. /\ \A i : C(i).key = "cmdstat" /\ C(i).value = s.commands[i]
      /\ \A i : M(i).key = "latency_percentiles_usec" /\ M(i).value = s.latencies[i]
      /\ \A i : K(i).key = "db" /\ K(i).value = s.keyspace[i] /\ K(i).n = s.keyspace[i].db
  BY DEF Field, Numbered
<1>3. IsSentinel(s) => s.keyspace = <<>>
  BY TypesOf DEF Consistent
<1>4. /\ handledDBs = {l.n : l \in {r \in P : r.key = "db" /\ r.value.whole}}
      /\ DOMAIN cmdTotals = {l.value.cmd : l \in {r \in P : r.key = "cmdstat"}}
      /\ \A l \in P : l.key = "cmdstat" => cmdTotals[l.value.cmd] = TotalsOf(l.value)
      /\ cmdLatencies = {l.value : l \in {r \in P : r.key = "latency_percentiles_usec"}}
  BY DEF CommandRead
<1> HIDE DEF P, C, M, K
<1>5. handledDBs = {d.db : d \in {e \in ToSet(s.keyspace) : e.whole}}
  <2>1. {l \in P : l.key = "db" /\ l.value.whole} = {K(i) : i \in {j \in DOMAIN s.keyspace : s.keyspace[j].whole}}
    <3>1. CASE IsSentinel(s)
      <4>1. DOMAIN s.keyspace = {}
        BY <1>3, <3>1, ToSetEmpty DEF ToSet
      <4> QED
        BY <1>1, <3>1, <4>1
    <3>2. CASE ~ IsSentinel(s)
      BY <1>1, <1>2, <3>2
    <3> QED
      BY <3>1, <3>2
  <2>2. handledDBs = {K(i).n : i \in {j \in DOMAIN s.keyspace : s.keyspace[j].whole}}
    BY <1>4, <2>1
  <2>3. handledDBs = {s.keyspace[i].db : i \in {j \in DOMAIN s.keyspace : s.keyspace[j].whole}}
    BY <1>2, <2>2
  <2> QED
    BY <2>3 DEF ToSet
<1>6. DOMAIN cmdTotals = {c.cmd : c \in CommandsOf(s)}
  <2>1. CASE IsSentinel(s)
    BY <1>1, <1>4, <2>1 DEF CommandsOf
  <2>2. CASE ~ IsSentinel(s)
    <3>1. {l \in P : l.key = "cmdstat"} = {C(i) : i \in DOMAIN s.commands}
      BY <1>1, <1>2, <2>2
    <3>2. DOMAIN cmdTotals = {C(i).value.cmd : i \in DOMAIN s.commands}
      BY <1>4, <3>1
    <3>3. DOMAIN cmdTotals = {s.commands[i].cmd : i \in DOMAIN s.commands}
      BY <1>2, <3>2
    <3> QED
      BY <2>2, <3>3 DEF CommandsOf, ToSet
  <2> QED
    BY <2>1, <2>2
<1>7. \A c \in CommandsOf(s) : cmdTotals[c.cmd] = TotalsOf(c)
  <2>1. ASSUME NEW c \in CommandsOf(s) PROVE cmdTotals[c.cmd] = TotalsOf(c)
    <3>1. PICK i \in DOMAIN s.commands : c = s.commands[i] /\ ~ IsSentinel(s)
      BY DEF CommandsOf, ToSet
    <3>2. C(i) \in P /\ C(i).key = "cmdstat" /\ C(i).value = c
      BY <1>1, <1>2, <3>1
    <3> QED
      BY <1>4, <3>2
  <2> QED
    BY <2>1
<1>8. cmdLatencies = LatenciesOf(s)
  <2>1. CASE IsSentinel(s)
    BY <1>1, <1>4, <2>1 DEF LatenciesOf
  <2>2. CASE ~ IsSentinel(s)
    <3>1. {l \in P : l.key = "latency_percentiles_usec"} = {M(i) : i \in DOMAIN s.latencies}
      BY <1>1, <1>2, <2>2
    <3>2. cmdLatencies = {M(i).value : i \in DOMAIN s.latencies}
      BY <1>4, <3>1
    <3>3. cmdLatencies = {s.latencies[i] : i \in DOMAIN s.latencies}
      BY <1>2, <3>2
    <3> QED
      BY <2>2, <3>3 DEF LatenciesOf, ToSet
  <2> QED
    BY <2>1, <2>2
<1> QED
  BY <1>5, <1>6, <1>7, <1>8

(* ... as no line is left.                                                  *)
LEMMA EndRead ==
  ASSUME server \in Servers, Reading, at > Len(Lines[server])
  PROVE  FieldRead /\ CommandRead /\ Past = LineSet(server) /\ at - 1 = Len(Lines[server])
<1>1. Len(Lines[server]) \in Nat /\ at \in 1 .. Len(Lines[server]) + 1
  BY LinesAre DEF Reading
<1>2. at = Len(Lines[server]) + 1
  BY <1>1
<1> QED
  BY <1>1, <1>2, PastIs DEF Reading

(* The summaries of the commands that have latencies.                       *)
TimedCommands(s) == {c \in CommandsOf(s) : c.cmd \in LatenciesOf(s)}

SummaryOf(s, cmd, count, sum) ==
  {CountTold(Told(s, "latency_percentiles_usec", <<"cmd">>, <<cmd>>, count)),
   SumTold(Told(s, "latency_percentiles_usec", <<"cmd">>, <<cmd>>, sum))}

SummariesTold(s) == UNION {SummaryOf(s, c.cmd, c.calls, c.usec) : c \in TimedCommands(s)}

(* A command with latencies has totals.                                     *)
LEMMA TimedTotals ==
  ASSUME NEW s \in Servers, NEW c \in TimedCommands(s)
  PROVE  c.fields >= 3 /\ TotalsOf(c) = [count |-> c.calls, sum |-> c.usec]
<1>1. ~ IsSentinel(s) /\ c \in ToSet(s.commands) /\ c.cmd \in ToSet(s.latencies)
  BY DEF TimedCommands, CommandsOf, LatenciesOf
<1>2. PICK i \in DOMAIN s.commands : c = s.commands[i]
  BY <1>1 DEF ToSet
<1>3. ~ (c.fields < 3)
  BY <1>1, <1>2, TypesOf DEF Consistent
<1>4. c.fields \in Nat
  <2> DEFINE T == [cmd : STRING, of : STRING, plain : BOOLEAN, calls : Nat, usec : Nat,
                   rejected : Nat, slow : Nat \cup {-1}, fields : Nat]
  <2>1. s.commands \in Seq(T)
    BY TypesOf DEF ServerTypes
  <2> HIDE DEF T
  <2>2. c \in T
    BY <1>1, <2>1, ToSetType
  <2> QED
    BY <2>2 DEF T
<1> QED
  BY <1>3, <1>4 DEF TotalsOf

(* What follows the last line: summaries, ...                               *)
LEMMA SummariesTell ==
  ASSUME RoleTold, server \in Servers, DOMAIN cmdTotals = {c.cmd : c \in CommandsOf(server)},
         \A c \in CommandsOf(server) : cmdTotals[c.cmd] = TotalsOf(c),
         cmdLatencies = LatenciesOf(server), NEW x
  PROVE  Adds(x, FoldLeft(Summarised, x, SetToSeq(cmdLatencies)), SummariesTold(server))
<1> DEFINE s == server
           M == LatenciesOf(s)
           seq == SetToSeq(M)
           Of(e) == IF e \in DOMAIN cmdTotals THEN SummaryOf(s, e, cmdTotals[e].count, cmdTotals[e].sum) ELSE {}
           add == [e \in M |-> Of(e)]
<1>1. IsFiniteSet(M)
  <2>1. PICK S : s.latencies \in Seq(S)
    BY TypesOf DEF IsList
  <2>2. IsFiniteSet(ToSet(s.latencies)) /\ IsFiniteSet({})
    BY <2>1, ToSetCardinality, FS_EmptySet
  <2> QED
    BY <2>2 DEF LatenciesOf
<1>2. seq \in Seq(M) /\ ToSet(seq) = M
  BY <1>1, SetToSeqLists
<1>3. ASSUME NEW z, NEW e \in ToSet(seq) PROVE Adds(z, Summarised(z, e), add[e])
  <2>1. add[e] = Of(e)
    BY <1>2, <1>3
  <2>2. CASE e \in DOMAIN cmdTotals
    <3> DEFINE m == "latency_percentiles_usec"
               y == registerConstSummary(createMetricDescription(z, m, <<"cmd">>), m, cmdTotals[e].count,
                                         cmdTotals[e].sum, <<e>>)
    <3>1. Summarised(z, e) = y
      BY <2>2 DEF Summarised
    <3>2. m \in ByCommand
      BY DEF ByCommand
    <3>3. Adds(z, y, {CountTold(Told(server, m, <<"cmd">>, <<e>>, cmdTotals[e].count)),
                      SumTold(Told(server, m, <<"cmd">>, <<e>>, cmdTotals[e].sum))})
      <4> HIDE DEF m
      <4> QED
        BY <3>2, SummaryTells
    <3>4. add[e] = {CountTold(Told(server, m, <<"cmd">>, <<e>>, cmdTotals[e].count)),
                    SumTold(Told(server, m, <<"cmd">>, <<e>>, cmdTotals[e].sum))}
      BY <2>1, <2>2 DEF SummaryOf
    <3> HIDE DEF y, add
    <3> QED
      BY <3>1, <3>3, <3>4
  <2>3. CASE e \notin DOMAIN cmdTotals
    BY <2>1, <2>3, AddsNone DEF Summarised
  <2> QED
    BY <2>2, <2>3
<1>4. Adds(x, FoldLeft(Summarised, x, seq), All(add, M))
  <2> HIDE DEF seq, add, M
  <2> QED
    BY <1>2, <1>3, SummariesAdd
<1>5. All(add, M) = UNION {Of(e) : e \in M}
  BY DEF All
<1>6. UNION {Of(e) : e \in M} = SummariesTold(s)
  <2>1. ASSUME NEW c \in TimedCommands(s)
        PROVE  c.cmd \in M /\ Of(c.cmd) = SummaryOf(s, c.cmd, c.calls, c.usec)
    <3>1. c \in CommandsOf(s) /\ c.cmd \in M
      BY DEF TimedCommands
    <3>2. c.cmd \in DOMAIN cmdTotals /\ cmdTotals[c.cmd] = [count |-> c.calls, sum |-> c.usec]
      BY <3>1, TimedTotals
    <3> QED
      BY <3>1, <3>2
  <2>2. ASSUME NEW e \in M, e \in DOMAIN cmdTotals
        PROVE  \E c \in TimedCommands(s) : e = c.cmd
    BY <2>2 DEF TimedCommands
  <2>3. ASSUME NEW e \in M, e \notin DOMAIN cmdTotals
        PROVE  Of(e) = {}
    BY <2>3
  <2> DEFINE F(c) == SummaryOf(s, c.cmd, c.calls, c.usec)
  <2>4. \A y : y \in UNION {Of(e) : e \in M} <=> \E e \in M : y \in Of(e)
    OBVIOUS
  <2>5. \A y : y \in SummariesTold(s) <=> \E c \in TimedCommands(s) : y \in F(c)
    BY DEF SummariesTold
  <2> DEFINE A == UNION {Of(e) : e \in M}
  <2>6. \A y : y \in A => y \in SummariesTold(s)
    <3> HIDE DEF Of, M, F
    <3> QED
      BY <2>1, <2>2, <2>3, <2>4, <2>5 DEF F
  <2>7. \A y : y \in SummariesTold(s) => y \in A
    <3> HIDE DEF Of, M, F
    <3> QED
      BY <2>1, <2>4, <2>5 DEF F
  <2> HIDE DEF A
  <2>8. A = SummariesTold(s)
    BY <2>6, <2>7
  <2> QED
    BY <2>8 DEF A
<1> QED
  BY <1>4, <1>5, <1>6

(* The databases without keys.                                              *)
EmptyPart(s, n) == {Told(s, "db_keys", <<"db">>, <<DbName(n)>>, 0),
                    Told(s, "db_keys_expiring", <<"db">>, <<DbName(n)>>, 0)}

(* ... databases without keys, ...                                          *)
LEMMA PaddingTells ==
  ASSUME RoleTold, dbCount \in Nat, NEW x
  PROVE  Adds(x, FoldLeft(Padded, x, [i \in 1 .. dbCount |-> i - 1]),
              UNION {EmptyPart(server, n) : n \in (0 .. dbCount - 1) \ handledDBs})
<1> DEFINE seq == [i \in 1 .. dbCount |-> i - 1]
           M == 0 .. dbCount - 1
           Of(n) == IF n \in handledDBs THEN {} ELSE EmptyPart(server, n)
           add == [n \in M |-> Of(n)]
<1>1. seq \in Seq(M)
  BY SeqDef
<1>2. ToSet(seq) = M
  <2>1. ASSUME NEW n \in M PROVE \E i \in 1 .. dbCount : i - 1 = n
    <3>1. n + 1 \in 1 .. dbCount /\ (n + 1) - 1 = n
      OBVIOUS
    <3> QED
      BY <3>1
  <2> QED
    BY <2>1 DEF ToSet
<1>3. ASSUME NEW z, NEW n \in ToSet(seq) PROVE Adds(z, Padded(z, n), add[n])
  <2>1. add[n] = Of(n)
    BY <1>2, <1>3
  <2>2. CASE n \in handledDBs
    BY <2>1, <2>2, AddsNone DEF Padded
  <2>3. CASE n \notin handledDBs
    <3> DEFINE d == DbName(n)
               a == Told(server, "db_keys", <<"db">>, <<d>>, 0)
               b == Told(server, "db_keys_expiring", <<"db">>, <<d>>, 0)
               y == Gauge(z, "db_keys", 0, <<d>>)
               w == Gauge(y, "db_keys_expiring", 0, <<d>>)
    <3> HIDE DEF d
    <3>1. "db_keys" \in ByDb /\ "db_keys_expiring" \in ByDb
      BY DEF ByDb
    <3>2. Adds(z, y, {a})
      BY <3>1, GroupTells
    <3> HIDE DEF y
    <3>3. Adds(y, w, {b})
      BY <3>1, GroupTells
    <3> HIDE DEF w, a, b
    <3>4. Adds(z, w, {a} \cup {b})
      BY <3>2, <3>3, AddsThen
    <3>5. Padded(z, n) = w /\ add[n] = {a, b}
      BY <2>1, <2>3 DEF Padded, w, y, d, a, b, EmptyPart
    <3>6. {a} \cup {b} = {a, b}
      OBVIOUS
    <3> HIDE DEF add
    <3> QED
      BY <3>4, <3>5, <3>6
  <2> QED
    BY <2>2, <2>3
<1>4. Adds(x, FoldLeft(Padded, x, seq), All(add, M))
  <2> HIDE DEF seq, add, M
  <2> QED
    BY <1>1, <1>2, <1>3, PaddedAdd
<1>5. All(add, M) = UNION {EmptyPart(server, n) : n \in M \ handledDBs}
  <2>1. All(add, M) = UNION {Of(n) : n \in M}
    BY DEF All
  <2>2. \A y : y \in All(add, M) <=> \E n \in M : y \in Of(n)
    BY <2>1
  <2>3. \A y : y \in UNION {EmptyPart(server, n) : n \in M \ handledDBs}
                 <=> \E n \in M \ handledDBs : y \in EmptyPart(server, n)
    OBVIOUS
  <2> DEFINE A == All(add, M)
             B == UNION {EmptyPart(server, n) : n \in M \ handledDBs}
  <2> HIDE DEF A, B, M
  <2>4. A = B
    BY <2>2, <2>3 DEF A, B
  <2> QED
    BY <2>4 DEF A, B
<1> QED
  BY <1>4, <1>5

(* (tuples one after the other)                                             *)
LEMMA TuplesJoin ==
  /\ \A a, b : (<<a, b>> \o <<>>) \o <<>> = <<a, b>>
  /\ \A a, b, c : (<<a, b>> \o <<c>>) \o <<>> = <<a, b, c>>
  /\ \A a, b, c, d : (<<a, b>> \o <<c>>) \o <<d>> = <<a, b, c, d>>
<1>1. \A S : \A t \in Seq(S) : t \o <<>> = t
  OBVIOUS
<1>2. \A a, b : <<a, b>> \o <<>> = <<a, b>>
  BY <1>1, TuplesAre
<1>3. \A a, b, c : <<a, b, c>> \o <<>> = <<a, b, c>>
  BY <1>1, TuplesAre
<1>4. \A a, b, c : <<a, b>> \o <<c>> = <<a, b, c>>
  BY TriplesSplit
<1>5. \A a, b, c, d : <<a, b, c, d>> = <<a, b, c>> \o <<d>>
  OBVIOUS
<1>6. ASSUME NEW a, NEW b PROVE (<<a, b>> \o <<>>) \o <<>> = <<a, b>>
  BY <1>2
<1>7. ASSUME NEW a, NEW b, NEW c PROVE (<<a, b>> \o <<c>>) \o <<>> = <<a, b, c>>
  BY <1>3, <1>4
<1>8. ASSUME NEW a, NEW b, NEW c, NEW d PROVE (<<a, b>> \o <<c>>) \o <<d>> = <<a, b, c, d>>
  <2>1. <<a, b>> \o <<c>> = <<a, b, c>>
    BY <1>4
  <2> QED
    BY <1>5, <2>1
<1> QED
  BY <1>6, <1>7, <1>8

(* What the instance is.                                                    *)
InstancePart(s) ==
  CASE ~ IsValkey(s) -> Told(s, "instance_info", <<"role", "redis_mode">>, <<s.role, s.mode>>, 1)
    [] IsValkey(s) /\ s.zone = "" ->
         Told(s, "instance_info", <<"role", "redis_mode", "valkey_version">>,
              <<s.role, s.mode, "9.1">>, 1)
    [] OTHER ->
         Told(s, "instance_info",
              <<"role", "redis_mode", "valkey_version", "availability_zone">>,
              <<s.role, s.mode, "9.1", s.zone>>, 1)

InstanceValues ==
  /\ DOMAIN keyValues = KeptKeys(server)
  /\ \A k \in KeptKeys(server) : keyValues[k] = KeptValue(server, k)

(* (what Value() finds)                                                     *)
LEMMA ValuesAre ==
  ASSUME server \in Servers, InstanceValues
  PROVE  /\ Value("role") = server.role
         /\ (IF Value("redis_mode") = "" THEN Value("server_mode") ELSE Value("redis_mode")) = server.mode
         /\ "valkey_version" \in DOMAIN keyValues <=> IsValkey(server)
         /\ IsValkey(server) => Value("valkey_version") = "9.1"
         /\ Value("availability_zone") = IF IsValkey(server) THEN server.zone ELSE ""
         /\ server.masters # <<>> => /\ Value("master_host") = server.masters[1].host
                                     /\ Value("master_port") = server.masters[1].port
                                     /\ Value("slave_read_only") = "1"
<1>1. IsSentinel(server) => server.role = ""
  BY TypesOf DEF Consistent
<1>2. /\ "valkey_version" \in KeptKeys(server) <=> IsValkey(server)
      /\ "availability_zone" \in KeptKeys(server) <=> IsValkey(server)
      /\ "server_mode" \in KeptKeys(server) <=> IsValkey(server)
      /\ "redis_mode" \in KeptKeys(server) <=> ~ IsValkey(server)
      /\ "role" \in KeptKeys(server) <=> ~ IsSentinel(server)
      /\ server.masters # <<>> => {"master_host", "master_port", "slave_read_only"} \subseteq KeptKeys(server)
  BY DEF KeptKeys
<1>3. /\ KeptValue(server, "role") = server.role
      /\ KeptValue(server, "redis_mode") = server.mode
      /\ KeptValue(server, "server_mode") = server.mode
      /\ KeptValue(server, "valkey_version") = "9.1"
      /\ KeptValue(server, "availability_zone") = server.zone
      /\ KeptValue(server, "master_host") = server.masters[1].host
      /\ KeptValue(server, "master_port") = server.masters[1].port
      /\ KeptValue(server, "slave_read_only") = "1"
  BY DEF KeptValue
<1>4. \A k : Value(k) = IF k \in KeptKeys(server) THEN KeptValue(server, k) ELSE ""
  BY DEF Value, InstanceValues
<1>5. DOMAIN keyValues = KeptKeys(server)
  BY DEF InstanceValues
<1> QED
  BY <1>1, <1>2, <1>3, <1>4, <1>5

(* ... instance_info ...                                                    *)
LEMMA InstanceTells ==
  ASSUME RoleTold, server \in Servers, InstanceValues, NEW x
  PROVE  Adds(x, InstanceInfo(x), {InstancePart(server)})
<1> DEFINE s == server
           version == IF IsValkey(s) THEN <<"valkey_version">> ELSE <<>>
           zone == IF IsValkey(s) /\ s.zone # "" THEN <<"availability_zone">> ELSE <<>>
           version1 == IF IsValkey(s) THEN <<"9.1">> ELSE <<>>
           zone1 == IF IsValkey(s) /\ s.zone # "" THEN <<s.zone>> ELSE <<>>
           labels == (<<"role", "redis_mode">> \o version) \o zone
           values == (<<s.role, s.mode>> \o version1) \o zone1
           m == "instance_info"
<1>1. InstanceInfo(x) = Gauge(createMetricDescription(x, m, labels), m, 1, values)
  BY ValuesAre DEF InstanceInfo
<1>2. labels \in InstanceLabels
  <2>1. version \in {<<>>, <<"valkey_version">>} /\ zone \in {<<>>, <<"availability_zone">>}
    OBVIOUS
  <2> DEFINE F(v, z) == <<"role", "redis_mode">> \o v \o z
  <2>2. InstanceLabels = {F(v, z) : v \in {<<>>, <<"valkey_version">>}, z \in {<<>>, <<"availability_zone">>}}
    BY DEF InstanceLabels
  <2>3. labels = F(version, zone)
    OBVIOUS
  <2> HIDE DEF version, zone, F, labels
  <2> QED
    BY <2>1, <2>2, <2>3
<1>3. WithRole(m, labels, "instance_role") \in AnyLabels
  BY <1>2 DEF AnyLabels
<1>4. Told(s, m, labels, values, 1) = InstancePart(s)
  <2>1. CASE ~ IsValkey(s)
    <3>1. labels = <<"role", "redis_mode">> /\ values = <<s.role, s.mode>>
      BY <2>1, TuplesJoin
    <3> HIDE DEF labels, values
    <3> QED
      BY <2>1, <3>1 DEF InstancePart
  <2>2. CASE IsValkey(s) /\ s.zone = ""
    <3>1. labels = <<"role", "redis_mode", "valkey_version">> /\ values = <<s.role, s.mode, "9.1">>
      BY <2>2, TuplesJoin
    <3> HIDE DEF labels, values
    <3> QED
      BY <2>2, <3>1 DEF InstancePart
  <2>3. CASE IsValkey(s) /\ s.zone # ""
    <3>1. labels = <<"role", "redis_mode", "valkey_version", "availability_zone">>
          /\ values = <<s.role, s.mode, "9.1", s.zone>>
      BY <2>3, TuplesJoin
    <3> HIDE DEF labels, values
    <3> QED
      BY <2>3, <3>1 DEF InstancePart
  <2> QED
    BY <2>1, <2>2, <2>3
<1>5. /\ IsList(version) /\ IsList(version1) /\ Len(version) = Len(version1)
      /\ IsList(zone) /\ IsList(zone1) /\ Len(zone) = Len(zone1)
  BY TupleSets
<1>6. \A a, b : IsList(<<a, b>>) /\ Len(<<a, b>>) = 2 /\ <<a, b>> # <<>>
  BY TupleSets
<1> DEFINE base == <<"role", "redis_mode">>
           base1 == <<s.role, s.mode>>
           p == base \o version
           p1 == base1 \o version1
<1>7. IsList(base) /\ IsList(base1) /\ Len(base) = Len(base1) /\ base # <<>> /\ base1 # <<>>
  BY <1>6
<1> HIDE DEF base, base1, version, version1, zone, zone1
<1>8. IsList(p) /\ IsList(p1) /\ Len(p) = Len(p1) /\ p # <<>> /\ p1 # <<>>
  BY <1>5, <1>7, ListsAre
<1>9. labels = p \o zone /\ values = p1 \o zone1
  BY DEF base, base1
<1> HIDE DEF p, p1, labels, values
<1>10. IsList(labels) /\ IsList(values) /\ Len(labels) = Len(values) /\ labels # <<>> /\ values # <<>>
  BY <1>5, <1>8, <1>9, ListsAre
<1>11. WithRole(m, labels, "instance_role") # <<>>
  <2>1. \A l : Append(labels, l) # <<>>
    <3>1. PICK S : labels \in Seq(S)
      BY <1>10 DEF IsList
    <3>2. \A l : Len(Append(labels, l)) = Len(labels) + 1 /\ Len(labels) \in Nat
      BY <3>1
    <3>3. Len(<<>>) = 0
      BY TuplesAre
    <3>4. \A l : Len(Append(labels, l)) # 0
      BY <3>2
    <3> QED
      BY <3>3, <3>4
  <2> QED
    BY <1>10, <2>1 DEF WithRole
<1>12. m \in Static \cup Dynamic /\ m \in Dynamic
  BY DEF Dynamic
<1> HIDE DEF m
<1>13. Adds(x, InstanceInfo(x), {Told(s, m, labels, values, 1)})
  BY <1>1, <1>3, <1>10, <1>11, <1>12, CreatedTells
<1> QED
  BY <1>4, <1>13

(* Who its master is.                                                       *)
SlaveInfoPart(s) ==
  {Told(s, "slave_info", <<"master_host", "master_port", "read_only">>,
        <<s.masters[1].host, s.masters[1].port, "1">>, 1) : role \in {"slave"} \cap {s.role}}

(* ... and slave_info.                                                      *)
LEMMA SlaveTells ==
  ASSUME RoleTold, server \in Servers, InstanceValues, NEW x
  PROVE  Adds(x, SlaveInfo(x), SlaveInfoPart(server))
<1> DEFINE s == server
           host == s.masters[1].host
           port == s.masters[1].port
<1>1. s.role = "slave" => s.masters # <<>>
  BY TypesOf DEF Consistent
<1>2. Value("role") = s.role
  BY ValuesAre
<1>3. CASE s.role = "slave"
  <2>1. SlaveInfo(x) = Gauge(x, "slave_info", 1, <<host, port, "1">>)
    BY <1>1, <1>2, <1>3, ValuesAre DEF SlaveInfo
  <2>3. SlaveInfoPart(s) = {Told(s, "slave_info", <<"master_host", "master_port", "read_only">>, <<host, port, "1">>, 1)}
    BY <1>3 DEF SlaveInfoPart
  <2>4. LabelsIn("slave_info") = <<"master_host", "master_port", "read_only">>
    BY LabelsAre
  <2>5. "slave_info" \in DOMAIN Described
    BY InTable DEF Single
  <2> HIDE DEF host, port
  <2>6. Adds(x, Gauge(x, "slave_info", 1, <<host, port, "1">>),
             {Told(s, "slave_info", <<"master_host", "master_port", "read_only">>, <<host, port, "1">>, 1)})
    BY <2>4, <2>5, TellsThree
  <2> QED
    BY <2>1, <2>3, <2>6
<1>4. CASE s.role # "slave"
  <2>1. SlaveInfo(x) = x
    BY <1>2, <1>4 DEF SlaveInfo
  <2>2. SlaveInfoPart(s) = {}
    BY <1>4 DEF SlaveInfoPart
  <2> QED
    BY <2>1, <2>2, AddsNone
<1> QED
  BY <1>3, <1>4

(* What INFO's lines and their end tell, section by section, is what is     *)
(* promised of it.                                                          *)
LEMMA InstanceIs ==
  ASSUME NEW s \in Servers
  PROVE  PromisedInstance(s) =
           Connected(s) \cup LinesTell(s, ToSet(ServerLines(s))) \cup LinesTell(s, ToSet(ValkeyLines(s)))
           \cup {InstancePart(s)}
<1> DEFINE up == Plain(s, "uptime_in_seconds", Number[s.uptime])
           start == Plain(s, "start_time_seconds", Now - Number[s.uptime])
           valkey == LinesTell(s, ToSet(ValkeyLines(s)))
<1>1. LinesTell(s, ToSet(ServerLines(s))) = {up, start}
  BY ServerTells
<1>2. PromisedInstance(s) =
        {Plain(s, "exporter_last_scrape_connect_time_seconds", 1), up, start, InstancePart(s)} \cup valkey
  BY ValkeyTells DEF PromisedInstance, InstancePart
<1>3. Connected(s) = {Plain(s, "exporter_last_scrape_connect_time_seconds", 1)}
  BY DEF Connected
<1> HIDE DEF up, start, valkey
<1> QED
  BY <1>1, <1>2, <1>3 DEF valkey

(* What is promised is what the lines and what follows tell: of the cluster, ...*)
LEMMA ClusterIs ==
  ASSUME NEW s
  PROVE  PromisedCluster(s) = LinesTell(s, ToSet(ClusterLines(s))) \cup ClusterPart(s)
BY ClusterTells DEF PromisedCluster, ClusterPart

(* ... of the masters watched, ...                                          *)
LEMMA WatchedIs ==
  ASSUME NEW s \in Servers
  PROVE  PromisedWatched(s) = LinesTell(s, ToSet(SentinelLines(s)))
<1> DEFINE M == ToSet(s.watched)
           one == Plain(s, "sentinel_masters", 2)
           a(m) == Told(s, "sentinel_master_status", <<"master_name", "master_address", "master_status">>,
                        <<m.name, m.address, m.status>>, IF m.status = "ok" THEN 1 ELSE 0)
           b(m) == Told(s, "sentinel_master_slaves", <<"master_name", "master_address">>,
                        <<m.name, m.address>>, m.slaves)
<1>1. PromisedWatched(s) = {one} \cup {a(m) : m \in M} \cup {b(m) : m \in M}
  BY DEF PromisedWatched, OfWatched
<1>2. \A m : WatchedPart(s, m) = {a(m), b(m)}
  BY DEF WatchedPart
<1>3. LinesTell(s, ToSet(SentinelLines(s))) = {one} \cup UNION {WatchedPart(s, m) : m \in M}
  BY SentinelTells
<1> DEFINE U == UNION {WatchedPart(s, m) : m \in M}
<1>4. \A x : x \in U <=> \E m \in M : x \in WatchedPart(s, m)
  OBVIOUS
<1> HIDE DEF U, one, a, b, M
<1>5. U = {a(m) : m \in M} \cup {b(m) : m \in M}
  BY <1>2, <1>4
<1> QED
  BY <1>1, <1>3, <1>5 DEF U

Padding(s) ==
  UNION {EmptyPart(s, n) :
           n \in (0 .. Databases(s) - 1) \ {d.db : d \in {e \in ToSet(s.keyspace) : e.whole}}}

(* ... of the databases, ...                                                *)
LEMMA KeyspaceIs ==
  ASSUME NEW s \in Servers
  PROVE  PromisedKeyspace(s) = LinesTell(s, ToSet(KeyspaceLines(s))) \cup Padding(s)
<1> DEFINE Z == ToSet(s.keyspace)
           full == {d \in Z : d.whole}
           R == 0 .. Databases(s) - 1
           empty == {n \in R : \A d \in full : d.db # n}
           o(metric, n, v) == Told(s, metric, <<"db">>, <<DbName(n)>>, v)
           a(d) == o("db_keys", d.db, d.keys)
           b(d) == o("db_keys_expiring", d.db, d.expires)
           c(d) == o("db_avg_ttl_seconds", d.db, d.ttl \div 1000)
           A == {a(d) : d \in full}
           B == {b(d) : d \in full}
           C == {c(d) : d \in {e \in full : e.ttl # -1}}
           E == {o(metric, n, 0) : metric \in {"db_keys", "db_keys_expiring"}, n \in empty}
           U == UNION {DbPart(s, d.db, d) : d \in Z}
           P == Padding(s)
<1>1. PromisedKeyspace(s) = A \cup B \cup C \cup E
  BY DEF PromisedKeyspace
<1>2. \A x : x \in E <=> \E n \in empty : x \in EmptyPart(s, n)
  <2>1. \A n : EmptyPart(s, n) = {o("db_keys", n, 0), o("db_keys_expiring", n, 0)}
    BY DEF EmptyPart
  <2> HIDE DEF o, empty
  <2> QED
    BY <2>1
<1>3. empty = R \ {d.db : d \in full}
  OBVIOUS
<1>4. \A x : x \in P <=> \E n \in R \ {d.db : d \in full} : x \in EmptyPart(s, n)
  BY DEF Padding
<1>5. \A x : x \in U <=> \E d \in Z : x \in DbPart(s, d.db, d)
  OBVIOUS
<1>6. \A d \in Z : DbPart(s, d.db, d) = IF ~ d.whole THEN {}
                                        ELSE {a(d), b(d)} \cup IF d.ttl = -1 THEN {} ELSE {c(d)}
  BY DEF DbPart
<1>7. LinesTell(s, ToSet(KeyspaceLines(s))) = U
  BY KeyspaceTells
<1> HIDE DEF R
<1>8. E = P
  <2> HIDE DEF P, E, empty, full
  <2> QED
    BY <1>2, <1>3, <1>4
<1> HIDE DEF U, o, a, b, c, E, P
<1>9. U = A \cup B \cup C
  <2> DEFINE lives(d) == d.ttl # -1
  <2>1. C = {c(d) : d \in {e \in full : lives(e)}}
    OBVIOUS
  <2> DEFINE Q(d) == DbPart(s, d.db, d)
  <2>2. \A d \in Z : Q(d) = IF ~ d.whole THEN {}
                           ELSE {a(d), b(d)} \cup IF lives(d) THEN {c(d)} ELSE {}
    BY <1>6
  <2>4. \A x : x \in U <=> \E d \in Z : x \in Q(d)
    BY <1>5
  <2> HIDE DEF lives, Z, Q
  <2>5. \A x : \A d \in Z : x \in Q(d) <=> d.whole /\ (x = a(d) \/ x = b(d) \/ (lives(d) /\ x = c(d)))
    BY <2>2
  <2>3. \A x : x \in U <=> \E d \in full : x = a(d) \/ x = b(d) \/ (lives(d) /\ x = c(d))
    BY <2>4, <2>5
  <2> HIDE DEF full, C
  <2> QED
    BY <2>1, <2>3
<1> QED
  BY <1>1, <1>7, <1>8, <1>9 DEF P

(* ... of the commands ...                                                  *)
LEMMA CommandsAre ==
  ASSUME NEW s \in Servers, ~ IsSentinel(s)
  PROVE  PromisedCommands(s) = SummariesTold(s) \cup UNION {CommandPart(s, c) : c \in ToSet(s.commands)}
<1> DEFINE Z == ToSet(s.commands)
           known == {c \in Z : c.fields >= 3}
           timed == {c \in known : c.cmd \in ToSet(s.latencies)}
           o(metric, k, v) == Told(s, metric, <<"cmd">>, <<k.cmd>>, v)
           a(k) == o("commands_total", k, k.calls)
           b(k) == o("commands_rejected_calls_total", k, k.rejected)
           c(k) == o("commands_slowlog_total", k, k.slow)
           d(k) == CountTold(o("latency_percentiles_usec", k, k.calls))
           e(k) == SumTold(o("latency_percentiles_usec", k, k.usec))
           A == {a(k) : k \in known}
           B == {b(k) : k \in {h \in known : h.fields >= 5}}
           C == {c(k) : k \in {h \in known : h.slow # -1}}
           D == {d(k) : k \in timed}
           E == {e(k) : k \in timed}
           U == UNION {CommandPart(s, k) : k \in Z}
           S == SummariesTold(s)
<1>1. PromisedCommands(s) = A \cup B \cup C \cup D \cup E
  BY DEF PromisedCommands
<1>2. timed = TimedCommands(s)
  <2>1. TimedCommands(s) = {k \in Z : k.cmd \in ToSet(s.latencies)}
    BY DEF TimedCommands, CommandsOf, LatenciesOf
  <2>2. \A k \in TimedCommands(s) : k.fields >= 3
    BY TimedTotals
  <2> QED
    BY <2>1, <2>2
<1>3. \A x : x \in S <=> \E k \in timed : x \in SummaryOf(s, k.cmd, k.calls, k.usec)
  BY <1>2 DEF SummariesTold
<1>4. \A k : SummaryOf(s, k.cmd, k.calls, k.usec) = {d(k), e(k)}
  BY DEF SummaryOf
<1>5. \A x : x \in U <=> \E k \in Z : x \in CommandPart(s, k)
  OBVIOUS
<1>6. \A k \in Z : k.fields \in Nat
  <2> DEFINE T == [cmd : STRING, of : STRING, plain : BOOLEAN, calls : Nat, usec : Nat,
                   rejected : Nat, slow : Nat \cup {-1}, fields : Nat]
  <2>1. s.commands \in Seq(T)
    BY TypesOf DEF ServerTypes
  <2> HIDE DEF T
  <2>2. \A k \in Z : k \in T
    BY <2>1, ToSetType
  <2> QED
    BY <2>2 DEF T
<1>7. \A k \in Z : (k.fields < 3 <=> ~ (k.fields >= 3)) /\ (k.fields < 5 <=> ~ (k.fields >= 5))
  BY <1>6
<1>8. \A k \in Z : CommandPart(s, k) =
        IF k.fields < 3 THEN {}
        ELSE {a(k)} \cup (IF k.fields < 5 THEN {} ELSE {b(k)}) \cup (IF k.slow = -1 THEN {} ELSE {c(k)})
  BY DEF CommandPart
<1> HIDE DEF U, S, o, a, b, c, d, e
<1>9. S = D \cup E
  <2> HIDE DEF timed
  <2> QED
    BY <1>3, <1>4
<1>10. U = A \cup B \cup C
  <2> DEFINE three(k) == k.fields >= 3
             five(k) == k.fields >= 5
             slow(k) == k.slow # -1
  <2>1. /\ known = {k \in Z : three(k)}
        /\ B = {b(k) : k \in {h \in known : five(h)}} /\ C = {c(k) : k \in {h \in known : slow(h)}}
    OBVIOUS
  <2>2. ASSUME NEW k \in Z
        PROVE  CommandPart(s, k) =
                 IF ~ three(k) THEN {}
                 ELSE {a(k)} \cup (IF five(k) THEN {b(k)} ELSE {}) \cup (IF slow(k) THEN {c(k)} ELSE {})
    BY <1>7, <1>8
  <2> HIDE DEF three, five, slow, Z
  <2>3. \A x : x \in U <=> \E k \in known : x = a(k) \/ (five(k) /\ x = b(k)) \/ (slow(k) /\ x = c(k))
    BY <1>5, <2>1, <2>2
  <2> HIDE DEF known, B, C
  <2> QED
    BY <2>1, <2>3
<1> QED
  BY <1>1, <1>9, <1>10 DEF U, S

(* ... and of replication.                                                  *)
LEMMA ReplicationIs ==
  ASSUME NEW s \in Servers
  PROVE  PromisedReplication(s) =
           {Told(s, "errors_total", <<"err">>, <<"ERR">>, 3)} \cup LinesTell(s, ToSet(ReplicationLines(s)))
           \cup SlaveInfoPart(s) \cup UNION {LinkTells(s, i) : i \in 1 .. Len(Lines[s])}
<1> DEFINE Z == ToSet(s.slaves)
           slaves == {r \in Z : r.whole}
           M == ToSet(s.masters)
           o(metric, r, v) ==
             Told(s, metric, <<"slave_ip", "slave_port", "slave_state">>, <<r.ip, r.port, r.state>>, v)
           a(r) == o("connected_slave_offset_bytes", r, r.offset)
           b(r) == o("connected_slave_lag_seconds", r, r.lag)
           A == {a(r) : r \in slaves}
           B == {b(r) : r \in {q \in slaves : q.lag # -1}}
           U == UNION {SlavePart(s, r) : r \in Z}
           I == SlaveInfoPart(s)
           errors == Told(s, "errors_total", <<"err">>, <<"ERR">>, 3)
           count == Plain(s, "connected_slaves", 2)
           F == {LinkUp(s, m) : m \in M}
           G == {LinkIo(s, m) : m \in M}
           H == {LinkOffset(s, m) : m \in M}
           K == UNION {LinkTells(s, i) : i \in 1 .. Len(Lines[s])}
           L == LinesTell(s, ToSet(ReplicationLines(s)))
<1>1. PromisedReplication(s) = {count, errors} \cup F \cup G \cup H \cup I \cup A \cup B
  BY DEF PromisedReplication, SlaveInfoPart, LinkUp, LinkIo, LinkOffset, OfMaster
<1>2. K = F \cup G \cup H
  BY LinksAre
<1>3. L = {count} \cup U
  BY ReplicationTells
<1>4. \A r \in Z : r.lag \in Nat \cup {-1}
  <2> DEFINE T == [whole : BOOLEAN, ip : STRING, port : STRING, state : STRING,
                   offset : Nat, lag : Nat \cup {-1}]
  <2>1. s.slaves \in Seq(T)
    BY TypesOf DEF ServerTypes
  <2> HIDE DEF T
  <2>2. \A r \in Z : r \in T
    BY <2>1, ToSetType
  <2> QED
    BY <2>2 DEF T
<1>5. \A r \in Z : r.lag > -1 <=> r.lag # -1
  BY <1>4
<1>6. \A r \in Z : SlavePart(s, r) =
        IF ~ r.whole THEN {} ELSE {a(r)} \cup IF r.lag > -1 THEN {b(r)} ELSE {}
  BY DEF SlavePart
<1>7. \A x : x \in U <=> \E r \in Z : x \in SlavePart(s, r)
  OBVIOUS
<1> HIDE DEF U, o, a, b
<1>8. U = A \cup B
  <2> DEFINE lags(r) == r.lag # -1
  <2>1. B = {b(r) : r \in {q \in slaves : lags(q)}}
    OBVIOUS
  <2>2. ASSUME NEW r \in Z
        PROVE  SlavePart(s, r) = IF ~ r.whole THEN {} ELSE {a(r)} \cup IF lags(r) THEN {b(r)} ELSE {}
    BY <1>5, <1>6
  <2> HIDE DEF lags, Z
  <2>3. \A x : x \in U <=> \E r \in slaves : x = a(r) \/ (lags(r) /\ x = b(r))
    BY <1>7, <2>2
  <2> HIDE DEF slaves, B
  <2> QED
    BY <2>1, <2>3
<1> HIDE DEF A, B, F, G, H, I, K, L, errors, count
<1>9. PromisedReplication(s) = {errors} \cup L \cup I \cup K
  BY <1>1, <1>2, <1>3, <1>8
<1> QED
  BY <1>9 DEF errors, L, K, I

(* All that INFO tells, the end of it too.                                  *)
LinkedTells(s) == UNION {LinkTells(s, i) : i \in 1 .. Len(Lines[s])}

EndTells(s) == SummariesTold(s) \cup Padding(s) \cup {InstancePart(s)} \cup SlaveInfoPart(s)

(* The sections together.                                                   *)
LEMMA SectionsAll ==
  ASSUME NEW s
  PROVE  LinesTell(s, LineSet(s)) =
           LinesTell(s, ToSet(ServerLines(s)))
           \cup IF IsSentinel(s) THEN LinesTell(s, ToSet(SentinelLines(s)))
                ELSE LinesTell(s, ToSet(ReplicationLines(s))) \cup LinesTell(s, ToSet(CommandLines(s)))
                     \cup LinesTell(s, ToSet(ValkeyLines(s))) \cup LinesTell(s, ToSet(ClusterLines(s)))
                     \cup LinesTell(s, ToSet(KeyspaceLines(s)))
<1> DEFINE a == ToSet(ServerLines(s))
           b == ToSet(SentinelLines(s))
           c == ToSet(ReplicationLines(s))
           d == ToSet(CommandLines(s))
           e == ToSet(ValkeyLines(s))
           f == ToSet(ClusterLines(s))
           g == ToSet(KeyspaceLines(s))
<1>1. LineSet(s) = a \cup IF IsSentinel(s) THEN b ELSE c \cup d \cup e \cup f \cup g
  BY DEF LineSet
<1> HIDE DEF a, b, c, d, e, f, g
<1>2. LinesTell(s, a \cup b) = LinesTell(s, a) \cup LinesTell(s, b)
  BY LinesTellBoth
<1> DEFINE cd == c \cup d
           ce == cd \cup e
           cf == ce \cup f
           cg == cf \cup g
<1>3. LinesTell(s, cd) = LinesTell(s, c) \cup LinesTell(s, d)
  BY LinesTellBoth
<1> HIDE DEF cd
<1>4. LinesTell(s, ce) = LinesTell(s, cd) \cup LinesTell(s, e)
  BY LinesTellBoth
<1> HIDE DEF ce
<1>5. LinesTell(s, cf) = LinesTell(s, ce) \cup LinesTell(s, f)
  BY LinesTellBoth
<1> HIDE DEF cf
<1>6. LinesTell(s, cg) = LinesTell(s, cf) \cup LinesTell(s, g)
  BY LinesTellBoth
<1> HIDE DEF cg
<1>7. LinesTell(s, a \cup cg) = LinesTell(s, a) \cup LinesTell(s, cg)
  BY LinesTellBoth
<1>8. CASE IsSentinel(s)
  BY <1>1, <1>2, <1>8 DEF a, b
<1>9. CASE ~ IsSentinel(s)
  <2>1. LineSet(s) = a \cup cg
    BY <1>1, <1>9 DEF cg, cf, ce, cd
  <2>2. LinesTell(s, LineSet(s)) =
          LinesTell(s, a) \cup (LinesTell(s, c) \cup LinesTell(s, d) \cup LinesTell(s, e)
                                \cup LinesTell(s, f) \cup LinesTell(s, g))
    BY <1>3, <1>4, <1>5, <1>6, <1>7, <2>1
  <2> QED
    BY <1>9, <2>2 DEF a, c, d, e, f, g
<1> QED
  BY <1>8, <1>9

(* All of INFO, of a server ...                                             *)
LEMMA ServerEnds ==
  ASSUME NEW s \in Servers, ~ IsSentinel(s)
  PROVE  AfterInfo(s) = BeforeInfo(s) \cup LinesTell(s, LineSet(s)) \cup LinkedTells(s) \cup EndTells(s)
<1> DEFINE a == LinesTell(s, ToSet(ServerLines(s)))
           c == LinesTell(s, ToSet(ReplicationLines(s)))
           d == LinesTell(s, ToSet(CommandLines(s)))
           e == LinesTell(s, ToSet(ValkeyLines(s)))
           f == LinesTell(s, ToSet(ClusterLines(s)))
           g == LinesTell(s, ToSet(KeyspaceLines(s)))
           U == UNION {CommandPart(s, k) : k \in ToSet(s.commands)}
           errors == {Told(s, "errors_total", <<"err">>, <<"ERR">>, 3)}
<1>1. LinesTell(s, LineSet(s)) = a \cup c \cup d \cup e \cup f \cup g
  BY SectionsAll
<1>2. PromisedInstance(s) = Connected(s) \cup a \cup e \cup {InstancePart(s)}
  BY InstanceIs
<1>3. PromisedCluster(s) = f \cup ClusterPart(s)
  BY ClusterIs
<1>4. PromisedKeyspace(s) = g \cup Padding(s)
  BY KeyspaceIs
<1>5. PromisedReplication(s) = errors \cup c \cup SlaveInfoPart(s) \cup LinkedTells(s)
  BY ReplicationIs DEF LinkedTells
<1>6. PromisedCommands(s) = SummariesTold(s) \cup U
  BY CommandsAre
<1>7. d = errors \cup U
  BY CommandsTell
<1>8. AfterInfo(s) = PromisedInstance(s) \cup PromisedConfig(s) \cup PromisedKeyspace(s)
                     \cup PromisedReplication(s) \cup PromisedCommands(s) \cup PromisedCluster(s)
  BY DEF AfterInfo
<1> HIDE DEF a, c, d, e, f, g, U, errors
<1> QED
  BY <1>1, <1>2, <1>3, <1>4, <1>5, <1>6, <1>7, <1>8 DEF BeforeInfo, EndTells

(* ... and of a Sentinel.                                                   *)
LEMMA SentinelEnds ==
  ASSUME NEW s \in Servers, IsSentinel(s)
  PROVE  AfterInfo(s) = BeforeInfo(s) \cup LinesTell(s, LineSet(s)) \cup LinkedTells(s) \cup EndTells(s)
<1> DEFINE a == LinesTell(s, ToSet(ServerLines(s)))
           b == LinesTell(s, ToSet(SentinelLines(s)))
           e == LinesTell(s, ToSet(ValkeyLines(s)))
           g == LinesTell(s, ToSet(KeyspaceLines(s)))
<1>1. LinesTell(s, LineSet(s)) = a \cup b
  BY SectionsAll
<1>2. PromisedInstance(s) = Connected(s) \cup a \cup e \cup {InstancePart(s)}
  BY InstanceIs
<1>3. PromisedKeyspace(s) = g \cup Padding(s)
  BY KeyspaceIs
<1>4. PromisedWatched(s) = b
  BY WatchedIs
<1>5. ~ IsValkey(s) /\ s.role = "" /\ s.cluster = "off" /\ s.keyspace = <<>> /\ s.masters = <<>>
  BY TypesOf DEF Consistent, IsSentinel, IsValkey
<1>6. e = {}
  BY <1>5, ValkeyTells
<1>7. g = {}
  <2> DEFINE K == ToSet(s.keyspace)
  <2>1. g = UNION {DbPart(s, k.db, k) : k \in K}
    BY KeyspaceTells
  <2>2. K = {}
    BY <1>5, TupleSets
  <2> HIDE DEF K
  <2> QED
    BY <2>1, <2>2
<1>8. ClusterPart(s) = {}
  BY <1>5 DEF ClusterPart
<1>9. SummariesTold(s) = {}
  <2>1. TimedCommands(s) = {}
    BY DEF TimedCommands, CommandsOf
  <2> QED
    BY <2>1 DEF SummariesTold
<1>10. ToSet(s.masters) = {} /\ DOMAIN s.masters = {}
  <2>1. DOMAIN <<>> = {}
    OBVIOUS
  <2> QED
    BY <1>5, <2>1, ToSetEmpty
<1>11. LinkedTells(s) = {}
  BY <1>10, LinksAre DEF LinkedTells
<1>12. SlaveInfoPart(s) = {}
  BY <1>10 DEF SlaveInfoPart
<1>13. AfterInfo(s) = PromisedInstance(s) \cup PromisedConfig(s) \cup PromisedKeyspace(s) \cup PromisedWatched(s)
  BY DEF AfterInfo
<1> HIDE DEF a, b, e, g
<1> QED
  BY <1>1, <1>2, <1>3, <1>4, <1>6, <1>7, <1>8, <1>9, <1>11, <1>12, <1>13 DEF BeforeInfo, EndTells

(* The end of INFO.                                                         *)
LEMMA InfoEndStep ==
  ASSUME IInv, InfoEnd
  PROVE  IInv'
<1> DEFINE s == server
           first == exporter
           second == FoldLeft(Summarised, first, SetToSeq(cmdLatencies))
           third == FoldLeft(Padded, second, [i \in 1 .. dbCount |-> i - 1])
           fourth == InstanceInfo(third)
           fifth == SlaveInfo(fourth)
<1>1. /\ pc = "info" /\ at > Len(Lines[server]) /\ Becomes(fifth)
      /\ pc' = "latency" /\ at' = 1
      /\ fieldClass' = "" /\ masterHost' = "" /\ masterPort' = ""
      /\ keyValues' = <<>> /\ handledDBs' = {} /\ cmdTotals' = <<>> /\ cmdLatencies' = {}
      /\ UNCHANGED <<instanceRole, server, scrapes, settings, dbCount>>
  BY DEF InfoEnd
<1>2. Types /\ Fit(exporter) /\ RoleTold /\ server \in Servers /\ appendRole' = appendRole
  BY <1>1 DEF IInv, Types, Becomes
<1>3. /\ ToSet(samples) = BeforeInfo(server) \cup UNION {LineTells(server, i) : i \in 1 .. at - 1}
      /\ dbCount = Databases(server) /\ Reading
  BY <1>1 DEF IInv, CollectedEarly
<1>4. FieldRead /\ CommandRead /\ Past = LineSet(server) /\ at - 1 = Len(Lines[server])
  BY <1>1, <1>2, <1>3, EndRead
<1>5. InstanceValues
  BY <1>2, <1>4, EndFields DEF InstanceValues
<1>6. /\ handledDBs = {d.db : d \in {e \in ToSet(server.keyspace) : e.whole}}
      /\ DOMAIN cmdTotals = {c.cmd : c \in CommandsOf(server)}
      /\ \A c \in CommandsOf(server) : cmdTotals[c.cmd] = TotalsOf(c)
      /\ cmdLatencies = LatenciesOf(server)
  BY <1>2, <1>4, EndCommands
<1>7. Adds(first, second, SummariesTold(s))
  BY <1>2, <1>6, SummariesTell
<1>8. dbCount \in Nat
  BY <1>2 DEF Types
<1>9. Adds(second, third, Padding(s))
  <2>1. Adds(second, third, UNION {EmptyPart(server, n) : n \in (0 .. dbCount - 1) \ handledDBs})
    <3> HIDE DEF second
    <3> QED
      BY <1>2, <1>8, PaddingTells
  <2>2. UNION {EmptyPart(server, n) : n \in (0 .. dbCount - 1) \ handledDBs} = Padding(s)
    BY <1>3, <1>6 DEF Padding
  <2> HIDE DEF second, third
  <2> QED
    BY <2>1, <2>2
<1> HIDE DEF second, third
<1>10. Adds(third, fourth, {InstancePart(s)})
  BY <1>2, <1>5, InstanceTells
<1> HIDE DEF fourth
<1>11. Adds(fourth, fifth, SlaveInfoPart(s))
  BY <1>2, <1>5, SlaveTells
<1> HIDE DEF fifth, first
<1>12. Adds(first, third, SummariesTold(s) \cup Padding(s))
  BY <1>7, <1>9, AddsThen
<1> DEFINE A == SummariesTold(s) \cup Padding(s)
           B == A \cup {InstancePart(s)}
<1> HIDE DEF A
<1>13. Adds(first, third, A)
  BY <1>12 DEF A
<1>14. Adds(first, fourth, B)
  BY <1>10, <1>13, AddsThen
<1> HIDE DEF B
<1>15. Adds(first, fifth, B \cup SlaveInfoPart(s))
  BY <1>11, <1>14, AddsThen
<1>16. B \cup SlaveInfoPart(s) = EndTells(s)
  BY DEF A, B, EndTells
<1>17. Adds(exporter, fifth, EndTells(s))
  BY <1>15, <1>16 DEF first
<1>18. Grows(EndTells(s))
  BY <1>1, <1>2, <1>17, BecomesGrows
<1>19. ToSet(samples)' = AfterInfo(s)
  <2>1. ToSet(samples) = BeforeInfo(s) \cup (LinesTell(s, LineSet(s)) \cup LinkedTells(s))
    BY <1>2, <1>3, <1>4, AllLinesTell DEF LinkedTells
  <2>2. AfterInfo(s) = BeforeInfo(s) \cup LinesTell(s, LineSet(s)) \cup LinkedTells(s) \cup EndTells(s)
    BY <1>2, ServerEnds, SentinelEnds
  <2> QED
    BY <1>18, <2>1, <2>2 DEF Grows
<1>20. InitReader'
  BY <1>1 DEF InitReader
<1>21. settings = {}
  BY <1>1, <1>2 DEF Types
<1>22. Types'
  <2>1. Types /\ pc # "idle" /\ UNCHANGED <<appendRole, instanceRole, server, scrapes>>
    BY <1>1, <1>2
  <2>2. pc' = "latency" /\ pc' \in PCs \ {"idle"}
    BY <1>1 DEF PCs
  <2>5. at' = 1
    BY <1>1
  <2>4. at' \in Nat \ {0} /\ at' = 1
    BY <2>5
  <2>3. dbCount' \in Nat /\ settings' = {}
    BY <1>1, <1>8, <1>21
  <2> QED
    BY <1>20, <2>1, <2>2, <2>3, <2>4, TypesStay
<1>23. AfterInfo(server)' = AfterInfo(server)
  BY <1>1, <1>2, WholeStays
<1>24. CollectedEarly' /\ CollectedLate'
  BY <1>1, <1>19, <1>23 DEF CollectedEarly, CollectedLate
<1> QED
  BY <1>18, <1>22, <1>24 DEF IInv, Grows

(* Every step keeps the invariant.                                          *)
LEMMA InvStep ==
  ASSUME IInv, [Next]_vars
  PROVE  IInv'
<1>1. CASE \E s \in Servers : Begin(s)
  BY <1>1, BeginStep
<1>2. CASE \E key \in settings : ConfigEntry(key)
  BY <1>2, ConfigEntryStep
<1>3. CASE ConfigOver
  BY <1>3, ConfigOverStep
<1>4. CASE ClusterInfo
  BY <1>4, ClusterInfoStep
<1>5. CASE InfoLine
  BY <1>5, InfoLineStep
<1>6. CASE InfoEnd
  BY <1>6, InfoEndStep
<1>7. CASE Latency
  BY <1>7, LatencyStep
<1>8. CASE SlowLog
  BY <1>8, SlowLogStep
<1>9. CASE CommandLog
  BY <1>9, CommandLogStep
<1>10. CASE SentinelMaster
  BY <1>10, SentinelMasterStep
<1>11. CASE SentinelOver
  BY <1>11, SentinelOverStep
<1>12. CASE Client
  BY <1>12, ClientStep
<1>13. CASE ClientsOver
  BY <1>13, ClientsOverStep
<1>14. CASE Modules
  BY <1>14, ModulesStep
<1>15. CASE SearchIndexes
  BY <1>15, SearchIndexesStep
<1>16. CASE Over \/ UNCHANGED vars
  BY <1>16, StutterStep DEF Over
<1> QED
  BY <1>1, <1>2, <1>3, <1>4, <1>5, <1>6, <1>7, <1>8, <1>9, <1>10, <1>11, <1>12, <1>13, <1>14,
     <1>15, <1>16 DEF Next

(* At every moment of every scrape, what has been collected is what the     *)
(* parts read so far promise, and the reader of INFO remembers what the     *)
(* lines read so far said.                                                  *)
THEOREM CollectedCorrect == Spec => []IInv
BY InitInv, InvStep, PTL DEF Spec

(* Every variable keeps its type.                                           *)
THEOREM InstanceTypeCorrect == Spec => []TypeOK
<1>1. IInv => TypeOK
  <2> SUFFICES ASSUME IInv PROVE TypeOK
    OBVIOUS
  <2>1. Types /\ samples \in Seq(ToSet(samples)) /\ Sampled(ToSet(samples)) /\ lost = {}
    BY DEF IInv, Fit, exporter
  <2>2. \A i \in DOMAIN samples : DOMAIN samples[i] = {"metric", "labels", "value"}
    BY <2>1 DEF Sampled, ToSet
  <2> QED
    BY <2>1, <2>2 DEF Types, Keys, TypeOK
<1> QED
  BY <1>1, CollectedCorrect, PTL

(* Whatever servers were scraped before, no sample is dropped for labels    *)
(* that are not as many as its values, and no description is missing.       *)
THEOREM NothingLostCorrect == Spec => []NothingLost
<1>1. IInv => NothingLost
  BY DEF IInv, Fit, exporter, NothingLost
<1> QED
  BY <1>1, CollectedCorrect, PTL

(* A scrape that is done has exported all that is promised of its server,   *)
(* and nothing else: neither something of the server scraped before, nor of *)
(* another master, replica, command or client under the labels of one; a    *)
(* scrape that gave up has exported a part of it.                           *)
THEOREM ExportsTheServerCorrect == Spec => []ExportsTheServer
<1>1. IInv => ExportsTheServer
  BY DEF IInv, CollectedEarly, CollectedLate, ExportsTheServer
<1> QED
  BY <1>1, CollectedCorrect, PTL

=============================================================================
