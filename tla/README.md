# A TLA+ development of the Redis exporter

`upstream/` is redis_exporter: one Go process that answers HTTP requests for
Prometheus metrics by asking a Redis (Valkey, Sentinel, Tile38, cluster)
instance at the moment of the request. This directory models the parts of it
whose behaviour depends on order, on concurrency or on failure, checks them
with TLC on small instances and proves the central facts with TLAPS.

## 1. Inventory

| Component | State it keeps | Operations | Hard behaviour | What makes it correct |
|---|---|---|---|---|
| Scrapes and handlers (`exporter.go`, `http.go`, `redis.go`) | an `Exporter`: mutex, options (with `PasswordMap`), `instanceRole`, counters | `/metrics`, `/scrape`, `/-/reload`, `/discover-cluster-nodes` | requests run concurrently; `/scrape` copies the options without the mutex; a failover or an edit of the password file at any moment; every command may fail | a scrape is atomic to the others, labels are its own INFO's, `up` tells the truth, connections are closed, every request is answered |
| Key list (`keys.go`) | lists local to the scrape | SELECT, SCAN in many calls, grouping by database | keys come and go between calls; empty and repeated replies; one pattern fails | no stable key is missed, none is listed for another database |
| Pipelined key sampling (`keys.go`) | the connection's request and reply streams | two batches of requests, replies matched by position only; counts follow on the same connection | error replies skipped with `continue`; writes between the batches; the connection breaks anywhere | each sample is of the key and database in its labels; no reply is left behind |
| Sequential key sampling (`keys.go`, cluster) | none | one command at a time | keys change between commands | the same promise as the pipelined path |
| Key groups (`key_groups.go`) | sums by group | SELECT, script per SCAN batch, fold beyond a limit | keys come and go; a script fails; the cut | nothing lost or counted twice, the largest keep their names |
| Streams (`streams.go`) | none | XINFO in several commands | groups and consumers come and go between them; one command of several fails | nothing is exported that was not so during the scrape; a stream that keeps its groups is not lost |
| INFO parser (`info.go`, `tls_info.go`, `scripting_engines.go`) | maps and the master's address, local to one call | a pass over the lines, then summaries, padding, `instance_info` | depends on the order of lines and sections; several masters; fields that not every server has; sections that repeat another command's answer | a scrape exports what its server is, each fact once and under its own labels |
| Metric descriptions (`metrics.go`) | a cache of descriptions and of their labels in the `Exporter` | lookup, rebuild, pairing of label values | labels that change at runtime, from one line or one scrape to the next | no sample is dropped, nor labelled with an older description |
| Sentinels, clients, latency, slow log, command log, modules, search indexes, RDB size | none | one or a few commands each | a command about one master, client or index fails; the labels depend on the line | what answered is exported, a failure stays with its own part |
| Process (`main.go`, `tls.go`) | server, signal channel, certificate and key files | start, listen, handshake, drain, exit | a signal at any moment; a drain that times out; the key pair is renewed in two writes | an accepted request is answered, nothing is under way at a regular exit, a renewed pair is in force |
| Cluster nodes, Tile38 | none | one command each | little | parsers of one reply; see section 7 |

How they interact: `ServeHTTP` checks basic auth and dispatches; `/metrics`
and `/scrape` end in `Collect`, which holds the object's mutex while
`scrapeRedisHost` connects, asks INFO and CONFIG, samples keys, counts, streams
and key groups over one connection (in cluster mode over a second one), and runs
the scripts; samples leave through `registerConstMetric`, which reads
`instanceRole` back. A reload replaces `PasswordMap` under the same mutex. `main()` runs the
HTTP server that calls `ServeHTTP` and drains it when a signal comes.

## 2. Modules

| Module | Stands for | Extends / instantiates |
|---|---|---|
| `RedisKeys` | what `keys.go` relies on of the server's replies and redigo's conversions (external, modelled from its use) | |
| `KeySample` | abstract: every exported sample is something that key of that database really was during the scrape, and no value without a size | `RedisKeys` |
| `KeyPipeline` | `extractCheckKeyMetricsPipelined`, `getKeyInfoPipelined`, `extractCountKeysMetrics` | `RedisKeys`; implements `KeySample` |
| `KeySequential` | `extractCheckKeyMetricsNotPipelined`, `getKeyInfo`, `getStringInfoNotPipelined` | `RedisKeys`; implements `KeySample` |
| `KeyList` | `getKeysFromPatterns`, `scanKeys`, grouping by database, `getKeysCount` | |
| `KeyGroups` | `gatherKeyGroupsMetricsForAllDatabases`, `gatherKeyGroupMetrics` and its script, `extractKeyGroupMetrics` | |
| `StreamInfo` | `extractStreamMetrics`, `getStreamInfo` and the XINFO commands under it, `registerStreamMetrics` | |
| `ScrapeSerial` | abstract: a scrape of `/metrics` is one atomic step | |
| `Exporter` | `ServeHTTP` and the handlers, `Collect`, `scrapeRedisHost`, connecting, `LoadPwdFile` | implements `ScrapeSerial` |
| `Process` | `main()` from its checks to its end, the goroutine that listens, handshakes with a key pair that is renewed, `Shutdown` | extends `Exporter`, whose handlers are its requests; so implements `ScrapeSerial` |
| `MetricDescriptions` | the table of `NewRedisExporter` (metrics in groups of the same labels), `createMetricDescription`, `registerConstMetric`, `registerConstSummary`, `registerConstHistogram` | |
| `InfoText` | what a server answers to INFO ALL, as lines, the shape of its other answers, and what is assumed of servers (external) | |
| `InfoMetrics` | `extractConfigMetrics`, `extractRdbFileSizeMetric`, CLUSTER INFO, `extractInfoMetrics` with its handler for each section | `MetricDescriptions`, `InfoText` |
| `InstanceCommands` | `extractLatencyMetrics`, `extractSlowLogMetrics`, `extractCommandLogMetrics`, `extractModulesMetrics`, `extractSearchIndexesMetrics` | `InfoMetrics` |
| `InstanceMetrics` | `extractSentinelMetrics`, `extractSentinelConfig`, `parseConnectedClientMetrics`; the whole scrape and what it promises | `InstanceCommands` |
| `KeyPipelineProofs`, `KeySequentialProofs`, `KeyListProofs`, `KeyGroupsProofs`, `StreamInfoProofs`, `InstanceMetricsProofs` | the theorems about the module of that name | that module |
| `ExporterProofs` | the theorems about `Exporter` and, at its end, about `Process` | `Process` |
| `SequenceFacts` | lemmas the other proofs share: the elements of sequences, sums over finite sets, induction over numbers and finite sets | |
| `MC...` | instances for TLC | one per module |

### Correspondence with the code

*KeyPipeline.* `log` is the sequence of requests sent on the connection,
`flushed` how many have been shipped, `answers` the replies the server has made
and `nread` how many were received: redigo matches replies to requests by
position alone, and so does the model. `Serve` runs the oldest request the server
has not run, in the database `sel`; a reply remembers the database, key and kind
of value it was computed from, so a sample can be compared with its labels.
`todo` is what the range loop over the map has left (any order), `idx` the index
of the loop at hand, `types` is `keyTypes`. An error reply or a closed connection
takes the branch the code takes: `continue`, `return` or the next command.
`Do` (`CountDo`, `AllDue`, `DoFails`) flushes, reads every reply that is due and
reports the first error among them. `ClientWrite` changes the kind of value under
a key at any moment. `seen`, `base` and `slot` are auxiliary: the kinds a key has had
since the scrape began, and where in `log` the current batches start. Values of
one type with one length command stand for all such types; an empty string value
(which exports no `key_value_as_string`) is not a kind of its own.

*KeySequential* has the same cells, but each command is one atomic `Do`; `typ` and
`val` are the replies kept in local variables while the keys change.

*KeyList.* `owed` is what the server's SCAN still has to return: a key that has
been there since the first call must be returned before the cursor is 0, others
may be, and any of them twice. `always` and `ever` are auxiliary: the keys a database
had all along, and at any time. `skipped` records which entry failed with which command.

*KeyGroups.* One run of the script is atomic (`RunScript`), two runs are not. The fold
beyond `MaxDistinctKeyGroups` is `MetricsOf`, with the order of `sort.Slice` in
`Before`. `returned` is auxiliary, the keys of all batches.

*StreamInfo.* Each XINFO is one atomic command; `names` is the answer to XINFO GROUPS and `members` the
slice `result` that grows with one XINFO CONSUMERS for each of them. A stream is a map from the names of its groups
to their consumers and their `nacked-count`; a key that is no stream is `Absent`, because XINFO refuses both. FULL may answer and
still have no count for a group: an entry without the field has `NoCount` (servers before 8.8 know FULL but not the field; the tests
also have such a group beside one with a count), and an entry with an empty name is left out, so `parseStreamGroupNackedCounts` checks each entry as the code does, and
`NackedCounts` then looks up the groups that XINFO GROUPS named. An answer that does not parse is an error of FULL. `seen` and `lost` are auxiliary: what a stream has
been since the scrape began, and the streams that lost a group. The list of streams is a constant, the
connection starts in any database: `KeyList` models how the list is made.

*Exporter.* `pc[r]` says where the goroutine of request `r` is; each action is what it does
between two points where another goroutine can be seen to act. `passwordMap` and
`instanceRole` are fields by object: `Main`, and one object for each `/scrape`,
built from a copy of `Main`'s options. Versions of the file stand for its content.
`addressed` tells whether the main object has an address to scrape (`--redis.addr=` leaves it empty, for `/scrape` only):
without one `Collect` takes and releases the mutex and reports neither `up` nor an error. The samples of an extractor are one metric name. `used` records the maps a request
looked its passwords up in and `overlapped` the reloads that ran at the same time as
another; both are auxiliary.

*Process.* `main` is where `main()` is, `listener` the goroutine beside it, `conn[r]` the client's
connection of request `r`: `Accept` opens it, with TLS after a handshake (`ReadCert`, `ReadKey`: the two reads of
`LoadX509KeyPair`), and `Served` is any step of the request's handler in `Exporter`. `Signal` ends the process at once
unless `signal.Notify` has run; then it closes the listener and `Shutdown` waits (`InFlight`) for handlers and
for connections that have sent no request, the latter for five seconds (`CloseNew`). `Drained` is its return,
`DrainTimeout` its error after ten seconds, which ends in `log.Fatalf`: `Kill`, like every other `log.Fatal`. Time is not
modelled: the timeout may strike at any moment of the drain. A certificate fits the key of the same version only.
`inForce` and `outdated` are auxiliary.

*MetricDescriptions, InfoMetrics, InstanceCommands, InstanceMetrics.* A server is a record, and `InfoAll` makes it the lines it sends.
`pc` is the part of `scrapeRedisHost`, `at` the loop's position; each action is one line of INFO (by section, as the
`switch` on `fieldClass` decides), one entry of CONFIG (in any order, it is a map), one master of a Sentinel, one
client, or one of the smaller extractors. The loop's variables keep their names; `cmdTotals` is `cmdCount` with
`cmdSum`, and of `keyValues` only what is read again is kept. `descriptions` outlives the scrape, as in the code, and `samples` pairs
the values with the labels of the description at that moment, so a description of other labels
shows. `lost` records what `NewConstMetric` refuses and what would panic. Metrics that are told in the same way and differ in name only are one
(three of `config_*`, one of the clients' counters, one of the search index's); labels that no property tells apart are left out; milliseconds
are whole seconds. `InclMetricsForEmptyDatabases` and the options that add an extractor are on; `ConfigCommandName` is
not `-`. INFO and its own failures are in `Exporter`. A command of a server that fails is its answer `Denied`.

## 3. Runs

| Run | Instance | Checks |
|---|---|---|
| `KeyPipelineClean` | two databases with two and one keys, all kinds of value, one write, the connection may break | `TypeOK`, `Attributed`, `Aligned`, `CleanHandOver`, `EveryKeyExported`, refinement `SampleSpec` |
| `KeyPipelineErrors` | three databases, one of them missing, one key denied, one write, breaks | `ReplyDue`, `CountedInItsDb`, liveness `Terminates` |
| `KeyPipelineDenied` | three keys, the first denied | finds `MemoryOfItsKey` violated |
| `ExporterSerial` | two scrapes of `/metrics` with two reloads, a `/scrape` with a reload, a discovery with either; two edits of the file, one malformed; one failover; with and without an address; basic auth, scripts, cluster mode | `TypeOK`, `InOrder`, `RoleOfItsInfo`, `ReloadHolds`, `UpTellsInfo`, `NoConnectionLeft`, refinement `SerialSpec` |
| `ProcessAnswers` | a scrape of one client and a reload of another, in a process with TLS, two renewals, an edit of the file, a signal at any time; basic auth, scripts, cluster mode | `DrainedBeforeExit`, `RenewalInForce`, liveness `AcceptedAnswered` |
| `ExporterPassword` | a scrape and a reload with `--redis.password` set | finds `PasswordTakesPrecedence` violated |
| `KeySequentialClean` | three keys, one denied, one write, any command may fail | `TypeOK`, `EveryKeyExported`, refinement `SampleSpec` |
| `KeyListScan` | two databases, overlapping patterns, a single key and a plain key, one write, failures, then a count | `TypeOK`, `ScannedKeysListed`, `SinglesListed`, `OnlyKeysOfTheirDb`, `GroupedFaithfully`, `CountsEveryKey` |
| `KeyGroupsClean` | two databases, one of them missing; four keys in three groups, limit two; one write, failures | `TypeOK`, `NothingLost`, `LargestByName`, `StableKeysCounted` |
| `StreamInfoClean` | one name in two databases and in a missing one; three groups, one of them without a name, with and without a `nacked-count` that changes; one consumer; two writes, any command may fail | `TypeOK`, `NothingInvented`, `KeptStreamsExported`, `NackedIfFull` |
| `InstancePairs` | 57 servers, any two of them after each other, with and without the role label | `TypeOK`, `ExportsTheServer`, `ExportedOnce`, `NothingLost` |
| `KeyGroupsDenied` | one key MEMORY USAGE is refused for | finds `MemoryOfItsKeys` violated |

Every property of a passing run has a mutant of the code that breaks it
(`PROJECT.json`); the mutated definitions stand beside the real ones.

### Bounds

`InitStores`, `InitContents`, `WriteKinds`, `Written`, `MaxWrites`, `MaxReply`, `MaxCalls`, `MaxEdits` and
`MaxFailovers` bound the environment. One write is enough to separate the batch that asks for
a type from the batch that uses it, because what a key is at either moment is all a
sample depends on; two calls of SCAN (`MaxCalls`) of at most two keys (`MaxReply`) are a first one, which may be empty, and a
last one, which may repeat a key of the first; two writes to a stream (of contents in `Written`) take a group away and bring one back, or change a count twice; two edits are enough for an old, a new and a malformed file; one failover
separates two INFOs. Two requests of a kind are the least that can interleave.
A SCAN that would go on past `MaxCalls` is not followed (`Bounded`).

In `ExporterSerial` the requests run in groups (`GroupInit`): those that share a mutex, and a `/scrape` or a discovery, which
share nothing but what they copy, beside one of them; the other requests have been refused before, which is a state
`Unauthorized` leads to. The role starts as master: the failover makes it slave.

In `ProcessAnswers` a renewal is two writes, between which a handshake may read a pair that does not fit or begin with
the old one; during the second (`MaxRenewals`) it may hold a certificate of any age. The role is fixed (`MasterInit`): `ExporterSerial` is about
failovers, and about scrapes at once. Each client (`TwoClients`) sends one request; a scrape that kept the mutex would
leave the reload without an answer.

In `InstancePairs` a scrape depends on the ones before only through `descriptions`, so two (`MaxScrapes`) in any order are what can go wrong.
The servers are slices around one with nothing unusual: what differs in one slice does not meet what
differs in another, because they are read by different lines. `DefaultDatabases` is 2 where the code has 16.

### Fairness

Only two runs assume any. `KeyPipeline!FairSpec`: the exporter's goroutine is scheduled, and
the server answers what was flushed to it unless the connection breaks; a reply that does
not come within the read timeout is `Break`, because redigo closes the connection then.
`Process!FairProcess`: every handler's goroutine is scheduled and its commands end by their timeout (weak fairness of `Served`);
a goroutine waiting for the mutex obtains it if it keeps becoming free, which Go's
`sync.Mutex` ensures by handing a starved waiter the lock in order (strong fairness of the steps that lock, of the
requests that share a mutex); `Shutdown` polls its connections until none is left. No fairness is
assumed of clients, handshakes, signals, `main()`'s first steps, edits, renewals, failovers, writes or failures: the process may never
be told to stop, and the drain may time out. `AcceptedAnswered` then says that every connection that was
opened is answered or cut by the end of the process, and that no drain lasts for ever.

## 4. Findings

* `keys.go:199` (`KeyPipelineDenied`): an error reply to TYPE, which an ACL that hides one key
  gives, leaves its MEMORY USAGE reply unread; from there on replies are one behind. The same
  happens to a whole batch when SELECT fails (line 186): the sizes of a later database are
  then those of the earlier request. Without such replies `Attributed` holds, and is proved;
  the counts that follow are right in any case (`CountsCorrect`), because `Do` reads all that is due.
* `http.go:178` (`ExporterPassword`): `/-/reload` puts the password file in force even with
  `--redis.password`, which README.md:268 rules out and main.go:247 avoids at start.
* `key_groups.go:178` (`KeyGroupsDenied`): the script does not reset `usage`.

Read in the code and listed among the hazards, but not stated as properties.
Three of them the models contain; no document, comment or test says what should happen there, so the properties state what the code does, or leave the case out: of two overlapping reloads
the older file may win (`http.go:171`; `ReloadHolds` speaks of the others), an index dropped meanwhile ends the loop over the search indexes (`search_indexes.go:61`)
and a failed CLUSTER INFO leaves the padding to the number CONFIG told (`exporter.go:928`; `ExportsTheServer` promises what the code exports in both cases).
The others: the two key paths
differ for missing keys, a sample of a failed scrape carries the previous scrape's role, keys that
SCAN returns twice are counted twice, a group that is itself called `overflow` is exported twice,
the sum of a latency histogram is 0 for a command with other characters in its name than letters, digits and `|` (`latency.go:17`),
a client whose name contains `=` is not listed (`clients.go:60`), an error of SENTINEL SENTINELS counts as one Sentinel
up and of SENTINEL SLAVES as no replica up (`sentinels.go:96`), the TLS minimum does not reach the
configuration that is used with a CA file (`tls.go:99`).

## 5. Proofs

`KeyPipelineProofs` proves, for any databases, keys, lists, contents, writes and failures of
the connection (assumptions: `RedisKeysAssumption` and `PipelineAssumption`, the types of the
constants):

* `TypeCorrect`: `Spec => []TypeOK`, which contains that `nread <= Len(answers) <= flushed <= Len(log)`.
* `CountsCorrect`: `Spec => []CountedInItsDb`, errors and all. `CountedInItsDb` alone is not
  inductive: it needs that the last request is the SELECT (or the SCAN) of the pattern at hand and
  that its reply, once made, either failed or left `sel` at that database (`CountsInStep`).
* `ReplyDueCorrect`: `Spec => []ReplyDue`, errors and all. It says nothing of how much the send loop requested, so the
  inductive invariant `Room` does: at each point of both batches there are at least as many flushed replies
  ahead of `nread` as the rest of the loop takes (`InfoSlots` sums them up through `slot`). Errors only make the
  exporter read less than it requested.
* `AlignedCorrect`: under `NoErrors` (every database exists, every key is readable), `Spec => []Aligned`: on the server's
  side each reply is at the position of its request and was
  computed in the database the request was meant for (`ServedInOrder`, `RequestsInDb`); on the
  exporter's side `Position` says where in `log` both batches are and that `nread` points at
  the reply the loop expects next, and `TypesOfKeys`, `RepliesOfKey` that what was taken
  belongs to the key at that index. TLC checks `Aligned` first, as an invariant of `KeyPipelineClean`.
  `AttributionCorrect` (`[]Attributed`) and `HandOverCorrect` (`[]CleanHandOver`) follow.
* `PipelineHonest`: under `NoErrors`, `Spec => SampleSpec`: the pipelined path implements `KeySample`. To `Aligned` the
  invariant `Grounded` adds what the replies say: every answer, and every reply the loops have kept, is what its
  command would say of a kind the key has had (`AnswersTold`, `TypesTold`, `InfoTold`). `ReceiveMemory`,
  `EmitInfo` and `CountEmit` are the abstract `Export`, a write is a write, the rest stutters.
* `PipelineExportsAll`: under `NoErrors`, `Spec => []EveryKeyExported`. The invariant `Progress`, which holds as long as the
  connection does, says how far the samples have come: databases that are done (`Visited`), keys whose memory has been taken
  (`MemoryProgress`), keys whose size has (`SizeProgress`), and that no reply taken is an error's substitute.

`NoErrors` is the condition under which the claims are true: `KeyPipelineDenied` shows what an ACL does to them.

`KeySequentialProofs` proves the same of the path for clusters, with no condition at all, since each command is one `Do`:

* `SequentialTypeCorrect` and `SequentialHonest`: `Spec => []TypeOK` and `Spec => SampleSpec`; the invariant is again that what
  local variables hold was told of a kind the key has had.
* `SequentialExportsAll`: `Spec => []EveryKeyExported`, by how far the loop has come (`Progress`).

`KeyListProofs` proves, for any patterns, lists, contents, any number of calls of SCAN and any writes and failures (assumption:
`KeyListAssumption`, with finitely many keys, so that a count is a number):

* `KeyListTypeCorrect`, `ScannedKeysCorrect`, `SinglesCorrect`, `OnlyOwnKeys`, `KeysCountCorrect`: `Spec => []P` for `TypeOK`,
  `ScannedKeysListed`, `SinglesListed`, `OnlyKeysOfTheirDb` and `CountsEveryKey`. The inductive invariant, `KeyListInv`, is about
  the scan under way (`ScanCovers`: a key that was there all along and is not owed any more has been returned, and what was
  returned was there) and the entries of the list that are done (`ListBuilt`).
* `GroupedCorrect`: `Spec => []GroupedFaithfully`. `keysByDb` is a fold over the list; that it puts the i-th pair behind
  those of its database before is proved by induction over the list (`GroupByDbGroups`).

`KeyGroupsProofs` proves, for any keys, groups, patterns, limit, writes, failures and any number of batches (assumption:
`KeyGroupsAssumption`, with finitely many keys):

* `TypeCorrect`, `FoldLosesNothing`, `LargestNamed`, `StableCounted`: `Spec => []P` for `TypeOK`, `NothingLost`,
  `LargestByName` and `StableKeysCounted`. None of them is inductive, as they say of what is exported what is true of the sums
  before. The inductive invariant, `GroupsInv`, says that `allGroups` is the tally of the keys returned so far
  (`Tally`: each group's count and, when nothing is refused, its memory, no other groups, and a total that is the number of
  keys), that a key there all along is returned or still owed (`ScanSoFar`), and that each export was made of such a tally (`Told`).
* That a batch preserves `Tally` (`TallyBatch`) is an induction over its keys, since the script folds `Classify` over them; that the exported
  counts add up (`MetricsTotal`) is arithmetic of sums over disjoint sets; that exactly
  `MaxDistinctKeyGroups` groups keep their names (`FirstCardinality`) is that `sort.Slice`'s order is total: positions are distinct
  numbers below the number of groups, so all of them are taken.

The induction theorems of the library take an operator, which the provers cannot instantiate. `SequenceFacts` has instead a principle about
a set of numbers (`NumberInduction`, from the library's well-founded minimum) and one about a set of subsets (`SetInduction`).
With them the folds and sums of the community modules, which are CHOOSE of a recursive function, can be reasoned about: that the function exists
(`SumExists`, `BatchExists`, `GroupExists`) is the first induction.

`StreamInfoProofs` proves, for any streams, groups, consumers, writes and failures (assumption: `StreamInfoAssumption`, with
finitely many names of groups):

* `StreamTypeCorrect`, `NothingInventedCorrect`, `KeptStreamsCorrect`, `NackedCorrect`: `Spec => []P` for `TypeOK`, `NothingInvented`,
  `KeptStreamsExported` and `NackedIfFull`. The inductive invariant, `StreamInfoInv`, says of the answers kept between commands
  (`names`, `members`, `nacked`) that each was so of this stream at some moment, that a group that is never lost is in all of them, and that
  after FULL a group that had a count all along has one. `NackedIfFull` is about both halves of the check of an entry: the
  count exported was told by that group's own entry, and no entry without field or name leads to one.

`ExporterProofs` proves, for any set of requests of the four endpoints, any options, any edits of the
file and any failovers (assumption: `ExporterAssumption`):

* `TypeCorrect`, `RoleCorrect`, `ReportCorrect`, `ReloadCorrect`, `ConnectionsCorrect`: `Spec => []P` for `TypeOK`,
  `RoleOfItsInfo`, `UpTellsInfo`, `ReloadHolds` and `NoConnectionLeft`.
* `Implements`: `Spec => SerialSpec`. `CopyOptions` is the abstract `CopyOptions`, `StoreMap` its `Reload`, `Unlock`
  its `Answer`, every other step stutters.
* `InOrderCorrect`: the inductive invariant behind them, `InOrder`. None of the properties is inductive: that
  a sample's label is the role INFO told needs that nobody else writes `instanceRole` meanwhile, which needs `Exclusion`
  (who is in `Collect` holds the mutex); that the passwords of a scrape come from one map needs it too, since `StoreMap` waits
  for the mutex (`OneMap`, `OneRole`). `Closed` and `Reported` say what holds on each stretch of `scrapeRedisHost`; `ReloadsInOrder`
  that a map waiting to be stored is not older than one already answered for. TLC checks `InOrder` first (`ExporterSerial`).

The second part of `ExporterProofs` proves the same of the whole process, for any clients, any number of renewals, with and without TLS
(assumption: `ProcessAssumption`):

* `ProcessHandlers`: `ProcessSpec => Spec`. A step of the process is a step of the handlers or leaves their variables
  alone, so `InOrder`, `ReloadHolds` (`ProcessReload`) and the refinement of `ScrapeSerial` (`ProcessImplements`) carry over.
* `ProcessTypeCorrect`: `ProcessSpec => []ProcessTypeOK`.
* `DrainCorrect`: `ProcessSpec => []DrainedBeforeExit`. Two inductive invariants: `NoneInFlight`, a stopped process has no
  connection that `InFlight` names, and `Unhandled`, a request whose connection is not open has not begun; that no connection
  to Redis is open then follows from `InOrder`.
* `RenewalCorrect`: `ProcessSpec => []RenewalInForce`. The inductive invariant is `Fresh`: while a handshake is under way the pair to
  expect is not newer than either file, nor than the certificate that has been read.

`InstanceMetricsProofs` proves, for any set of servers, scraped in any order and any number of times, and any options (assumptions:
`InfoMetricsAssumption`, the types of the options, and `ServersAssumption`):

* `CollectedCorrect`: the inductive invariant `IInv`. `ExportsTheServer` says something of a scrape only when it is over, and
  `NothingLost` only that nothing went wrong, so neither is inductive. `IInv` has four parts. `Types` says what has which type, that
  the role the label tells is this server's (`RoleTold`) and that the variables of INFO's loop are empty outside it. `Fit` says of the
  descriptions a scrape finds that the metrics with fixed labels have these labels and every other one has labels some server could have
  led to, that nothing is lost and that each sample has its three fields. `CollectedEarly` and `CollectedLate` say at every position of every part
  that the samples are exactly what has been read so far tells of the server: each entry of CONFIG, each line of INFO, each
  master, each client. Inside INFO `Reading` says where the loop is (a line's section is the one the loop is in: `LinesAre`), which
  address the next link to a master belongs to (`MasterRead`), what `keyValues` remembers (`FieldRead`) and what the summaries
  and the padding are to be made of (`CommandRead`).
* `NothingLostCorrect`: `Spec => []NothingLost`. The invariant lets the scrapes before leave any descriptions; that a sample still meets
  labels as many as its values is because a metric whose labels vary is described again just before it is told.
* `ExportsTheServerCorrect`: `Spec => []ExportsTheServer`, and `InstanceTypeCorrect`: `Spec => []TypeOK`.

The argument has three layers. `Adds(x, y, A)` says that a step of the exporter from `x` to `y` adds the samples `A` and loses nothing; it
composes (`AddsThen`), `GaugeTells`, `SummaryTells` and `CreatedTells` prove it for the ways to tell a sample, and lemmas like `SpikesAdd` carry it through
each fold of the code (one for each fold: the provers cannot take the step as a parameter). One lemma for each action (`ReplicationGrows`, ..., `CommandLogGrows`) says what the action adds, and one
(`BeginStep`, ..., `SearchIndexesStep`) that it keeps `IInv`. The last layer is about the text: which lines INFO has, section by
section (`ServerLinesAre`, ..., `LinesAre`), and that what these lines, the summaries, the padding and `instance_info` tell together is
`Promised` (`ServerEnds`, `SentinelEnds`). `Promised` is stated of the server's data and not of its lines, so this is where a line
read under the wrong section, master or command would show.

`ServersAssumption` says what the module relies on of Redis' answers: their types (`ServerTypes`), and (`Consistent`) that a replica has masters (a server may have
them and tell another role, as an active replica of KeyDB does, for which the code exports no `slave_info`); that
INFO names no command twice, and a Sentinel no peer or replica of one master twice; that a command with a line in `latencystats` has all the
fields of its line in `commandstats`; that a Sentinel has no keyspace, no cluster and no role in INFO; that `databases`, if it is a number, is not
negative; and that SLOWLOG GET 1 answers at most one entry. Redis writes these answers from dictionaries with unique keys and from
configuration it has validated. TLC evaluates the assumption on the servers of `InstancePairs`. Sums over commands, of which a latency histogram's is
one, are compared by the same induction over finite sets as those of `KeyGroups` (`TotalIs`).

What stays with TLC: liveness (`Terminates`, `AcceptedAnswered`), because fairness and `ENABLED` are out of the prover's reach;
and `ExportedOnce`, that no metric is told twice with the same labels. It depends on names made by concatenation: the name of a database
(`DbName`, with TLC's `ToString`) and the names of the series of a summary (`CountOf`, `SumOf`); that two of them differ is a fact about
strings the provers do not have, and an assumption about these definitions would only state what TLC evaluates.
`MemoryOfItsKeys` and the other properties of the runs that expect a violation are false. Every inductive invariant
named above was checked by TLC on the instance of its module before it was proved, `Told` in the part that needs no witness and `Fit` metric by metric.

## 6. Plan

1. Done: `KeyPipeline`, `KeySequential`, `KeyList`, `Exporter` with `ScrapeSerial`, `KeyGroups`, `StreamInfo`, `Process`,
   `MetricDescriptions` to `InstanceMetrics`; the proofs of every safety property and refinement the runs check, but for `ExportedOnce`.
2. What would come next: `ExportedOnce`, with the names of databases and series as pairs instead of concatenated strings, and with it what
   `Consistent` has to say of addresses and identifiers; `Collect` of `Exporter` with `InstanceMetrics` as what its extractor does.

## 7. Not modelled

Formatting, help texts and label names; the wording of errors; the fields of INFO that go through the table of
names unchanged, but for a few; CLUSTER NODES and Tile38's SERVER EXT, parsers of a single reply which keep no state;
flags and their defaults; TLS versions, CA files and the client's side of TLS; a server that changes between two commands
of one scrape, except as `Exporter` (failover), the key modules and `Denied` have it;
`parseKeyArg` and the matching of patterns (constants); the buffer redigo flushes by itself when it is full,
which only lets the server start a batch earlier; credentials; dashboards and packaging.
A data race on the options (`/scrape` and `/discover-cluster-nodes` read them without the mutex) is modelled as
reading either the old or the new map.
