------------------------------ MODULE Exporter ------------------------------
(***************************************************************************)
(* The HTTP handlers of the exporter and the scrapes they start, running    *)
(* concurrently: ServeHTTP, Collect and scrapeRedisHost behind /metrics,    *)
(* scrapeHandler behind /scrape, reloadPwdFile behind /-/reload and         *)
(* discoverClusterNodesHandler.  They share an Exporter object: its mutex,  *)
(* its options (of which only PasswordMap ever changes) and its             *)
(* instanceRole.  A /scrape builds an Exporter of its own from a copy of    *)
(* the options.  Meanwhile the password file is edited and the Redis        *)
(* instance fails over, and any command to it may fail.                     *)
(***************************************************************************)
EXTENDS Naturals, FiniteSets

CONSTANTS
  Metrics, Scrapes, Reloads, Discovers,  \* the requests, by endpoint
  Main,             \* the Exporter object main.go builds
  Nothing,          \* no request, no map, no answer
  PasswordGiven,    \* --redis.password is set
  IsCluster,        \* --is-cluster
  AppendRole,       \* --append-instance-role-label
  SkipMaster,       \* --skip-checkkeys-for-role-master
  HasScript,        \* --script
  AuthConfigured,   \* --basic-auth-username and a password
  Malformed,        \* the versions of the password file that do not parse
  MaxEdits,         \* bound: edits of the password file
  MaxFailovers      \* bound: changes of the instance's role

Requests == Metrics \cup Scrapes \cup Reloads \cup Discovers

Objects == {Main} \cup Scrapes

\* version 0 is the empty map, version 1 the file main.go loads
Files == 1 .. MaxEdits + 1

Versions == 0 .. MaxEdits + 1

Roles == {"master", "slave"}

NoRole == ""

ASSUME ExporterAssumption ==
  /\ Metrics \cap Scrapes = {} /\ Metrics \cap Reloads = {} /\ Metrics \cap Discovers = {}
  /\ Scrapes \cap Reloads = {} /\ Scrapes \cap Discovers = {} /\ Reloads \cap Discovers = {}
  /\ Main \notin Requests
  /\ Nothing \notin Requests \cup Versions
  /\ {PasswordGiven, IsCluster, AppendRole, SkipMaster, HasScript, AuthConfigured}
       \subseteq BOOLEAN
  /\ MaxEdits \in Nat /\ MaxFailovers \in Nat
  /\ Malformed \subseteq Files \ {1}

VARIABLES
  file,          \* version of the password file on disk
  role,          \* role of the Redis instance
  failovers,     \* how often it has changed
  addressed,     \* is redisAddr of Main set? it may be empty, for /scrape only
  lock,          \* holder of each Exporter object's mutex, or Nothing
  passwordMap,   \* options.PasswordMap of each object; Nothing before it is built
  instanceRole,  \* of each object
  totalScrapes,  \* of each object
  targetErrors,  \* targetScrapeRequestErrors of Main
  pc,            \* where each request is
  told,          \* the role the INFO of this scrape told
  failed,        \* has scrapeRedisHost returned an error?
  conns,         \* the connections this request has open
  used,          \* auxiliary: the maps it looked its passwords up in
  samples,       \* the samples it sent to its metrics channel
  loaded,        \* passwordMap a reload has read from the file
  overlapped     \* auxiliary: the reloads that ran at the same time as another one

shared == <<lock, passwordMap, instanceRole, totalScrapes, targetErrors>>
scrape == <<told, failed, conns, used, samples>>
reload == <<loaded, overlapped>>
world == <<file, role, failovers, addressed>>
vars == <<world, shared, pc, scrape, reload>>

PCs == {"start", "lock", "connect", "info", "config", "extract", "keyconn", "keys",
        "rest", "script", "return", "unlock", "store", "nodes", "ok", "error"}

InCollect == {"connect", "info", "config", "extract", "keyconn", "keys", "rest",
              "script", "return", "unlock"}

MetricNames == {"connect_time", "config", "info", "check_keys", "key_groups", "script_ok", "script_error",
                "last_scrape_ok", "last_scrape_error", "up", "down"}

\* the Exporter whose Collect the request runs
object(r) == IF r \in Scrapes THEN r ELSE Main

\* a /scrape without a target is refused
Addressed(r) == object(r) = Main => addressed

-----------------------------------------------------------------------------
UnlockedAlways(o) == TRUE

Unlocked(o) == lock[o] = Nothing

ReleaseUnlessFailed(r) == lock' = IF failed[r] THEN lock
                                  ELSE [lock EXCEPT ![object(r)] = Nothing]

Release(r) == lock' = [lock EXCEPT ![object(r)] = Nothing]

Goto(r, label) == pc' = [pc EXCEPT ![r] = label]

(* registerConstMetric: every sample carries the object's instanceRole, but *)
(* for the time the connection took.                                        *)
Sampled(r, m) ==
  [metric |-> m,
   label |-> IF AppendRole /\ m # "connect_time" THEN instanceRole[object(r)] ELSE NoRole]

Emit(r, ms) == samples' = [samples EXCEPT ![r] = @ \cup {Sampled(r, m) : m \in ms}]

(* configureOptions: the password of a new connection is looked up in the   *)
(* object's map; used records in which.                                     *)
Connected(r, c) == /\ conns' = [conns EXCEPT ![r] = @ \cup {c}]
                   /\ used' = [used EXCEPT ![r] = @ \cup {passwordMap[object(r)]}]

(* The deferred Close calls of scrapeRedisHost.                             *)
CloseMain(r) == conns' = [conns EXCEPT ![r] = @ \ {"main"}]

Close(r) == conns' = [conns EXCEPT ![r] = {}]

(* An error scrapeRedisHost returns at once.                                *)
FailSilently(r) == UNCHANGED failed /\ Goto(r, "return")

Fail(r) == failed' = [failed EXCEPT ![r] = TRUE] /\ Goto(r, "return")

-----------------------------------------------------------------------------
Begin(calls) ==
  /\ file = 1 /\ role \in Roles /\ failovers = 0 /\ addressed \in BOOLEAN
  /\ lock = [o \in Objects |-> Nothing]
  /\ passwordMap = [o \in Objects |-> IF o # Main THEN Nothing
                                      ELSE IF PasswordGiven THEN 0 ELSE 1]
  /\ instanceRole = [o \in Objects |-> NoRole]
  /\ totalScrapes = [o \in Objects |-> 0]
  /\ targetErrors = 0
  /\ pc = calls
  /\ told = [r \in Requests |-> NoRole]
  /\ failed = [r \in Requests |-> FALSE]
  /\ conns = [r \in Requests |-> {}]
  /\ used = [r \in Requests |-> {}]
  /\ samples = [r \in Requests |-> {}]
  /\ loaded = [r \in Reloads |-> Nothing]
  /\ overlapped = {}

Init == Begin([r \in Requests |-> "start"])

-----------------------------------------------------------------------------
(* The environment.                                                         *)

EditFile == /\ file < MaxEdits + 1
            /\ file' = file + 1
            /\ UNCHANGED <<role, failovers, addressed, shared, pc, scrape, reload>>

Failover == /\ failovers < MaxFailovers
            /\ failovers' = failovers + 1
            /\ role' \in Roles \ {role}
            /\ UNCHANGED <<file, addressed, shared, pc, scrape, reload>>

-----------------------------------------------------------------------------
(* ServeHTTP: a request without the right credentials changes nothing.      *)

Unauthorized(r) ==
  /\ pc[r] = "start" /\ AuthConfigured
  /\ Goto(r, "error")
  /\ UNCHANGED <<world, shared, scrape, reload>>

ServeMetrics(r) ==
  /\ pc[r] = "start" /\ r \in Metrics
  /\ Goto(r, "lock")
  /\ UNCHANGED <<world, shared, scrape, reload>>

(* scrapeHandler: a bad target, or options NewRedisExporter refuses.        *)
RefuseTarget(r) ==
  /\ pc[r] = "start" /\ r \in Scrapes
  /\ targetErrors' = targetErrors + 1
  /\ Goto(r, "error")
  /\ UNCHANGED <<world, lock, passwordMap, instanceRole, totalScrapes, scrape, reload>>

(* opts := e.options, without the mutex: the copy may be taken in the       *)
(* middle of a scrape or of a reload, and holds whichever map it finds.     *)
CopyOptions(r) ==
  /\ pc[r] = "start" /\ r \in Scrapes
  /\ passwordMap' = [passwordMap EXCEPT ![r] = passwordMap[Main]]
  /\ Goto(r, "lock")
  /\ UNCHANGED <<world, lock, instanceRole, totalScrapes, targetErrors, scrape, reload>>

-----------------------------------------------------------------------------
(* Collect and scrapeRedisHost.                                             *)

Lock(r) ==
  /\ pc[r] = "lock" /\ Unlocked(object(r))
  /\ lock' = [lock EXCEPT ![object(r)] = r]
  /\ totalScrapes' = [totalScrapes EXCEPT ![object(r)] = @ + 1]
  /\ Goto(r, IF Addressed(r) THEN "connect" ELSE "unlock")
  /\ UNCHANGED <<world, passwordMap, instanceRole, targetErrors, scrape, reload>>

Connect(r) ==
  /\ pc[r] = "connect"
  /\ Emit(r, {"connect_time"})
  /\ \/ Connected(r, "main") /\ Goto(r, "info") /\ UNCHANGED failed
     \/ Fail(r) /\ UNCHANGED <<conns, used>>
  /\ UNCHANGED <<world, shared, told, reload>>

(* PING and CLIENT SETNAME change nothing, whatever they answer.  INFO ALL  *)
(* and then INFO may fail; what they tell is the role of the moment.        *)
Info(r) ==
  /\ pc[r] = "info"
  /\ \/ /\ told' = [told EXCEPT ![r] = role]
        /\ instanceRole' = IF AppendRole
                           THEN [instanceRole EXCEPT ![object(r)] = role]
                           ELSE instanceRole
        /\ Goto(r, "config")
        /\ UNCHANGED failed
     \/ Fail(r) /\ UNCHANGED <<told, instanceRole>>
  /\ UNCHANGED <<world, lock, passwordMap, totalScrapes, targetErrors, conns, used, samples, reload>>

(* CONFIG GET: its samples and then, if it holds an invalid number of       *)
(* databases, an error; or nothing (it failed or is switched off).          *)
Config(r) ==
  /\ pc[r] = "config"
  /\ \/ /\ Emit(r, {"config"})
        /\ (Goto(r, "extract") /\ UNCHANGED failed) \/ Fail(r)
     \/ Goto(r, "extract") /\ UNCHANGED <<samples, failed>>
  /\ UNCHANGED <<world, shared, told, conns, used, reload>>

(* CLUSTER INFO, whose failure changes nothing here, and extractInfoMetrics.*)
ExtractInfo(r) ==
  /\ pc[r] = "extract"
  /\ Emit(r, {"info"})
  /\ Goto(r, "keyconn")
  /\ UNCHANGED <<world, shared, told, failed, conns, used, reload>>

(* A cluster-aware connection of its own for the keys, if need be.          *)
KeyConn(r) ==
  /\ pc[r] = "keyconn"
  /\ \/ IsCluster /\ Connected(r, "key")
     \/ UNCHANGED <<conns, used>>
  /\ Goto(r, "keys")
  /\ UNCHANGED <<world, shared, told, failed, samples, reload>>

HasKeyConn(r) == IsCluster => "key" \in conns[r]

(* What the commands on the key connection export depends on which of them  *)
(* fail; none of these failures ends the scrape.                            *)
CheckKeys(r) ==
  /\ pc[r] = "keys"
  /\ \/ /\ told[r] = "slave" \/ ~ SkipMaster
        /\ HasKeyConn(r)
        /\ Emit(r, {"check_keys"})
     \/ UNCHANGED samples
  /\ Goto(r, "rest")
  /\ UNCHANGED <<world, shared, told, failed, conns, used, reload>>

(* Key groups stand for all that is exported after the keys.                *)
Rest(r) ==
  /\ pc[r] = "rest"
  /\ \/ HasKeyConn(r) /\ Emit(r, {"key_groups"})
     \/ UNCHANGED samples
  /\ Goto(r, IF HasScript THEN "script" ELSE "return")
  /\ UNCHANGED <<world, shared, told, failed, conns, used, reload>>

Script(r) ==
  /\ pc[r] = "script"
  /\ \/ Emit(r, {"script_ok"}) /\ Goto(r, "return") /\ UNCHANGED failed
     \/ Emit(r, {"script_error"}) /\ Fail(r)
  /\ UNCHANGED <<world, shared, told, conns, used, reload>>

Return(r) ==
  /\ pc[r] = "return"
  /\ Close(r)
  /\ Emit(r, IF failed[r] THEN {"last_scrape_error", "down"} ELSE {"last_scrape_ok", "up"})
  /\ Goto(r, "unlock")
  /\ UNCHANGED <<world, shared, told, failed, used, reload>>

Unlock(r) ==
  /\ pc[r] = "unlock"
  /\ Release(r)
  /\ Goto(r, "ok")
  /\ UNCHANGED <<world, passwordMap, instanceRole, totalScrapes, targetErrors, scrape,
                 reload>>

-----------------------------------------------------------------------------
(* reloadPwdFile: the file is read without the mutex, the map is replaced   *)
(* under it.                                                                *)

MalformedMap(r) ==  /\ loaded' = [loaded EXCEPT ![r] = 0]
                    /\ Goto(r, "store")

RefuseMap(r) == UNCHANGED loaded /\ Goto(r, "error")

LoadPwdFile(r) ==
  /\ pc[r] = "start" /\ r \in Reloads
  /\ IF file \in Malformed THEN RefuseMap(r) /\ UNCHANGED overlapped
     ELSE /\ loaded' = [loaded EXCEPT ![r] = file]
          /\ LET others == {q \in Reloads \ {r} : pc[q] = "store"}
             IN overlapped' = IF others = {} THEN overlapped
                              ELSE overlapped \cup others \cup {r}
          /\ Goto(r, "store")
  /\ UNCHANGED <<world, shared, scrape>>

StoreMap(r) ==
  /\ pc[r] = "store" /\ Unlocked(Main)
  /\ passwordMap' = [passwordMap EXCEPT ![Main] = loaded[r]]
  /\ Goto(r, "ok")
  /\ UNCHANGED <<world, lock, instanceRole, totalScrapes, targetErrors, scrape, reload>>

(* discoverClusterNodesHandler: a connection with a password looked up      *)
(* without the mutex, CLUSTER NODES, Close.                                 *)
Discover(r) ==
  /\ pc[r] = "start" /\ r \in Discovers
  /\ \/ IsCluster /\ Connected(r, "key") /\ Goto(r, "nodes")
     \/ Goto(r, "error") /\ UNCHANGED <<conns, used>>
  /\ UNCHANGED <<world, shared, told, failed, samples, reload>>

Nodes(r) ==
  /\ pc[r] = "nodes"
  /\ Close(r)
  /\ Goto(r, "ok") \/ Goto(r, "error")
  /\ UNCHANGED <<world, shared, told, failed, used, samples, reload>>

-----------------------------------------------------------------------------
Collect(r) == \/ Lock(r) \/ Connect(r) \/ Info(r) \/ Config(r) \/ ExtractInfo(r)
              \/ KeyConn(r) \/ CheckKeys(r) \/ Rest(r) \/ Script(r) \/ Return(r)
              \/ Unlock(r)

Handle(r) == \/ ServeMetrics(r) \/ RefuseTarget(r) \/ CopyOptions(r)
             \/ Collect(r)
             \/ LoadPwdFile(r) \/ StoreMap(r)
             \/ Discover(r) \/ Nodes(r)

Answered(r) == pc[r] \in {"ok", "error"}

Done == (\A r \in Requests : Answered(r)) /\ UNCHANGED vars

Next == \/ \E r \in Requests : Handle(r) \/ Unauthorized(r)
        \/ EditFile \/ Failover
        \/ Done

Spec == Init /\ [][Next]_vars

-----------------------------------------------------------------------------
(* The types of the variables, and who holds which mutex when.              *)
TypeOK ==
  /\ file \in Files /\ role \in Roles /\ failovers \in 0 .. MaxFailovers /\ addressed \in BOOLEAN
  /\ lock \in [Objects -> Requests \cup {Nothing}]
  /\ passwordMap \in [Objects -> Versions \cup {Nothing}]
  /\ passwordMap[Main] # Nothing
  /\ instanceRole \in [Objects -> Roles \cup {NoRole}]
  /\ totalScrapes \in [Objects -> Nat]
  /\ targetErrors \in Nat
  /\ pc \in [Requests -> PCs]
  /\ told \in [Requests -> Roles \cup {NoRole}]
  /\ failed \in [Requests -> BOOLEAN]
  /\ conns \in [Requests -> SUBSET {"main", "key"}]
  /\ used \in [Requests -> SUBSET Versions]
  /\ samples \in [Requests -> SUBSET [metric : MetricNames, label : Roles \cup {NoRole}]]
  /\ loaded \in [Reloads -> Files \cup {Nothing}]
  /\ overlapped \subseteq Reloads
  /\ \A r \in Requests : /\ pc[r] = "store" <=> (r \in Reloads /\ pc[r] \notin {"start", "ok", "error"})
                         /\ pc[r] \in InCollect \cup {"lock"} => r \in Metrics \cup Scrapes
                         /\ pc[r] = "nodes" => r \in Discovers

Names(r) == {s.metric : s \in samples[r]}

(* Collect holds the mutex of its object from the first to the last of its  *)
(* steps, so no two scrapes of /metrics, and no scrape and store of a       *)
(* reload, overlap.                                                         *)
Exclusion == \A r \in Requests : pc[r] \in InCollect => lock[object(r)] = r

(* getInstanceRoleFromInfo sets the field registerConstMetric reads back    *)
(* for every sample: with other scrapes in between, each sample still       *)
(* carries the role that the INFO of its own scrape told, failover or not.  *)
RoleOfItsInfo ==
  \A r \in Metrics \cup Scrapes :
    AppendRole /\ told[r] # NoRole =>
      \A s \in samples[r] : s.metric # "connect_time" => s.label = told[r]

(* up is 1 exactly when this scrape has exported the instance's INFO and    *)
(* none of its scripts has failed; exporter_last_scrape_error agrees.  A    *)
(* scrape of no address reports neither.                                    *)
UpTellsInfo ==
  \A r \in Metrics \cup Scrapes : pc[r] \in {"unlock", "ok"} =>
    /\ "up" \in Names(r) <=> "info" \in Names(r) /\ "script_error" \notin Names(r)
    /\ "last_scrape_ok" \in Names(r) <=> "up" \in Names(r)
    /\ "down" \in Names(r) <=> Addressed(r) /\ "up" \notin Names(r)
    /\ "last_scrape_error" \in Names(r) <=> "down" \in Names(r)

(* No request leaves a connection open behind it, however it ended.         *)
NoConnectionLeft == \A r \in Requests : Answered(r) => conns[r] = {}

(* A reload that was answered ok, and that no other one overlapped, stays   *)
(* in force: no later request, failed reloads included, brings back a map   *)
(* older than the file it read.                                             *)
ReloadHolds ==
  \A r \in Reloads : pc[r] = "ok" /\ r \notin overlapped => passwordMap[Main] >= loaded[r]

-----------------------------------------------------------------------------
(* Why they hold: what is true of a request between two of its steps.       *)

BeforeInfo == {"start", "lock", "connect", "info"}

BeforeEnd == BeforeInfo \cup {"config", "extract", "keyconn", "keys", "rest", "script"}

Label(r) == IF AppendRole THEN instanceRole[object(r)] ELSE NoRole

\* a /scrape has a map of its own from CopyOptions on
MapBuilt == \A r \in Scrapes :
  /\ pc[r] = "start" => passwordMap[r] = Nothing
  /\ pc[r] \in InCollect \cup {"lock"} => passwordMap[r] # Nothing

\* while a request is in Collect its passwords come from one map
OneMap == \A r \in Metrics \cup Scrapes :
  /\ pc[r] \in {"start", "lock"} => used[r] = {}
  /\ pc[r] \in InCollect => used[r] \subseteq {passwordMap[object(r)]}

\* nor does the role change under it once its INFO has told it
OneRole == \A r \in Metrics \cup Scrapes :
  /\ pc[r] \in BeforeInfo =>
       told[r] = NoRole /\ \A s \in samples[r] : s.metric = "connect_time"
  /\ pc[r] \in InCollect =>
       /\ \A s \in samples[r] : s.metric # "connect_time" => s.label = Label(r)
       /\ AppendRole /\ told[r] # NoRole => instanceRole[object(r)] = told[r]
  /\ pc[r] = "ok" =>
       \A s, t \in samples[r] :
         s.metric # "connect_time" /\ t.metric # "connect_time" => s.label = t.label

\* connections are open between Connect or Discover and Return or Nodes only
Closed == \A r \in Requests :
  pc[r] \in {"start", "lock", "connect", "unlock", "store", "ok", "error"} => conns[r] = {}

\* what has been reported so far, and whether an error is on its way
Reported == \A r \in Metrics \cup Scrapes :
  /\ pc[r] \in InCollect \ {"unlock"} => Addressed(r)
  /\ pc[r] \in BeforeEnd =>
       /\ ~ failed[r] /\ "script_error" \notin Names(r)
       /\ "info" \in Names(r) <=> pc[r] \in {"keyconn", "keys", "rest", "script"}
  /\ pc[r] = "return" =>
       (failed[r] <=> "info" \notin Names(r) \/ "script_error" \in Names(r))
  /\ pc[r] \in BeforeEnd \cup {"return"} =>
       Names(r) \cap {"up", "down", "last_scrape_ok", "last_scrape_error"} = {}

\* a map waiting to be stored is not older than one an earlier reload stored
ReloadsInOrder ==
  /\ \A r \in Reloads : pc[r] \in {"store", "ok"} => loaded[r] \in 1 .. file
  /\ \A r, q \in Reloads : pc[r] = "store" /\ pc[q] = "store" /\ r # q => r \in overlapped
  /\ \A r, q \in Reloads :
       pc[r] = "ok" /\ r \notin overlapped /\ pc[q] = "store" => loaded[q] >= loaded[r]

(* What makes a scrape one step to the others: it holds the mutex all along *)
(* and nothing it reads twice changes meanwhile.                            *)
InOrder == /\ Exclusion /\ MapBuilt /\ OneMap /\ OneRole /\ Closed /\ Reported
           /\ ReloadsInOrder

-----------------------------------------------------------------------------
(* Requests see /metrics scrapes as atomic steps.                           *)
Finished(r) == pc[r] = "ok"

Serial ==
  INSTANCE ScrapeSerial WITH
    Labels <- Roles \cup {NoRole},
    map <- passwordMap[Main],
    copy <- [r \in Scrapes |-> passwordMap[r]],
    answers <- [r \in Metrics \cup Scrapes |->
                  IF Finished(r)
                  THEN [passwords |-> used[r],
                        labels |-> {s.label : s \in {t \in samples[r] :
                                                       t.metric # "connect_time"}}]
                  ELSE Nothing]

SerialSpec == Serial!Spec

(* "It only takes effect when `redis.password == ""`" (README.md, on the    *)
(* password file).                                                          *)
PasswordTakesPrecedence == PasswordGiven => \A r \in Requests : used[r] \subseteq {0}
=============================================================================
