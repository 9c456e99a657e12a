----------------------------- MODULE KeyPipeline -----------------------------
(***************************************************************************)
(* extractCheckKeyMetricsPipelined and getKeyInfoPipelined (and the         *)
(* extractCountKeysMetrics that follows on the same connection) against a   *)
(* server that runs the pipelined requests in order while other clients     *)
(* write the keys.                                                          *)
(*                                                                          *)
(* A redigo connection is the sequence of requests sent on it, how many of  *)
(* them have been flushed, the sequence of the replies the server has made  *)
(* and how many of those have been received: a reply is matched to a        *)
(* request by nothing but its position.                                     *)
(***************************************************************************)
EXTENDS RedisKeys, FiniteSets

CONSTANTS KeysByDb,      \* the key list grouped by database, as keysByDb holds it
          CountDBs,      \* the databases of the --count-keys patterns, in order
          ExportValues,  \* ~ DisableExportingKeyValues
          Faults,        \* may the connection fail?
          InitStores,    \* bound: what the databases hold when the scrape begins
          WriteKinds,    \* bound: the kinds of value other clients write
          MaxWrites      \* bound: writes of other clients during the scrape

ASSUME PipelineAssumption == /\ KeysByDb \in [DBs -> Seq(Keys)]
                             /\ CountDBs \in Seq(DBs)
                             /\ ExportValues \in BOOLEAN
                             /\ Faults \in BOOLEAN
                             /\ InitStores \subseteq Stores
                             /\ WriteKinds \subseteq Kinds
                             /\ MaxWrites \in Nat

VARIABLES
  store,    \* the kind of value under each key of each database
  seen,     \* auxiliary: the kinds each key has had since the scrape began
  emitted,  \* samples sent to the metrics channel
  writes,   \* writes of other clients so far
  log,      \* requests sent on the connection, in order
  flushed,  \* how many of them have been flushed to the server
  answers,  \* replies made by the server, in order
  nread,    \* how many of them the exporter has received
  sel,      \* database selected on the connection
  open,     \* FALSE once an operation on the connection has failed
  pc,       \* where the exporter is
  todo,     \* databases of keysByDb the range loop has not reached
  db,       \* dbNum of the current iteration
  idx,      \* index into arrayOfKeys
  types,    \* keyTypes: the reply taken for the key's TYPE, or NoReply
  got,      \* replies taken for the current key in the second batch
  cnt,      \* index into CountDBs
  base,     \* auxiliary: Len(log) when the current iteration began
  slot      \* auxiliary: Len(log) before and after each key's part of the second batch

connVars == <<log, flushed, answers, nread, sel, open>>
vars == <<store, seen, emitted, writes, connVars, pc, todo, db, idx, types, got, cnt,
          base, slot>>

Requests == [cmd : KeyCmds, db : DBs, key : Keys]
              \cup [cmd : {"SELECT", "SCAN"}, db : DBs, key : {NoKey}]

Req(cmd, d, k) == [cmd |-> cmd, db |-> d, key |-> k]

NoReply == PlainReply("error", "TYPE", DefaultDB)

PCs == {"next_db", "send", "select", "type", "memory", "send_info", "info",
        "count", "count_select", "count_scan", "done"}

keys == KeysByDb[db]

-----------------------------------------------------------------------------
(* The first batch asks two things of every key.                            *)
KeyReqsSwapped(d, k) == <<Req("MEMORY", d, k), Req("TYPE", d, k)>>

KeyReqsMore(d, k) == <<Req("TYPE", d, k), Req("MEMORY", d, k), Req("PFCOUNT", d, k)>>

KeyReqs(d, k) == <<Req("TYPE", d, k), Req("MEMORY", d, k)>>

FreshTypesEmpty == <<>>

FreshTypes == [i \in 1 .. Len(keys) |-> NoReply]

(* The commands the send loop of the second batch sends for a key of a type *)
(* and, in a switch of its own, how many replies the receive loop takes.    *)
InfoCmds(type) == CASE type = "string" -> <<"PFCOUNT", "STRLEN", "GET">>
                    [] type = "list"   -> <<"LEN">>
                    [] OTHER           -> <<>>

InfoReceivesMore(type) == IF type = "string" THEN 3 ELSE 1

InfoReceives(type) == CASE type = "string" -> 3
                        [] type = "list"   -> 1
                        [] OTHER           -> 0

(* What the second batch exports for a string: its size, from PFCOUNT if    *)
(* that says it is a HyperLogLog, else from STRLEN, then with its value.    *)
ValueSamples(r, d, k) ==
  IF ExportValues /\ IsString(r)
  THEN {Sample(IF IsInt64(r) THEN "key_value" ELSE "key_value_as_string", d, k, r)}
  ELSE {}

StringSamplesNoLength(rs, d, k) ==
  IF IsInt64(rs[1]) THEN {Sample("key_size", d, k, rs[1])} ELSE ValueSamples(rs[3], d, k)

StringSamples(rs, d, k) ==
  IF IsInt64(rs[1]) THEN {Sample("key_size", d, k, rs[1])}
  ELSE IF IsInt64(rs[2]) THEN {Sample("key_size", d, k, rs[2])} \cup ValueSamples(rs[3], d, k)
  ELSE {}

(* ... and for any key, of the type told by the reply `typ`.                *)
InfoSamples(typ, rs, d, k) ==
  CASE TypeName(typ) = "none"                    -> {Sample("key_size", d, k, typ)}
    [] TypeName(typ) = "string"                  -> StringSamples(rs, d, k)
    [] TypeName(typ) = "list" /\ IsInt64(rs[1]) -> {Sample("key_size", d, k, rs[1])}
    [] OTHER                                     -> {}

-----------------------------------------------------------------------------
(* redigo: Send buffers, Flush ships what is buffered, Receive takes the    *)
(* next reply whatever it answers, Do flushes and reads every reply that is *)
(* due, reporting the first error among them.                               *)
Send(reqs) == log' = log \o reqs

FlushForgotten == flushed' = flushed

Flush == flushed' = Len(log')

Due == nread < Len(answers)

Received == answers[nread + 1]

Receive == open /\ Due /\ nread' = nread + 1

AllDue == open /\ Len(answers) = Len(log)

DoFailsIgnored == FALSE

DoFails == \E i \in nread + 1 .. Len(answers) : answers[i].shape = "error"

-----------------------------------------------------------------------------
Init ==
  /\ store \in InitStores
  /\ seen = [d \in DBs |-> [k \in Keys |-> {store[d][k]}]]
  /\ emitted = {} /\ writes = 0
  /\ log = <<>> /\ flushed = 0 /\ answers = <<>> /\ nread = 0
  /\ sel \in ValidDBs      \* a glob pattern of the key list may have SELECTed any
  /\ open = TRUE
  /\ pc = "next_db"
  /\ todo = {d \in DBs : KeysByDb[d] # <<>>}
  /\ db = DefaultDB
  /\ idx = 1 /\ types = <<>> /\ got = <<>> /\ cnt = 1
  /\ base = 0 /\ slot = <<>>

-----------------------------------------------------------------------------
(* The environment: other clients, the server, the network.                 *)

ClientWrite(d, k, kind) ==
  /\ writes < MaxWrites
  /\ store[d][k] # kind
  /\ store' = [store EXCEPT ![d][k] = kind]
  /\ seen' = [seen EXCEPT ![d][k] = @ \cup {kind}]
  /\ writes' = writes + 1
  /\ UNCHANGED <<emitted, connVars, pc, todo, db, idx, types, got, cnt, base, slot>>

(* The server runs the oldest request it has not run yet.                   *)
Selected(q) == IF q.cmd = "SELECT" /\ q.db \in ValidDBs THEN q.db ELSE sel

Answer(q) ==
  CASE q.cmd = "SELECT" -> PlainReply(IF q.db \in ValidDBs THEN "status" ELSE "error",
                                      "SELECT", Selected(q))
    [] q.cmd = "SCAN"   -> PlainReply("array", "SCAN", sel)
    [] OTHER            -> KeyReply(q.cmd, sel, q.key, store[sel][q.key])

Serve ==
  /\ open /\ Len(answers) < flushed
  /\ LET q == log[Len(answers) + 1]
     IN /\ sel' = Selected(q)
        /\ answers' = Append(answers, Answer(q))
  /\ UNCHANGED <<store, seen, emitted, writes, log, flushed, nread, open, pc, todo, db,
                 idx, types, got, cnt, base, slot>>

(* A read or write fails, or its 15 s deadline passes: redigo closes the    *)
(* connection and every later operation on it fails.                        *)
Break ==
  /\ Faults /\ open
  /\ open' = FALSE
  /\ UNCHANGED <<store, seen, emitted, writes, log, flushed, answers, nread, sel, pc,
                 todo, db, idx, types, got, cnt, base, slot>>

env == <<store, seen, writes, answers, sel, open>>   \* what the exporter does not touch

-----------------------------------------------------------------------------
(* One iteration of the range loop over keysByDb, in map order: any.        *)

SendSelect(d) ==
  /\ pc = "next_db" /\ d \in todo
  /\ todo' = todo \ {d}
  /\ db' = d
  /\ base' = Len(log)
  /\ IF open THEN Send(<<Req("SELECT", d, NoKey)>>) /\ idx' = 1 /\ pc' = "send"
             ELSE UNCHANGED <<log, idx, pc>>
  /\ UNCHANGED <<env, emitted, flushed, nread, types, got, cnt, slot>>

SendTypeAndMemory ==
  /\ pc = "send" /\ idx <= Len(keys)
  /\ IF open THEN /\ Send(KeyReqs(db, keys[idx]))
                  /\ idx' = idx + 1
                  /\ UNCHANGED pc
             ELSE pc' = "count" /\ UNCHANGED <<log, idx>>
  /\ UNCHANGED <<env, emitted, flushed, nread, todo, db, types, got, cnt, base, slot>>

FlushKeys ==
  /\ pc = "send" /\ idx > Len(keys)
  /\ IF open THEN flushed' = Len(log) /\ pc' = "select"
             ELSE pc' = "count" /\ UNCHANGED flushed
  /\ UNCHANGED <<env, emitted, log, nread, todo, db, idx, types, got, cnt, base, slot>>

ReceiveSelect ==
  /\ pc = "select"
  /\ \/ /\ Receive /\ IsString(Received)
        /\ types' = FreshTypes
        /\ idx' = 1
        /\ pc' = "type"
     \/ /\ \/ Receive /\ ~ IsString(Received)
           \/ ~ open /\ UNCHANGED nread
        /\ pc' = "next_db"
        /\ UNCHANGED <<types, idx>>
  /\ UNCHANGED <<env, emitted, log, flushed, todo, db, got, cnt, base, slot>>

ReceiveType ==
  /\ pc = "type" /\ idx <= Len(keys)
  /\ \/ /\ Receive /\ IsString(Received)
        /\ types' = [types EXCEPT ![idx] = Received]
        /\ pc' = "memory"
        /\ UNCHANGED idx
     \/ /\ \/ Receive /\ ~ IsString(Received)
           \/ ~ open /\ UNCHANGED nread
        /\ idx' = idx + 1
        /\ UNCHANGED <<types, pc>>
  /\ UNCHANGED <<env, emitted, log, flushed, todo, db, got, cnt, base, slot>>

ReceiveMemory ==
  /\ pc = "memory"
  /\ \/ /\ Receive /\ IsInt64(Received)
        /\ emitted' = emitted \cup
                        {Sample("key_memory_usage_bytes", db, keys[idx], Received)}
     \/ /\ \/ Receive /\ ~ IsInt64(Received)
           \/ ~ open /\ UNCHANGED nread
        /\ UNCHANGED emitted
  /\ idx' = idx + 1
  /\ pc' = "type"
  /\ UNCHANGED <<env, log, flushed, todo, db, types, got, cnt, base, slot>>

(* getKeyInfoPipelined is called with what the first batch told.            *)
GetKeyInfo ==
  /\ pc = "type" /\ idx > Len(keys)
  /\ idx' = 1
  /\ slot' = <<Len(log)>>
  /\ pc' = "send_info"
  /\ UNCHANGED <<env, emitted, log, flushed, nread, todo, db, types, got, cnt, base>>

SendInfo ==
  /\ pc = "send_info" /\ idx <= Len(keys)
  /\ LET cmds == InfoCmds(TypeName(types[idx]))
     IN \/ /\ open \/ cmds = <<>>
           /\ Send([i \in DOMAIN cmds |-> Req(cmds[i], db, keys[idx])])
           /\ slot' = Append(slot, Len(log'))
           /\ idx' = idx + 1
           /\ UNCHANGED pc
        \/ /\ ~ open /\ cmds # <<>>
           /\ pc' = "next_db"
           /\ UNCHANGED <<log, slot, idx>>
  /\ UNCHANGED <<env, emitted, flushed, nread, todo, db, types, got, cnt, base>>

FlushInfo ==
  /\ pc = "send_info" /\ idx > Len(keys)
  /\ IF open THEN flushed' = Len(log) /\ idx' = 1 /\ pc' = "info"
             ELSE pc' = "next_db" /\ UNCHANGED <<flushed, idx>>
  /\ UNCHANGED <<env, emitted, log, nread, todo, db, types, got, cnt, base, slot>>

ReceiveInfo ==
  /\ pc = "info" /\ idx <= Len(keys)
  /\ Len(got) < InfoReceives(TypeName(types[idx]))
  /\ \/ Receive /\ got' = Append(got, Received)
     \/ ~ open /\ got' = Append(got, NoReply) /\ UNCHANGED nread
  /\ UNCHANGED <<env, emitted, log, flushed, pc, todo, db, idx, types, cnt, base, slot>>

EmitInfo ==
  /\ pc = "info" /\ idx <= Len(keys)
  /\ Len(got) = InfoReceives(TypeName(types[idx]))
  /\ emitted' = emitted \cup InfoSamples(types[idx], got, db, keys[idx])
  /\ got' = <<>>
  /\ idx' = idx + 1
  /\ UNCHANGED <<env, log, flushed, nread, pc, todo, db, types, cnt, base, slot>>

EndDb ==
  /\ pc = "info" /\ idx > Len(keys)
  /\ pc' = "next_db"
  /\ UNCHANGED <<env, emitted, log, flushed, nread, todo, db, idx, types, got, cnt, base,
                 slot>>

EndKeys ==
  /\ pc = "next_db" /\ todo = {}
  /\ pc' = "count"
  /\ UNCHANGED <<env, emitted, log, flushed, nread, todo, db, idx, types, got, cnt, base,
                 slot>>

-----------------------------------------------------------------------------
(* extractCountKeysMetrics, one Do for the SELECT and one for the SCAN.     *)

count == CountDBs[cnt]

CountDo(req, next) ==
  /\ IF open THEN /\ Send(<<req>>) /\ Flush /\ pc' = next
                  /\ UNCHANGED cnt
             ELSE cnt' = cnt + 1 /\ pc' = "count" /\ UNCHANGED <<log, flushed>>

CountSelect ==
  /\ pc = "count" /\ cnt <= Len(CountDBs)
  /\ CountDo(Req("SELECT", count, NoKey), "count_select")
  /\ UNCHANGED <<env, emitted, nread, todo, db, idx, types, got, base, slot>>

CountSkip ==
  /\ pc \in {"count_select", "count_scan"}
  /\ \/ AllDue /\ DoFails /\ nread' = Len(answers)
     \/ ~ open /\ UNCHANGED nread
  /\ cnt' = cnt + 1
  /\ pc' = "count"
  /\ UNCHANGED <<env, emitted, log, flushed, todo, db, idx, types, got, base, slot>>

CountScan ==
  /\ pc = "count_select"
  /\ AllDue /\ ~ DoFails
  /\ nread' = Len(answers)
  /\ CountDo(Req("SCAN", count, NoKey), "count_scan")
  /\ UNCHANGED <<env, emitted, todo, db, idx, types, got, base, slot>>

CountEmit ==
  /\ pc = "count_scan"
  /\ AllDue /\ ~ DoFails
  /\ nread' = Len(answers)
  /\ emitted' = emitted \cup {Sample("keys_count", count, NoKey, answers[Len(answers)])}
  /\ cnt' = cnt + 1
  /\ pc' = "count"
  /\ UNCHANGED <<env, log, flushed, todo, db, idx, types, got, base, slot>>

CountEnd ==
  /\ pc = "count" /\ cnt > Len(CountDBs)
  /\ pc' = "done"
  /\ UNCHANGED <<env, emitted, log, flushed, nread, todo, db, idx, types, got, cnt, base,
                 slot>>

-----------------------------------------------------------------------------
Exporter ==
  \/ \E d \in DBs : SendSelect(d)
  \/ SendTypeAndMemory \/ FlushKeys
  \/ ReceiveSelect \/ ReceiveType \/ ReceiveMemory
  \/ GetKeyInfo \/ SendInfo \/ FlushInfo \/ ReceiveInfo \/ EmitInfo \/ EndDb \/ EndKeys
  \/ CountSelect \/ CountSkip \/ CountScan \/ CountEmit \/ CountEnd

Done == pc = "done" /\ UNCHANGED vars

Next ==
  \/ Exporter
  \/ Serve
  \/ Break
  \/ \E d \in DBs, k \in Keys, kind \in WriteKinds : ClientWrite(d, k, kind)
  \/ Done

Spec == Init /\ [][Next]_vars

(* The exporter's goroutine is scheduled, and a flushed request is answered *)
(* unless the connection breaks first: a read that is not answered in time  *)
(* ends at its deadline, which is Break.                                    *)
Fairness == WF_vars(Exporter) /\ WF_vars(Serve)

FairSpec == Spec /\ Fairness

-----------------------------------------------------------------------------
DataOK ==
  /\ store \in Stores
  /\ seen \in [DBs -> [Keys -> SUBSET Kinds]]
  /\ emitted \subseteq Samples
  /\ writes \in 0 .. MaxWrites

ConnOK ==
  /\ log \in Seq(Requests)
  /\ answers \in Seq(Replies)
  /\ nread \in 0 .. Len(answers)
  /\ flushed \in Len(answers) .. Len(log)
  /\ base \in 0 .. Len(log)
  /\ sel \in ValidDBs
  /\ open \in BOOLEAN

ControlOK ==
  /\ pc \in PCs
  /\ todo \subseteq DBs
  /\ db \in DBs
  /\ idx \in Nat \ {0}
  /\ types \in Seq(Replies)
  /\ pc \in {"type", "memory", "send_info", "info"} => Len(types) = Len(keys)
  /\ pc = "memory" => idx <= Len(keys)
  /\ got \in Seq(Replies)
  /\ cnt \in Nat \ {0}
  /\ pc \in {"count_select", "count_scan"} => cnt <= Len(CountDBs) /\ Len(log) > 0
  /\ slot \in Seq(Nat)

(* The types of the variables.                                              *)
TypeOK == DataOK /\ ConnOK /\ ControlOK

(* No error replies to SELECT, TYPE or MEMORY USAGE: every database of the  *)
(* key list exists and the exporter's user may read every key.              *)
NoErrors == ValidDBs = DBs /\ DeniedKeys = {}

(* extractCheckKeyMetricsPipelined labels a reply with the key and database *)
(* its loop is at; the reply must be that key's, of that database.          *)
Attributed == \A s \in emitted : s.from.db = s.db /\ s.from.key = s.key

(* "The memory usage of "key" in bytes" (the help text of the metric,       *)
(* exporter.go): of the key and database the sample is labelled with.       *)
MemoryOfItsKey ==
  \A s \in emitted : s.metric = "key_memory_usage_bytes" =>
                       s.from.db = s.db /\ s.from.key = s.key

(* The count of a --count-keys pattern is taken in the database it is       *)
(* labelled with, whatever replies the key pipeline left on the connection. *)
CountedInItsDb == \A s \in emitted : s.metric = "keys_count" => s.from.db = s.db

(* Every Receive waits for a reply to a request that has been flushed: a    *)
(* receive loop never asks for more replies than its send loop requested,   *)
(* whatever replies came back (the next read would hang until its deadline).*)
ReplyDue ==
  /\ pc = "select" \/ pc = "memory" => nread < flushed
  /\ pc = "type" /\ idx <= Len(keys) => nread < flushed
  /\ pc = "info" /\ idx <= Len(keys) =>
       nread + InfoReceives(TypeName(types[idx])) <= flushed + Len(got)

(* Unless the connection failed, the key pipeline leaves no reply behind    *)
(* for the Do of whoever uses the connection next.                          *)
CleanHandOver == pc = "count" /\ cnt = 1 /\ open => nread = Len(log)

(* Why it is: a Do reads every reply that is due, so the SELECT before the  *)
(* SCAN is known to have succeeded, and nothing else selects in between.    *)
CountsInStep ==
  /\ pc \in {"count_select", "count_scan"} => nread < Len(log)
  /\ pc = "count_select" =>
       /\ log[Len(log)] = Req("SELECT", count, NoKey)
       /\ Len(answers) = Len(log) => answers[Len(log)].shape = "error" \/ sel = count
  /\ pc = "count_scan" =>
       /\ log[Len(log)] = Req("SCAN", count, NoKey)
       /\ open /\ Len(answers) < Len(log) => Len(answers) = Len(log) - 1 /\ sel = count
       /\ Len(answers) = Len(log) => answers[Len(log)].db = count

CountsAligned == CountsInStep /\ CountedInItsDb

(* What makes the positions right when no reply to SELECT, TYPE or MEMORY   *)
(* USAGE is an error.  The server's side: every reply is at the position of *)
(* its request and was computed in the database the request was meant for.  *)
ServedInOrder ==
  /\ \A i \in 1 .. Len(answers) :
       /\ answers[i].cmd = log[i].cmd
       /\ answers[i].db = log[i].db
       /\ answers[i].key = log[i].key
       /\ log[i].cmd \in {"SELECT", "TYPE"} => answers[i].shape = "status"
  /\ answers # <<>> => sel = log[Len(answers)].db

RequestsInDb ==
  /\ \A i \in 1 .. Len(log) :
       log[i].cmd # "SELECT" => i > 1 /\ log[i].db = log[i - 1].db
  /\ pc \in {"send", "select", "type", "memory", "send_info", "info"} =>
       log # <<>> /\ log[Len(log)].db = db
  /\ pc \in {"count_select", "count_scan"} =>
       log[Len(log)].db = count

(* The exporter's side: where the requests of the two batches are, and that *)
(* the next reply to be received is the one the loops expect.               *)
width(i) == Len(InfoCmds(TypeName(types[i])))

FirstBatch(n) ==
  /\ n <= Len(keys)
  /\ base + 1 + 2 * n <= Len(log)
  /\ log[base + 1] = Req("SELECT", db, NoKey)
  /\ \A j \in 1 .. n : /\ log[base + 2 * j] = Req("TYPE", db, keys[j])
                       /\ log[base + 2 * j + 1] = Req("MEMORY", db, keys[j])

SecondBatch(n) ==
  /\ n <= Len(keys)
  /\ Len(slot) = n + 1
  /\ slot[1] = base + 1 + 2 * Len(keys)
  /\ slot[n + 1] = Len(log)
  /\ \A i \in 1 .. n :
       /\ slot[i + 1] = slot[i] + width(i)
       /\ slot[i + 1] <= Len(log)
       /\ \A j \in 1 .. width(i) :
            log[slot[i] + j] = Req(InfoCmds(TypeName(types[i]))[j], db, keys[i])

Position ==
  CASE pc \in {"next_db", "count"} -> nread = Len(log)
    [] pc = "send" -> /\ nread = base /\ FirstBatch(idx - 1)
                      /\ Len(log) = base + 2 * idx - 1
    [] pc = "select" -> /\ nread = base /\ FirstBatch(Len(keys))
                        /\ Len(log) = base + 1 + 2 * Len(keys)
    [] pc = "type" -> /\ nread = base + 2 * idx - 1 /\ FirstBatch(Len(keys))
                      /\ Len(log) = base + 1 + 2 * Len(keys)
                      /\ idx <= Len(keys) + 1
    [] pc = "memory" -> /\ nread = base + 2 * idx /\ FirstBatch(Len(keys))
                        /\ Len(log) = base + 1 + 2 * Len(keys)
    [] pc = "send_info" -> /\ nread = base + 1 + 2 * Len(keys)
                           /\ SecondBatch(idx - 1)
    [] pc = "info" -> /\ idx <= Len(keys) + 1
                      /\ SecondBatch(Len(keys))
                      /\ nread = slot[idx] + Len(got)
    [] OTHER -> TRUE

TypesOfKeys ==
  pc \in {"type", "memory", "send_info", "info"} =>
    \A i \in 1 .. Len(keys) :
      types[i] # NoReply => types[i].db = db /\ types[i].key = keys[i]

RepliesOfKey ==
  got # <<>> =>
    /\ pc = "info" /\ idx <= Len(keys) /\ Len(got) <= width(idx)
    /\ \A j \in 1 .. Len(got) :
         got[j] # NoReply => got[j].db = db /\ got[j].key = keys[idx]

InStep == (open => Position) /\ TypesOfKeys /\ RepliesOfKey

(* Without such errors the receive loops of both batches stay in step with  *)
(* the send loops: positions, types and attribution all agree.              *)
Aligned == ServedInOrder /\ RequestsInDb /\ InStep /\ Attributed

(* A key that nobody wrote during the scrape is fully exported: its memory  *)
(* unless it is missing, its size unless its type is unknown (0 if it is    *)
(* missing); a missing or changed key costs the others nothing.             *)
Exported(metric, d, k) == \E s \in emitted : s.metric = metric /\ s.db = d /\ s.key = k

EveryKeyExported ==
  pc = "done" /\ open =>
    \A d \in DBs : \A i \in DOMAIN KeysByDb[d] :
      LET k == KeysByDb[d][i]
      IN /\ seen[d][k] \notin {{"module"}, {"none"}} /\ Cardinality(seen[d][k]) = 1
              => Exported("key_memory_usage_bytes", d, k)
         /\ seen[d][k] # {"module"} /\ Cardinality(seen[d][k]) = 1
              => Exported("key_size", d, k)

(* The pipelined path keeps what a scrape promises of its key samples.      *)
KeySamples == INSTANCE KeySample

SampleSpec == KeySamples!Spec

(* The key pipeline and the counts after it end, whatever replies come back *)
(* and wherever the connection fails.                                       *)
Terminates == <>(pc = "done")
=============================================================================
