---------------------------- MODULE KeySequential ----------------------------
(***************************************************************************)
(* extractCheckKeyMetricsNotPipelined and getKeyInfo: how a scrape samples  *)
(* the keys in cluster mode.  Every command is a Do of its own, so a reply  *)
(* is that of its request; but the keys may be written between any two      *)
(* commands, and any command may fail by itself.                            *)
(***************************************************************************)
EXTENDS RedisKeys

CONSTANTS KeyList,       \* allKeys: the database of each pair is not used
          ExportValues,  \* ~ DisableExportingKeyValues
          Faults,        \* may a command fail?
          InitStores,    \* bound: what the database holds when the scrape begins
          WriteKinds,    \* bound: the kinds of value other clients write
          MaxWrites      \* bound: writes of other clients during the scrape

ASSUME SequentialAssumption == /\ KeyList \in Seq(Keys)
                               /\ ExportValues \in BOOLEAN
                               /\ Faults \in BOOLEAN
                               /\ InitStores \subseteq Stores
                               /\ WriteKinds \subseteq Kinds
                               /\ MaxWrites \in Nat

VARIABLES
  store,    \* the kind of value under each key of each database
  seen,     \* auxiliary: the kinds each key has had since the scrape began
  emitted,  \* samples sent to the metrics channel
  writes,   \* writes of other clients so far
  failures, \* auxiliary: the commands that have failed, by index
  pc,       \* the next command
  idx,      \* index into KeyList
  typ,      \* the reply to TYPE
  val       \* the reply to GET

vars == <<store, seen, emitted, writes, failures, pc, idx, typ, val>>

env == <<store, seen, writes>>

PCs == {"type", "memory", "get", "pfcount", "strlen", "len", "done"}

label == DefaultDB   \* k.db = "0", the one database of a cluster

NoReply == PlainReply("error", "TYPE", DefaultDB)

-----------------------------------------------------------------------------
key == KeyList[idx]

(* One Do: the command runs on the value the key has now, or it fails.      *)
Do(cmd, r) ==
  \/ /\ r = KeyReply(cmd, label, key, store[label][key])
     /\ UNCHANGED failures
  \/ /\ Faults /\ r = NoReply
     /\ failures' = failures \cup {<<idx, cmd>>}

Outcomes(cmd) == {KeyReply(cmd, label, key, store[label][key]), NoReply}

Emit(S) == emitted' = emitted \cup S

SampleOf(metric, r) == Sample(metric, label, key, r)

NextKeyPast == idx' = idx + 1 /\ pc' = IF idx <= Len(KeyList) THEN "type" ELSE "done"

NextKey == /\ idx' = idx + 1
           /\ pc' = IF idx < Len(KeyList) THEN "type" ELSE "done"

Then(cmd) == pc' = cmd /\ UNCHANGED idx

(* strVal # "", exported as a number if ParseFloat takes it.                *)
ValueSamples(r) ==
  IF ExportValues /\ IsString(r)
  THEN {SampleOf(IF r.kind = "number" THEN "key_value" ELSE "key_value_as_string", r)}
  ELSE {}

(* getKeyInfo returns at once for a missing key and for an unknown type.    *)
GetKeyInfo(type) ==
  CASE type = "string" -> Then("get")
    [] type = "list"   -> Then("len")
    [] OTHER           -> NextKey

-----------------------------------------------------------------------------
Init ==
  /\ store \in InitStores
  /\ seen = [d \in DBs |-> [k \in Keys |-> {store[d][k]}]]
  /\ emitted = {} /\ writes = 0 /\ failures = {}
  /\ idx = 1 /\ pc = (IF KeyList = <<>> THEN "done" ELSE "type")
  /\ typ = NoReply /\ val = NoReply

ClientWrite(d, k, kind) ==
  /\ writes < MaxWrites
  /\ store[d][k] # kind
  /\ store' = [store EXCEPT ![d][k] = kind]
  /\ seen' = [seen EXCEPT ![d][k] = @ \cup {kind}]
  /\ writes' = writes + 1
  /\ UNCHANGED <<emitted, failures, pc, idx, typ, val>>

Type ==
  /\ pc = "type"
  /\ \E r \in Outcomes("TYPE") :
       /\ Do("TYPE", r)
       /\ typ' = r
       /\ IF IsString(r) THEN Then("memory") ELSE NextKey
  /\ UNCHANGED <<env, emitted, val>>

Memory ==
  /\ pc = "memory"
  /\ \E r \in Outcomes("MEMORY") :
       /\ Do("MEMORY", r)
       /\ Emit(IF IsInt64(r) THEN {SampleOf("key_memory_usage_bytes", r)} ELSE {})
  /\ GetKeyInfo(TypeName(typ))
  /\ UNCHANGED <<env, typ, val>>

(* getStringInfoNotPipelined: an error of GET is logged, no more.           *)
GetStops(r) == IF IsString(r) THEN Then("pfcount") ELSE NextKey

AfterGet(r) == Then("pfcount")

Get ==
  /\ pc = "get"
  /\ \E r \in Outcomes("GET") : Do("GET", r) /\ val' = r /\ AfterGet(r)
  /\ UNCHANGED <<env, emitted, typ>>

PfCount ==
  /\ pc = "pfcount"
  /\ \E r \in Outcomes("PFCOUNT") :
       /\ Do("PFCOUNT", r)
       /\ IF IsInt64(r) THEN Emit({SampleOf("key_size", r)}) /\ NextKey
                        ELSE Then("strlen") /\ UNCHANGED emitted
  /\ UNCHANGED <<env, typ, val>>

StrLenSamplesUnsized(r) == ValueSamples(val)
                             \cup IF IsInt64(r) THEN {SampleOf("key_size", r)} ELSE {}

StrLenSamples(r) ==
  IF IsInt64(r) THEN {SampleOf("key_size", r)} \cup ValueSamples(val) ELSE {}

StrLen ==
  /\ pc = "strlen"
  /\ \E r \in Outcomes("STRLEN") : Do("STRLEN", r) /\ Emit(StrLenSamples(r))
  /\ NextKey
  /\ UNCHANGED <<env, typ, val>>

Length ==
  /\ pc = "len"
  /\ \E r \in Outcomes("LEN") :
       /\ Do("LEN", r)
       /\ Emit(IF IsInt64(r) THEN {SampleOf("key_size", r)} ELSE {})
  /\ NextKey
  /\ UNCHANGED <<env, typ, val>>

Done == pc = "done" /\ UNCHANGED vars

Next ==
  \/ Type \/ Memory \/ Get \/ PfCount \/ StrLen \/ Length
  \/ \E d \in DBs, k \in Keys, kind \in WriteKinds : ClientWrite(d, k, kind)
  \/ Done

Spec == Init /\ [][Next]_vars

-----------------------------------------------------------------------------
(* The types of the variables.                                              *)
TypeOK ==
  /\ store \in Stores
  /\ seen \in [DBs -> [Keys -> SUBSET Kinds]]
  /\ emitted \subseteq Samples
  /\ writes \in 0 .. MaxWrites
  /\ failures \subseteq (DOMAIN KeyList) \X KeyCmds
  /\ pc \in PCs
  /\ idx \in 1 .. Len(KeyList) + 1
  /\ pc # "done" => idx <= Len(KeyList)
  /\ typ \in Replies /\ val \in Replies
  /\ pc \in {"memory", "get", "pfcount", "strlen", "len"} => IsString(typ)

(* The non-pipelined path keeps what a scrape promises of its key samples,  *)
(* denied keys, failing commands and writes between the commands included.  *)
KeySamples == INSTANCE KeySample

SampleSpec == KeySamples!Spec

Exported(metric, k) == \E s \in emitted : s.metric = metric /\ s.key = k

Unchanged(k) == \E kind \in Kinds : seen[label][k] = {kind}

(* A key that nobody wrote and that may be read is exported, whatever       *)
(* becomes of the others: its memory if TYPE and MEMORY USAGE answered, its *)
(* size if TYPE and the command for the length did, PFCOUNT and GET or not. *)
Answered(i, cmds) == \A cmd \in cmds : <<i, cmd>> \notin failures

EveryKeyExported ==
  pc = "done" =>
    \A i \in DOMAIN KeyList :
      LET k == KeyList[i]
      IN Unchanged(k) /\ k \notin DeniedKeys /\ store[label][k] \notin {"none", "module"} =>
           /\ Answered(i, {"TYPE", "MEMORY"}) => Exported("key_memory_usage_bytes", k)
           /\ Answered(i, {"TYPE", "LEN", "STRLEN"}) => Exported("key_size", k)
=============================================================================
