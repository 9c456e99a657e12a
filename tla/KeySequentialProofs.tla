------------------------- MODULE KeySequentialProofs -------------------------
(***************************************************************************)
(* Proofs about KeySequential, for any keys, contents, writes of other      *)
(* clients between the commands and failures of commands.                   *)
(***************************************************************************)
EXTENDS KeySequential, SequenceTheorems, TLAPS

Working == {"memory", "get", "pfcount", "strlen", "len"}

(* A reply is that of its own command about the current key, for a kind the *)
(* key has had in this scrape, or it is an error.                           *)
Genuine(r, cmd) == \/ r = NoReply
                   \/ \E kind \in seen[label][key] : r = KeyReply(cmd, label, key, kind)

(* What makes every sample honest: the kinds seen include the present one,  *)
(* and the replies kept from earlier commands are genuine ones.             *)
Grounded ==
  /\ \A d \in DBs, k \in Keys : store[d][k] \in seen[d][k]
  /\ pc \in Working => Genuine(typ, "TYPE")
  /\ pc \in {"pfcount", "strlen"} => Genuine(val, "GET")
  /\ KeySamples!Sized(emitted)

(* A key of which a sample is due.                                          *)
Good(k) == Unchanged(k) /\ k \notin DeniedKeys /\ store[label][k] \notin {"none", "module"}

(* The memory of a key is due when its second command has gone out, the     *)
(* size when the key is left.                                               *)
MemoryDone(i) == Answered(i, {"TYPE", "MEMORY"}) => Exported("key_memory_usage_bytes", KeyList[i])

SizeDone(i) == Answered(i, {"TYPE", "LEN", "STRLEN"}) => Exported("key_size", KeyList[i])

(* How far the samples have come.                                           *)
Progress ==
  /\ pc = "done" => idx = Len(KeyList) + 1
  /\ pc \in {"get", "pfcount", "strlen"} => TypeName(typ) = "string"
  /\ pc = "len" => TypeName(typ) = "list"
  /\ pc \in {"get", "pfcount", "strlen", "len"} /\ Good(key) => MemoryDone(idx)
  /\ \A i \in DOMAIN KeyList : i < idx /\ Good(KeyList[i]) => MemoryDone(i) /\ SizeDone(i)

-----------------------------------------------------------------------------
(* Replies and samples have their types.                                    *)

LEMMA KeyReplyType ==
  ASSUME NEW cmd \in KeyCmds, NEW d \in DBs, NEW k \in Keys, NEW kind \in Kinds
  PROVE  KeyReply(cmd, d, k, kind) \in Replies
<1>1. KeyShape(cmd, kind) \in Shapes
  BY DEF KeyShape, KeyCmds, Shapes
<1>2. KeyReply(cmd, d, k, kind).shape \in Shapes
  BY <1>1 DEF KeyReply, Shapes
<1> QED
  BY <1>1 DEF KeyReply, Replies, Cmds, Shapes

LEMMA NoReplyType == NoReply \in Replies /\ ~ IsString(NoReply) /\ ~ IsInt64(NoReply)
BY RedisKeysAssumption
   DEF NoReply, PlainReply, Replies, Kinds, Shapes, Cmds, KeyCmds, IsString, IsInt64

LEMMA LabelType == label \in DBs
BY RedisKeysAssumption DEF label

LEMMA KeyType ==
  ASSUME TypeOK, pc # "done"
  PROVE  key \in Keys /\ idx \in DOMAIN KeyList /\ Len(KeyList) \in Nat
BY SequentialAssumption, LenProperties, ElementOfSeq DEF TypeOK, key

LEMMA OutcomeType ==
  ASSUME TypeOK, pc # "done", NEW cmd \in KeyCmds, NEW r \in Outcomes(cmd)
  PROVE  r \in Replies
<1>1. store[label][key] \in Kinds
  BY KeyType, LabelType DEF TypeOK, Stores
<1> QED
  BY <1>1, KeyType, LabelType, KeyReplyType, NoReplyType DEF Outcomes

LEMMA SampleOfType ==
  ASSUME TypeOK, pc # "done", NEW m \in Metrics, NEW r \in Replies
  PROVE  SampleOf(m, r) \in Samples
BY KeyType, LabelType DEF SampleOf, Sample, Samples

(* A command is charged to the key it is about.                             *)
LEMMA FailuresType ==
  ASSUME TypeOK, pc # "done", NEW cmd \in KeyCmds, NEW r, Do(cmd, r)
  PROVE  failures' \subseteq (DOMAIN KeyList) \X KeyCmds
BY KeyType DEF TypeOK, Do

(* Going on to the next key or to another command of this one.              *)
LEMMA NextKeyType ==
  ASSUME TypeOK, pc # "done", NextKey
  PROVE  /\ idx' \in 1 .. Len(KeyList) + 1 /\ idx' = idx + 1 /\ pc' \in {"type", "done"}
         /\ pc' # "done" => idx' <= Len(KeyList)
         /\ pc' = "done" => idx' = Len(KeyList) + 1
BY SequentialAssumption, LenProperties DEF TypeOK, NextKey

LEMMA InitType == Init => TypeOK
<1> SUFFICES ASSUME Init PROVE TypeOK
  OBVIOUS
<1>1. store \in Stores
  BY SequentialAssumption DEF Init
<1>2. seen \in [DBs -> [Keys -> SUBSET Kinds]]
  BY <1>1 DEF Init, Stores
<1>3. Len(KeyList) \in Nat /\ (KeyList # <<>> => Len(KeyList) > 0)
  BY SequentialAssumption, LenProperties, EmptySeq
<1> QED
  BY <1>1, <1>2, <1>3, NoReplyType, SequentialAssumption DEF Init, TypeOK, PCs

LEMMA StepType == TypeOK /\ [Next]_vars => TypeOK'
<1> SUFFICES ASSUME TypeOK, [Next]_vars PROVE TypeOK'
  OBVIOUS
<1>1. CASE Type
  <2>1. PICK r \in Outcomes("TYPE") :
          Do("TYPE", r) /\ typ' = r /\ IF IsString(r) THEN Then("memory") ELSE NextKey
    BY <1>1 DEF Type
  <2>2. pc # "done" /\ "TYPE" \in KeyCmds
    BY <1>1 DEF Type, KeyCmds
  <2>3. r \in Replies /\ failures' \subseteq (DOMAIN KeyList) \X KeyCmds
    BY <2>1, <2>2, OutcomeType, FailuresType
  <2>4. CASE IsString(r)
    BY <1>1, <2>1, <2>2, <2>3, <2>4 DEF Type, TypeOK, Then, PCs, env
  <2>5. CASE ~ IsString(r)
    BY <1>1, <2>1, <2>2, <2>3, <2>5, NextKeyType DEF Type, TypeOK, PCs, env
  <2> QED
    BY <2>4, <2>5
<1>2. CASE Memory
  <2>1. PICK r \in Outcomes("MEMORY") :
          /\ Do("MEMORY", r)
          /\ Emit(IF IsInt64(r) THEN {SampleOf("key_memory_usage_bytes", r)} ELSE {})
    BY <1>2 DEF Memory
  <2>2. pc # "done" /\ "MEMORY" \in KeyCmds
    BY <1>2 DEF Memory, KeyCmds
  <2>3. r \in Replies /\ failures' \subseteq (DOMAIN KeyList) \X KeyCmds
    BY <2>1, <2>2, OutcomeType, FailuresType
  <2>4. SampleOf("key_memory_usage_bytes", r) \in Samples
    BY <2>2, <2>3, SampleOfType DEF Metrics
  <2>5. emitted' \subseteq Samples
    BY <2>1, <2>4 DEF Emit, TypeOK
  <2>6. CASE NextKey
    BY <1>2, <2>2, <2>3, <2>5, <2>6, NextKeyType DEF Memory, TypeOK, PCs, env
  <2>7. CASE Then("get") \/ Then("len")
    BY <1>2, <2>2, <2>3, <2>5, <2>7 DEF Memory, TypeOK, PCs, Then, env
  <2> QED
    BY <1>2, <2>6, <2>7 DEF Memory, GetKeyInfo
<1>3. CASE Get
  <2>1. PICK r \in Outcomes("GET") : Do("GET", r) /\ val' = r /\ AfterGet(r)
    BY <1>3 DEF Get
  <2>2. pc # "done" /\ "GET" \in KeyCmds
    BY <1>3 DEF Get, KeyCmds
  <2>3. r \in Replies /\ failures' \subseteq (DOMAIN KeyList) \X KeyCmds
    BY <2>1, <2>2, OutcomeType, FailuresType
  <2> QED
    BY <1>3, <2>1, <2>2, <2>3 DEF Get, TypeOK, PCs, AfterGet, Then, env
<1>4. CASE PfCount
  <2>1. PICK r \in Outcomes("PFCOUNT") :
          /\ Do("PFCOUNT", r)
          /\ IF IsInt64(r) THEN Emit({SampleOf("key_size", r)}) /\ NextKey
                           ELSE Then("strlen") /\ UNCHANGED emitted
    BY <1>4 DEF PfCount
  <2>2. pc # "done" /\ "PFCOUNT" \in KeyCmds
    BY <1>4 DEF PfCount, KeyCmds
  <2>3. r \in Replies /\ failures' \subseteq (DOMAIN KeyList) \X KeyCmds
    BY <2>1, <2>2, OutcomeType, FailuresType
  <2>4. SampleOf("key_size", r) \in Samples
    BY <2>2, <2>3, SampleOfType DEF Metrics
  <2>5. CASE IsInt64(r)
    <3>1. NextKey /\ emitted' \subseteq Samples
      BY <2>1, <2>4, <2>5 DEF Emit, TypeOK
    <3> QED
      BY <1>4, <2>2, <2>3, <3>1, NextKeyType DEF PfCount, TypeOK, PCs, env
  <2>6. CASE ~ IsInt64(r)
    BY <1>4, <2>1, <2>2, <2>3, <2>6 DEF PfCount, TypeOK, PCs, Then, env
  <2> QED
    BY <2>5, <2>6
<1>5. CASE StrLen
  <2>1. PICK r \in Outcomes("STRLEN") : Do("STRLEN", r) /\ Emit(StrLenSamples(r))
    BY <1>5 DEF StrLen
  <2>2. pc # "done" /\ "STRLEN" \in KeyCmds /\ NextKey
    BY <1>5 DEF StrLen, KeyCmds
  <2>3. r \in Replies /\ failures' \subseteq (DOMAIN KeyList) \X KeyCmds
    BY <2>1, <2>2, OutcomeType, FailuresType
  <2>4. StrLenSamples(r) \subseteq Samples
    BY <2>2, <2>3, SampleOfType DEF Metrics, StrLenSamples, ValueSamples, TypeOK
  <2>5. emitted' \subseteq Samples
    BY <2>1, <2>4 DEF Emit, TypeOK
  <2> QED
    BY <1>5, <2>2, <2>3, <2>5, NextKeyType DEF StrLen, TypeOK, PCs, env
<1>6. CASE Length
  <2>1. PICK r \in Outcomes("LEN") :
          Do("LEN", r) /\ Emit(IF IsInt64(r) THEN {SampleOf("key_size", r)} ELSE {})
    BY <1>6 DEF Length
  <2>2. pc # "done" /\ "LEN" \in KeyCmds /\ NextKey
    BY <1>6 DEF Length, KeyCmds
  <2>3. r \in Replies /\ failures' \subseteq (DOMAIN KeyList) \X KeyCmds
    BY <2>1, <2>2, OutcomeType, FailuresType
  <2>4. SampleOf("key_size", r) \in Samples
    BY <2>2, <2>3, SampleOfType DEF Metrics
  <2>5. emitted' \subseteq Samples
    BY <2>1, <2>4 DEF Emit, TypeOK
  <2> QED
    BY <1>6, <2>2, <2>3, <2>5, NextKeyType DEF Length, TypeOK, PCs, env
<1>7. ASSUME NEW d \in DBs, NEW k \in Keys, NEW kind \in WriteKinds, ClientWrite(d, k, kind)
      PROVE  TypeOK'
  <2>1. kind \in Kinds
    BY SequentialAssumption
  <2>2. store' \in Stores /\ seen' \in [DBs -> [Keys -> SUBSET Kinds]]
    BY <1>7, <2>1 DEF ClientWrite, TypeOK, Stores
  <2> QED
    BY <1>7, <2>2, SequentialAssumption DEF ClientWrite, TypeOK
<1>8. CASE UNCHANGED vars
  BY <1>8 DEF vars, TypeOK
<1> QED
  BY <1>1, <1>2, <1>3, <1>4, <1>5, <1>6, <1>7, <1>8 DEF Next, Done

(* Every variable keeps its type, whatever is written or fails between two  *)
(* commands.                                                                *)
THEOREM SequentialTypeCorrect == Spec => []TypeOK
BY InitType, StepType, PTL DEF Spec

-----------------------------------------------------------------------------
(* Every sample is honest: the promise of KeySample is kept.                *)

(* What a command answers is genuine.                                       *)
LEMMA OutcomeGenuine ==
  ASSUME TypeOK, Grounded, pc # "done", NEW cmd \in KeyCmds, NEW r \in Outcomes(cmd)
  PROVE  Genuine(r, cmd)
BY KeyType, LabelType DEF Grounded, Genuine, Outcomes

(* A sample made from the current key's answer is honest, provided the      *)
(* answer converts: a reply that converts was not made for a kind the       *)
(* metric cannot tell of.                                                   *)
LEMMA NumberHonest ==
  ASSUME TypeOK, Grounded, pc # "done", NEW cmd \in {"MEMORY", "LEN", "PFCOUNT", "STRLEN"},
         NEW r, Genuine(r, cmd), IsInt64(r),
         NEW metric, metric = IF cmd = "MEMORY" THEN "key_memory_usage_bytes" ELSE "key_size"
  PROVE  KeySamples!Honest(SampleOf(metric, r))
<1>1. PICK kind \in seen[label][key] : r = KeyReply(cmd, label, key, kind)
  BY NoReplyType DEF Genuine
<1>2. kind \in Kinds
  BY <1>1, KeyType, LabelType DEF TypeOK
<1>3. r.kind = kind /\ r.db = label /\ r.key = key
  BY <1>1 DEF KeyReply
<1>4. r.shape = "int" \/ r.shape = "bulk"
  BY DEF IsInt64
<1>5. KeyShape(cmd, kind) \in {"int", "bulk"}
  BY <1>1, <1>4 DEF KeyReply
<1>6. kind \in KeySamples!Tells(metric)
  BY <1>2, <1>5 DEF KeyShape, KeySamples!Tells, KeySamples!Kinds, Kinds, StringKinds
<1> QED
  BY <1>1, <1>3, <1>6 DEF KeySamples!Honest, SampleOf, Sample

LEMMA ValueHonest ==
  ASSUME TypeOK, Grounded, pc # "done", Genuine(val, "GET"), NEW s \in ValueSamples(val)
  PROVE  KeySamples!Honest(s)
<1>1. IsString(val)
  BY DEF ValueSamples
<1>2. PICK kind \in seen[label][key] : val = KeyReply("GET", label, key, kind)
  BY <1>1, NoReplyType DEF Genuine
<1>3. kind \in Kinds
  BY <1>2, KeyType, LabelType DEF TypeOK
<1>4. val.kind = kind /\ val.db = label /\ val.key = key
  BY <1>2 DEF KeyReply
<1>5. KeyShape("GET", kind) = "bulk"
  BY <1>1, <1>2, <1>3 DEF KeyReply, IsString, KeyShape, Kinds
<1>6. kind \in StringKinds
  BY <1>3, <1>5 DEF KeyShape, StringKinds, Kinds
<1>7. s = SampleOf(IF val.kind = "number" THEN "key_value" ELSE "key_value_as_string", val)
  BY DEF ValueSamples
<1> QED
  BY <1>2, <1>4, <1>6, <1>7
     DEF KeySamples!Honest, KeySamples!Tells, StringKinds, SampleOf, Sample

(* A value is sent together with its size.                                  *)
LEMMA StillSized ==
  ASSUME NEW S, NEW T, KeySamples!Sized(S),
         \A s \in T : s.metric \in {"key_value", "key_value_as_string"} =>
            \E t \in T : t.metric = "key_size" /\ t.db = s.db /\ t.key = s.key
  PROVE  KeySamples!Sized(S \cup T)
BY DEF KeySamples!Sized

(* Samples that may be sent are an Export of KeySample.                     *)
Sends(S) == /\ emitted' = emitted \cup S
            /\ \A s \in S : KeySamples!Honest(s)
            /\ KeySamples!Sized(emitted \cup S)

LEMMA SendsExports ==
  ASSUME NEW S, Sends(S), UNCHANGED env
  PROVE  KeySamples!Export /\ KeySamples!Sized(emitted')
BY DEF Sends, KeySamples!Export, env

LEMMA SendsNumber ==
  ASSUME TypeOK, Grounded, pc # "done", NEW cmd \in {"MEMORY", "LEN", "PFCOUNT", "STRLEN"},
         NEW r, Genuine(r, cmd),
         NEW metric, metric = IF cmd = "MEMORY" THEN "key_memory_usage_bytes" ELSE "key_size",
         Emit(IF IsInt64(r) THEN {SampleOf(metric, r)} ELSE {})
  PROVE  Sends(IF IsInt64(r) THEN {SampleOf(metric, r)} ELSE {})
<1> DEFINE S == IF IsInt64(r) THEN {SampleOf(metric, r)} ELSE {}
<1>1. \A s \in S : KeySamples!Honest(s)
  BY NumberHonest
<1>2. \A s \in S : s.metric \notin {"key_value", "key_value_as_string"}
  BY DEF SampleOf, Sample
<1>3. KeySamples!Sized(emitted \cup S)
  BY <1>2, StillSized DEF Grounded
<1> QED
  BY <1>1, <1>3 DEF Sends, Emit

(* One step of the exporter: what it sends, and what it has kept.           *)
LEMMA ExporterStep ==
  ASSUME TypeOK, Grounded
  PROVE  Type \/ Memory \/ Get \/ PfCount \/ StrLen \/ Length
           => KeySamples!Export /\ Grounded'
<1> USE DEF Grounded
<1>1. UNCHANGED <<env, emitted>> => KeySamples!Export /\ KeySamples!Sized(emitted')
  BY DEF KeySamples!Export, env
<1>4. CASE Type
  <2>1. PICK r \in Outcomes("TYPE") :
          typ' = r /\ IF IsString(r) THEN Then("memory") ELSE NextKey
    BY <1>4 DEF Type
  <2>2. Genuine(r, "TYPE") /\ pc # "done"
    BY <1>4, <2>1, OutcomeGenuine DEF Type, KeyCmds
  <2>3. CASE IsString(r)
    BY <1>1, <1>4, <2>1, <2>2, <2>3 DEF Type, Then, Working, Genuine, env, key
  <2>4. CASE ~ IsString(r)
    BY <1>1, <1>4, <2>1, <2>2, <2>4, NextKeyType DEF Type, Working, env
  <2> QED
    BY <2>3, <2>4
<1>5. CASE Memory
  <2>1. PICK r \in Outcomes("MEMORY") :
          Emit(IF IsInt64(r) THEN {SampleOf("key_memory_usage_bytes", r)} ELSE {})
    BY <1>5 DEF Memory
  <2>2. Genuine(r, "MEMORY") /\ pc # "done"
    BY <1>5, <2>1, OutcomeGenuine DEF Memory, KeyCmds
  <2>3. Sends(IF IsInt64(r) THEN {SampleOf("key_memory_usage_bytes", r)} ELSE {})
    BY <2>1, <2>2, SendsNumber
  <2>4. KeySamples!Export /\ KeySamples!Sized(emitted')
    BY <1>5, <2>3, SendsExports DEF Memory
  <2>5. CASE NextKey
    BY <1>5, <2>2, <2>4, <2>5, NextKeyType DEF Memory, Working, env
  <2>6. CASE Then("get") \/ Then("len")
    BY <1>5, <2>2, <2>4, <2>6 DEF Memory, Then, Working, Genuine, env, key
  <2> QED
    BY <1>5, <2>5, <2>6 DEF Memory, GetKeyInfo
<1>6. CASE Get
  <2>1. PICK r \in Outcomes("GET") : val' = r /\ AfterGet(r)
    BY <1>6 DEF Get
  <2>2. Genuine(r, "GET") /\ pc # "done"
    BY <1>6, <2>1, OutcomeGenuine DEF Get, KeyCmds
  <2> QED
    BY <1>1, <1>6, <2>1, <2>2 DEF Get, AfterGet, Then, Working, Genuine, env, key
<1>7. CASE PfCount
  <2>1. PICK r \in Outcomes("PFCOUNT") :
          IF IsInt64(r) THEN Emit({SampleOf("key_size", r)}) /\ NextKey
                        ELSE Then("strlen") /\ UNCHANGED emitted
    BY <1>7 DEF PfCount
  <2>2. Genuine(r, "PFCOUNT") /\ pc # "done"
    BY <1>7, <2>1, OutcomeGenuine DEF PfCount, KeyCmds
  <2>3. CASE IsInt64(r)
    <3>1. Sends(IF IsInt64(r) THEN {SampleOf("key_size", r)} ELSE {}) /\ NextKey
      BY <2>1, <2>2, <2>3, SendsNumber
    <3>2. KeySamples!Export /\ KeySamples!Sized(emitted')
      BY <1>7, <3>1, SendsExports DEF PfCount
    <3> QED
      BY <1>7, <2>2, <3>1, <3>2, NextKeyType DEF PfCount, Working, env
  <2>4. CASE ~ IsInt64(r)
    BY <1>1, <1>7, <2>1, <2>2, <2>4 DEF PfCount, Then, Working, Genuine, env, key
  <2> QED
    BY <2>3, <2>4
<1>8. CASE StrLen
  <2>1. PICK r \in Outcomes("STRLEN") : Emit(StrLenSamples(r))
    BY <1>8 DEF StrLen
  <2>2. Genuine(r, "STRLEN") /\ Genuine(val, "GET") /\ pc # "done" /\ NextKey
    BY <1>8, <2>1, OutcomeGenuine DEF StrLen, KeyCmds
  <2>3. \A s \in StrLenSamples(r) : KeySamples!Honest(s)
    BY <2>2, NumberHonest, ValueHonest DEF StrLenSamples
  <2>4. KeySamples!Sized(emitted \cup StrLenSamples(r))
    <3>1. \A s \in ValueSamples(val) : s.db = label /\ s.key = key
      BY DEF ValueSamples, SampleOf, Sample
    <3>2. \A s \in StrLenSamples(r) : s.db = label /\ s.key = key
      BY <3>1 DEF StrLenSamples, SampleOf, Sample
    <3>3. \A s \in StrLenSamples(r) : \E t \in StrLenSamples(r) :
             t.metric = "key_size" /\ t.db = s.db /\ t.key = s.key
      BY <3>2 DEF StrLenSamples, SampleOf, Sample
    <3> QED
      BY <3>3, StillSized
  <2>5. KeySamples!Export /\ KeySamples!Sized(emitted')
    <3>1. Sends(StrLenSamples(r))
      BY <2>1, <2>3, <2>4 DEF Sends, Emit
    <3> QED
      BY <1>8, <3>1, SendsExports DEF StrLen
  <2> QED
    BY <1>8, <2>2, <2>5, NextKeyType DEF StrLen, Working, env
<1>9. CASE Length
  <2>1. PICK r \in Outcomes("LEN") :
          Emit(IF IsInt64(r) THEN {SampleOf("key_size", r)} ELSE {})
    BY <1>9 DEF Length
  <2>2. Genuine(r, "LEN") /\ pc # "done" /\ NextKey
    BY <1>9, <2>1, OutcomeGenuine DEF Length, KeyCmds
  <2>3. Sends(IF IsInt64(r) THEN {SampleOf("key_size", r)} ELSE {})
    BY <2>1, <2>2, SendsNumber
  <2>4. KeySamples!Export /\ KeySamples!Sized(emitted')
    BY <1>9, <2>3, SendsExports DEF Length
  <2> QED
    BY <1>9, <2>2, <2>4, NextKeyType DEF Length, Working, env
<1> QED
  BY <1>4, <1>5, <1>6, <1>7, <1>8, <1>9

(* A write between two commands, and a step that changes nothing.           *)
LEMMA WriteStep ==
  ASSUME TypeOK, Grounded
  PROVE  /\ \A d \in DBs, k \in Keys, kind \in WriteKinds :
              ClientWrite(d, k, kind) => KeySamples!ClientWrite(d, k, kind) /\ Grounded'
         /\ UNCHANGED vars => Grounded'
<1>1. ASSUME NEW d \in DBs, NEW k \in Keys, NEW kind \in WriteKinds, ClientWrite(d, k, kind)
      PROVE  KeySamples!ClientWrite(d, k, kind) /\ Grounded'
  <2>1. KeySamples!ClientWrite(d, k, kind)
    BY <1>1 DEF ClientWrite, KeySamples!ClientWrite
  <2>2. \A e \in DBs, l \in Keys : store'[e][l] \in seen'[e][l] /\ seen[e][l] \subseteq seen'[e][l]
    BY <1>1 DEF ClientWrite, TypeOK, Stores, Grounded
  <2>3. ASSUME NEW r, NEW cmd, pc # "done", Genuine(r, cmd) PROVE Genuine(r, cmd)'
    BY <1>1, <2>2, <2>3, KeyType, LabelType DEF ClientWrite, Genuine, key
  <2>4. (pc \in Working => Genuine(typ, "TYPE"))'
    BY <1>1, <2>3 DEF ClientWrite, Grounded, Working, Genuine
  <2>5. (pc \in {"pfcount", "strlen"} => Genuine(val, "GET"))'
    BY <1>1, <2>3 DEF ClientWrite, Grounded, Genuine
  <2> QED
    BY <1>1, <2>1, <2>2, <2>4, <2>5 DEF ClientWrite, Grounded
<1>2. UNCHANGED vars => Grounded'
  BY DEF vars, Grounded, Genuine, key
<1> QED
  BY <1>1, <1>2

LEMMA GroundedInit == Init => Grounded /\ KeySamples!Init
<1> SUFFICES ASSUME Init PROVE Grounded /\ KeySamples!Init
  OBVIOUS
<1>1. pc \notin Working /\ store \in KeySamples!Stores
  BY SequentialAssumption
     DEF Init, Working, Stores, Kinds, KeySamples!Stores, KeySamples!Kinds
<1> QED
  BY <1>1 DEF Init, Grounded, KeySamples!Init, KeySamples!Sized, Working

LEMMA GroundedStep ==
  TypeOK /\ Grounded /\ [Next]_vars
    => Grounded' /\ [KeySamples!Next]_(KeySamples!sampleVars)
<1> SUFFICES ASSUME TypeOK, Grounded, [Next]_vars
             PROVE  Grounded' /\ [KeySamples!Next]_(KeySamples!sampleVars)
  OBVIOUS
<1>1. CASE Type \/ Memory \/ Get \/ PfCount \/ StrLen \/ Length
  BY <1>1, ExporterStep DEF KeySamples!Next
<1>2. ASSUME NEW d \in DBs, NEW k \in Keys, NEW kind \in WriteKinds, ClientWrite(d, k, kind)
      PROVE  Grounded' /\ KeySamples!Next
  BY <1>2, WriteStep, SequentialAssumption DEF KeySamples!Next, KeySamples!Kinds, Kinds
<1>3. CASE UNCHANGED vars
  BY <1>3, WriteStep DEF vars, KeySamples!sampleVars
<1> QED
  BY <1>1, <1>2, <1>3 DEF Next, Done

(* The path for clusters implements KeySample: whatever other clients write *)
(* between two commands and whichever commands fail, every sample is about  *)
(* what its own key really was, and no value goes out without its size.     *)
THEOREM SequentialHonest == Spec => SampleSpec
<1>1. Init => TypeOK /\ Grounded /\ KeySamples!Init
  BY InitType, GroundedInit
<1>2. TypeOK /\ Grounded /\ [Next]_vars
        => TypeOK' /\ Grounded' /\ [KeySamples!Next]_(KeySamples!sampleVars)
  BY StepType, GroundedStep
<1> QED
  BY <1>1, <1>2, PTL DEF Spec, SampleSpec, KeySamples!Spec

-----------------------------------------------------------------------------
(* Every key that stays as it is and may be read is exported.               *)

(* What the server answers about a good key: nothing but what it holds.     *)
LEMMA GoodReply ==
  ASSUME TypeOK, Grounded, pc # "done", Good(key),
         NEW cmd \in KeyCmds, NEW r, Genuine(r, cmd), r # NoReply
  PROVE  /\ r = KeyReply(cmd, label, key, store[label][key])
         /\ store[label][key] \in {"list", "hll", "text", "number"}
         /\ r.shape = KeyShape(cmd, store[label][key])
         /\ r.kind = store[label][key] /\ r.cmd = cmd
<1>1. PICK kind \in seen[label][key] : r = KeyReply(cmd, label, key, kind)
  BY DEF Genuine
<1>2. store[label][key] \in Kinds /\ store[label][key] \in seen[label][key]
  BY KeyType, LabelType DEF TypeOK, Stores, Grounded
<1>3. kind = store[label][key]
  BY <1>1, <1>2 DEF Good, Unchanged
<1>4. store[label][key] \in {"list", "hll", "text", "number"}
  BY <1>2 DEF Good, Kinds
<1>5. key \notin DeniedKeys
  BY DEF Good
<1> QED
  BY <1>1, <1>3, <1>4, <1>5 DEF KeyReply

(* A command that has not failed has answered.                              *)
LEMMA DoAnswers ==
  ASSUME TypeOK, pc # "done", NEW cmd \in KeyCmds, NEW r, Do(cmd, r)
  PROVE  /\ failures \subseteq failures'
         /\ \A f \in failures' : f \in failures \/ f = <<idx, cmd>>
         /\ <<idx, cmd>> \notin failures' => r # NoReply
<1>1. KeyReply(cmd, label, key, store[label][key]).key # NoReply.key
  BY KeyType, RedisKeysAssumption DEF KeyReply, NoReply, PlainReply
<1> QED
  BY <1>1 DEF Do

(* What has been exported stays so, and a later failure is not held against *)
(* a key that is done.                                                      *)
LEMMA DoneStays ==
  ASSUME failures \subseteq failures', emitted \subseteq emitted', NEW i
  PROVE  /\ MemoryDone(i) => MemoryDone(i)'
         /\ SizeDone(i) => SizeDone(i)'
BY DEF MemoryDone, SizeDone, Answered, Exported

LEMMA GoodStays ==
  ASSUME UNCHANGED <<store, seen>>, NEW k
  PROVE  Good(k)' <=> Good(k)
BY DEF Good, Unchanged

(* A key that a client writes is not one that stays as it is.               *)
LEMMA WrittenNotGood ==
  ASSUME TypeOK, Grounded, NEW d \in DBs, NEW k \in Keys, NEW kind \in WriteKinds,
         ClientWrite(d, k, kind), NEW l \in Keys, Good(l)'
  PROVE  Good(l)
<1>1. seen'[d][k] = seen[d][k] \cup {kind} /\ store[d][k] \in seen[d][k] /\ store[d][k] # kind
  BY DEF ClientWrite, TypeOK, Grounded
<1>2. ~ (d = label /\ k = l)
  BY <1>1 DEF Good, Unchanged
<1>3. seen'[label][l] = seen[label][l] /\ store'[label][l] = store[label][l]
  BY <1>2, LabelType DEF ClientWrite, TypeOK, Stores
<1> QED
  BY <1>3 DEF Good, Unchanged

(* Leaving a key whose samples are out keeps the progress.                  *)
LEMMA NextKeyProgress ==
  ASSUME TypeOK, Progress, pc # "done", NextKey, UNCHANGED env,
         failures \subseteq failures', emitted \subseteq emitted',
         NEW j, j = idx, Good(key) => MemoryDone(j)' /\ SizeDone(j)'
  PROVE  Progress'
<1>1. idx' = idx + 1 /\ pc' \in {"type", "done"} /\ (pc' = "done" => idx' = Len(KeyList) + 1)
  BY NextKeyType
<1>2. idx \in Nat
  BY SequentialAssumption, LenProperties DEF TypeOK
<1>3. ASSUME NEW i \in DOMAIN KeyList, i < idx', Good(KeyList[i])'
      PROVE  MemoryDone(i)' /\ SizeDone(i)'
  <2>1. Good(KeyList[i])
    BY <1>3, GoodStays DEF env
  <2>2. i < idx \/ i = idx
    BY <1>1, <1>2, <1>3, SequentialAssumption, LenProperties
  <2>3. CASE i < idx
    BY <2>1, <2>3, DoneStays DEF Progress
  <2>4. CASE i = idx
    BY <2>1, <2>4 DEF key
  <2> QED
    BY <2>2, <2>3, <2>4
<1> QED
  BY <1>1, <1>3 DEF Progress

(* Going on with the same key does, too.                                    *)
LEMMA ThenProgress ==
  ASSUME TypeOK, Progress, NEW cmd \in {"memory", "get", "pfcount", "strlen", "len"}, Then(cmd),
         UNCHANGED env, failures \subseteq failures', emitted \subseteq emitted',
         cmd \in {"get", "pfcount", "strlen"} => TypeName(typ') = "string",
         cmd = "len" => TypeName(typ') = "list",
         NEW j, j = idx, cmd # "memory" /\ Good(key) => MemoryDone(j)'
  PROVE  Progress'
<1>1. pc' = cmd /\ idx' = idx
  BY DEF Then
<1>2. ASSUME NEW i \in DOMAIN KeyList, i < idx', Good(KeyList[i])'
      PROVE  MemoryDone(i)' /\ SizeDone(i)'
  BY <1>1, <1>2, GoodStays, DoneStays DEF Progress, env
<1>3. Good(key)' <=> Good(key)
  BY <1>1, GoodStays DEF key, env
<1>4. (pc \in {"get", "pfcount", "strlen", "len"} /\ Good(key) => MemoryDone(idx))'
  BY <1>1, <1>3 DEF MemoryDone
<1> QED
  BY <1>1, <1>2, <1>4 DEF Progress

(* The answer a good key owes its samples to.                               *)
LEMMA GoodAnswer ==
  ASSUME TypeOK, Grounded, pc # "done", Good(key),
         NEW cmd \in KeyCmds, NEW r \in Outcomes(cmd), Do(cmd, r),
         <<idx, cmd>> \notin failures'
  PROVE  /\ store[label][key] \in {"list", "hll", "text", "number"}
         /\ r.shape = KeyShape(cmd, store[label][key])
         /\ r.kind = store[label][key] /\ r.cmd = cmd
BY OutcomeGenuine, DoAnswers, GoodReply

LEMMA ExportedBy ==
  ASSUME NEW metric, NEW r, emitted' = emitted \cup {SampleOf(metric, r)}, NEW k, k = key
  PROVE  Exported(metric, k)'
<1>1. SampleOf(metric, r) \in emitted' /\ SampleOf(metric, r).metric = metric
      /\ SampleOf(metric, r).key = k
  BY DEF SampleOf, Sample
<1> QED
  BY <1>1 DEF Exported

LEMMA ProgressStep == TypeOK /\ Grounded /\ Progress /\ [Next]_vars => Progress'
<1> SUFFICES ASSUME TypeOK, Grounded, Progress, [Next]_vars PROVE Progress'
  OBVIOUS
<1> PICK i : i = idx
  OBVIOUS
<1> PICK k : k = key
  OBVIOUS
<1>a. pc # "done" => k = KeyList[i]
  BY DEF key
<1>1. CASE Type
  <2>1. PICK r \in Outcomes("TYPE") :
          Do("TYPE", r) /\ typ' = r /\ IF IsString(r) THEN Then("memory") ELSE NextKey
    BY <1>1 DEF Type
  <2>2. pc # "done" /\ "TYPE" \in KeyCmds /\ UNCHANGED <<env, emitted>>
    BY <1>1 DEF Type, KeyCmds
  <2>3. failures \subseteq failures'
    BY <2>1, <2>2, DoAnswers
  <2>4. CASE IsString(r)
    BY <2>1, <2>2, <2>3, <2>4, ThenProgress
  <2>5. CASE ~ IsString(r)
    <3>1. Good(key) => <<i, "TYPE">> \in failures'
      <4>1. SUFFICES ASSUME Good(key), <<idx, "TYPE">> \notin failures' PROVE FALSE
        OBVIOUS
      <4>2. r.shape = KeyShape("TYPE", store[label][key])
        BY <2>1, <2>2, <4>1, GoodAnswer
      <4> QED
        BY <2>5, <4>2 DEF KeyShape, IsString
    <3>2. Good(key) => MemoryDone(i)' /\ SizeDone(i)'
      BY <3>1 DEF MemoryDone, SizeDone, Answered
    <3> QED
      BY <2>1, <2>2, <2>3, <2>5, <3>2, NextKeyProgress
  <2> QED
    BY <2>4, <2>5
<1>2. CASE Memory
  <2>1. PICK r \in Outcomes("MEMORY") :
          /\ Do("MEMORY", r)
          /\ Emit(IF IsInt64(r) THEN {SampleOf("key_memory_usage_bytes", r)} ELSE {})
    BY <1>2 DEF Memory
  <2>2. pc # "done" /\ "MEMORY" \in KeyCmds /\ UNCHANGED <<env, typ>> /\ GetKeyInfo(TypeName(typ))
        /\ "TYPE" \in KeyCmds
    BY <1>2 DEF Memory, KeyCmds
  <2>3. failures \subseteq failures' /\ emitted \subseteq emitted'
    BY <2>1, <2>2, DoAnswers DEF Emit
  <2>4. Good(key) => MemoryDone(i)'
    <3>1. SUFFICES ASSUME Good(key), <<idx, "MEMORY">> \notin failures' PROVE MemoryDone(i)'
      BY DEF MemoryDone, Answered
    <3>2. /\ r.shape = KeyShape("MEMORY", store[label][key])
          /\ store[label][key] \in {"list", "hll", "text", "number"}
      BY <2>1, <2>2, <3>1, GoodAnswer
    <3>3. IsInt64(r)
      BY <3>2 DEF KeyShape, IsInt64
    <3>4. Exported("key_memory_usage_bytes", k)'
      BY <2>1, <3>3, ExportedBy DEF Emit
    <3> QED
      BY <1>a, <2>2, <3>4 DEF MemoryDone
  <2>5. Good(key) => TypeName(typ) \in {"string", "list"}
    <3>1. Genuine(typ, "TYPE") /\ typ # NoReply
      BY <1>2, NoReplyType DEF Memory, Grounded, Working, TypeOK
    <3>2. Good(key) => /\ store[label][key] \in {"list", "hll", "text", "number"}
                       /\ typ.kind = store[label][key] /\ typ.cmd = "TYPE"
      BY <2>2, <3>1, GoodReply
    <3>3. IsString(typ)
      BY <1>2 DEF Memory, TypeOK
    <3> QED
      BY <3>2, <3>3 DEF TypeName, TypeOf, StringKinds
  <2>6. CASE TypeName(typ) = "string"
    <3>1. Then("get")
      BY <2>2, <2>6 DEF GetKeyInfo
    <3> QED
      BY <2>2, <2>3, <2>4, <2>6, <3>1, ThenProgress
  <2>7. CASE TypeName(typ) = "list"
    <3>1. Then("len")
      BY <2>2, <2>7 DEF GetKeyInfo
    <3> QED
      BY <2>2, <2>3, <2>4, <2>7, <3>1, ThenProgress
  <2>8. CASE TypeName(typ) \notin {"string", "list"}
    <3>1. NextKey
      BY <2>2, <2>8 DEF GetKeyInfo
    <3> QED
      BY <2>2, <2>3, <2>5, <2>8, <3>1, NextKeyProgress
  <2> QED
    BY <2>6, <2>7, <2>8
<1>3. CASE Get
  <2>1. PICK r \in Outcomes("GET") : Do("GET", r) /\ val' = r /\ AfterGet(r)
    BY <1>3 DEF Get
  <2>2. pc = "get" /\ pc # "done" /\ "GET" \in KeyCmds /\ UNCHANGED <<env, emitted, typ>>
        /\ Then("pfcount")
    BY <1>3, <2>1 DEF Get, KeyCmds, AfterGet
  <2>3. failures \subseteq failures'
    BY <2>1, <2>2, DoAnswers
  <2>4. TypeName(typ') = "string" /\ (Good(key) => MemoryDone(i)')
    BY <2>2, <2>3, DoneStays DEF Progress
  <2> QED
    BY <2>2, <2>3, <2>4, ThenProgress
<1>4. CASE PfCount
  <2>1. PICK r \in Outcomes("PFCOUNT") :
          /\ Do("PFCOUNT", r)
          /\ IF IsInt64(r) THEN Emit({SampleOf("key_size", r)}) /\ NextKey
                           ELSE Then("strlen") /\ UNCHANGED emitted
    BY <1>4 DEF PfCount
  <2>2. pc = "pfcount" /\ pc # "done" /\ "PFCOUNT" \in KeyCmds /\ UNCHANGED <<env, typ>>
    BY <1>4 DEF PfCount, KeyCmds
  <2>3. failures \subseteq failures' /\ emitted \subseteq emitted'
    BY <2>1, <2>2, DoAnswers DEF Emit
  <2>4. TypeName(typ') = "string" /\ (Good(key) => MemoryDone(i)')
    BY <2>2, <2>3, DoneStays DEF Progress
  <2>5. CASE IsInt64(r)
    <3>1. Exported("key_size", k)'
      BY <2>1, <2>5, ExportedBy DEF Emit
    <3>2. Good(key) => MemoryDone(i)' /\ SizeDone(i)'
      BY <1>a, <2>2, <2>4, <3>1 DEF SizeDone
    <3> QED
      BY <2>1, <2>2, <2>3, <2>5, <3>2, NextKeyProgress
  <2>6. CASE ~ IsInt64(r)
    BY <2>1, <2>2, <2>3, <2>4, <2>6, ThenProgress
  <2> QED
    BY <2>5, <2>6
<1>5. CASE StrLen
  <2>1. PICK r \in Outcomes("STRLEN") : Do("STRLEN", r) /\ Emit(StrLenSamples(r))
    BY <1>5 DEF StrLen
  <2>2. /\ pc = "strlen" /\ pc # "done" /\ "STRLEN" \in KeyCmds /\ "TYPE" \in KeyCmds
        /\ UNCHANGED <<env, typ>> /\ NextKey
    BY <1>5 DEF StrLen, KeyCmds
  <2>3. failures \subseteq failures' /\ emitted \subseteq emitted'
    BY <2>1, <2>2, DoAnswers DEF Emit
  <2>4. TypeName(typ) = "string" /\ (Good(key) => MemoryDone(i)')
    BY <2>2, <2>3, DoneStays DEF Progress
  <2>5. Good(key) => SizeDone(i)'
    <3>1. SUFFICES ASSUME Good(key), <<idx, "STRLEN">> \notin failures' PROVE SizeDone(i)'
      BY DEF SizeDone, Answered
    <3>2. /\ r.shape = KeyShape("STRLEN", store[label][key])
      BY <2>1, <2>2, <3>1, GoodAnswer
    <3>3. store[label][key] \in StringKinds
      <4>1. Genuine(typ, "TYPE") /\ IsString(typ) /\ typ # NoReply
        BY <2>2, NoReplyType DEF Grounded, Working, TypeOK
      <4>2. /\ store[label][key] \in {"list", "hll", "text", "number"}
            /\ typ.kind = store[label][key] /\ typ.cmd = "TYPE"
        BY <2>2, <3>1, <4>1, GoodReply
      <4> QED
        BY <2>4, <4>1, <4>2 DEF TypeName, TypeOf, StringKinds
    <3>4. IsInt64(r)
      BY <3>2, <3>3 DEF KeyShape, IsInt64, StringKinds
    <3>5. SampleOf("key_size", r) \in emitted'
      BY <2>1, <3>4 DEF StrLenSamples, Emit
    <3>6. Exported("key_size", k)'
      BY <3>5 DEF Exported, SampleOf, Sample
    <3> QED
      BY <1>a, <2>2, <3>6 DEF SizeDone
  <2> QED
    BY <2>2, <2>3, <2>4, <2>5, NextKeyProgress
<1>6. CASE Length
  <2>1. PICK r \in Outcomes("LEN") :
          Do("LEN", r) /\ Emit(IF IsInt64(r) THEN {SampleOf("key_size", r)} ELSE {})
    BY <1>6 DEF Length
  <2>2. /\ pc = "len" /\ pc # "done" /\ "LEN" \in KeyCmds /\ "TYPE" \in KeyCmds
        /\ UNCHANGED <<env, typ>> /\ NextKey
    BY <1>6 DEF Length, KeyCmds
  <2>3. failures \subseteq failures' /\ emitted \subseteq emitted'
    BY <2>1, <2>2, DoAnswers DEF Emit
  <2>4. TypeName(typ) = "list" /\ (Good(key) => MemoryDone(i)')
    BY <2>2, <2>3, DoneStays DEF Progress
  <2>5. Good(key) => SizeDone(i)'
    <3>1. SUFFICES ASSUME Good(key), <<idx, "LEN">> \notin failures' PROVE SizeDone(i)'
      BY DEF SizeDone, Answered
    <3>2. r.shape = KeyShape("LEN", store[label][key])
      BY <2>1, <2>2, <3>1, GoodAnswer
    <3>3. store[label][key] = "list"
      <4>1. Genuine(typ, "TYPE") /\ IsString(typ) /\ typ # NoReply
        BY <2>2, NoReplyType DEF Grounded, Working, TypeOK
      <4>2. /\ store[label][key] \in {"list", "hll", "text", "number"}
            /\ typ.kind = store[label][key] /\ typ.cmd = "TYPE"
        BY <2>2, <3>1, <4>1, GoodReply
      <4> QED
        BY <2>4, <4>1, <4>2 DEF TypeName, TypeOf, StringKinds
    <3>4. IsInt64(r)
      BY <3>2, <3>3 DEF KeyShape, IsInt64
    <3>5. Exported("key_size", k)'
      BY <2>1, <3>4, ExportedBy DEF Emit
    <3> QED
      BY <1>a, <2>2, <3>5 DEF SizeDone
  <2> QED
    BY <2>2, <2>3, <2>4, <2>5, NextKeyProgress
<1>7. ASSUME NEW d \in DBs, NEW l \in Keys, NEW kind \in WriteKinds, ClientWrite(d, l, kind)
      PROVE  Progress'
  <2>1. UNCHANGED <<emitted, failures, pc, idx, typ, val>>
    BY <1>7 DEF ClientWrite
  <2>2. \A j \in DOMAIN KeyList : Good(KeyList[j])' => Good(KeyList[j])
    BY <1>7, WrittenNotGood, SequentialAssumption, LenProperties, ElementOfSeq
  <2>3. pc # "done" => (Good(key)' => Good(key))
    BY <2>1, <2>2, KeyType DEF key
  <2>4. \A j : (MemoryDone(j) => MemoryDone(j)') /\ (SizeDone(j) => SizeDone(j)')
    BY <2>1, DoneStays
  <2>5. (pc \in {"get", "pfcount", "strlen", "len"} /\ Good(key) => MemoryDone(idx))'
    <3>1. pc \in {"get", "pfcount", "strlen", "len"} /\ Good(key)' => MemoryDone(i)'
      BY <2>3, <2>4 DEF Progress
    <3> QED
      BY <2>1, <3>1 DEF MemoryDone
  <2>6. ASSUME NEW j \in DOMAIN KeyList, j < idx', Good(KeyList[j])'
        PROVE  MemoryDone(j)' /\ SizeDone(j)'
    BY <2>1, <2>2, <2>4, <2>6 DEF Progress
  <2> QED
    BY <2>1, <2>5, <2>6 DEF Progress
<1>8. CASE UNCHANGED vars
  <2>1. \A j : (MemoryDone(j)' <=> MemoryDone(j)) /\ (SizeDone(j)' <=> SizeDone(j))
    BY <1>8 DEF vars, MemoryDone, SizeDone, Answered, Exported
  <2>2. \A l : Good(l)' <=> Good(l)
    BY <1>8, GoodStays DEF vars
  <2>3. (pc \in {"get", "pfcount", "strlen", "len"} /\ Good(key) => MemoryDone(idx))'
    BY <1>8 DEF vars, Progress, MemoryDone, Answered, Exported, Good, Unchanged, key
  <2> QED
    BY <1>8, <2>1, <2>2, <2>3 DEF vars, Progress
<1> QED
  BY <1>1, <1>2, <1>3, <1>4, <1>5, <1>6, <1>7, <1>8 DEF Next, Done

LEMMA ProgressInit == Init => Progress
<1> SUFFICES ASSUME Init PROVE Progress
  OBVIOUS
<1>1. Len(KeyList) \in Nat /\ DOMAIN KeyList = 1 .. Len(KeyList) /\ Len(<<>>) = 0
  BY SequentialAssumption, LenProperties
<1>2. pc \in {"type", "done"} /\ idx = 1 /\ (pc = "done" => KeyList = <<>>)
  BY DEF Init
<1>3. ~ \E i \in DOMAIN KeyList : i < idx
  BY <1>1, <1>2
<1> QED
  BY <1>1, <1>2, <1>3 DEF Progress

(* At the end of the list every key that nobody wrote and that may be read  *)
(* has its memory and its size exported, as far as the commands it takes    *)
(* answered; no failure about another key, and none of PFCOUNT or GET,      *)
(* costs it anything.                                                       *)
THEOREM SequentialExportsAll == Spec => []EveryKeyExported
<1>1. Init => TypeOK /\ Grounded /\ Progress
  BY InitType, GroundedInit, ProgressInit
<1>2. TypeOK /\ Grounded /\ Progress /\ [Next]_vars => (TypeOK /\ Grounded /\ Progress)'
  BY StepType, GroundedStep, ProgressStep
<1>3. TypeOK /\ Progress => EveryKeyExported
  <2> SUFFICES ASSUME Progress, pc = "done", NEW i \in DOMAIN KeyList, Good(KeyList[i])
               PROVE  MemoryDone(i) /\ SizeDone(i)
    BY DEF EveryKeyExported, Good, MemoryDone, SizeDone
  <2>1. i < idx
    BY SequentialAssumption, LenProperties DEF Progress
  <2> QED
    BY <2>1 DEF Progress
<1> QED
  BY <1>1, <1>2, <1>3, PTL DEF Spec

=============================================================================
