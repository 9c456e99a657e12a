-------------------------- MODULE KeyPipelineProofs --------------------------
(***************************************************************************)
(* Proofs about KeyPipeline, for any databases, keys, key lists, contents,  *)
(* writes of other clients and failures of the connection.                  *)
(***************************************************************************)
EXTENDS KeyPipeline, SequenceTheorems, TLAPS, FiniteSetTheorems

(* The replies the server makes are replies.                                *)
LEMMA PlainReplyType ==
  ASSUME NEW shape \in Shapes, NEW cmd \in Cmds, NEW d \in DBs
  PROVE  PlainReply(shape, cmd, d) \in Replies
BY DEF PlainReply, Replies, Kinds

LEMMA KeyReplyType ==
  ASSUME NEW cmd \in KeyCmds, NEW d \in DBs, NEW k \in Keys, NEW kind \in Kinds
  PROVE  KeyReply(cmd, d, k, kind) \in Replies
<1>1. KeyShape(cmd, kind) \in Shapes
  BY DEF KeyShape, KeyCmds, Shapes
<1>2. KeyReply(cmd, d, k, kind).shape \in Shapes
  BY <1>1 DEF KeyReply, Shapes
<1> QED
  BY <1>1 DEF KeyReply, Replies, Cmds, Shapes

LEMMA NoReplyType == NoReply \in Replies
BY PlainReplyType, RedisKeysAssumption DEF NoReply, Shapes, Cmds, KeyCmds

LEMMA SampleType ==
  ASSUME NEW m \in Metrics, NEW d \in DBs, NEW k \in Keys \cup {NoKey}, NEW r \in Replies
  PROVE  Sample(m, d, k, r) \in Samples
BY DEF Sample, Samples

LEMMA ReqType ==
  ASSUME NEW d \in DBs
  PROVE  /\ \A c \in KeyCmds, k \in Keys : Req(c, d, k) \in Requests
         /\ \A c \in {"SELECT", "SCAN"} : Req(c, d, NoKey) \in Requests
BY DEF Req, Requests

LEMMA AnswerType ==
  ASSUME TypeOK, NEW q \in Requests
  PROVE  Answer(q) \in Replies /\ Selected(q) \in ValidDBs
<1>1. Selected(q) \in ValidDBs /\ sel \in DBs
  BY RedisKeysAssumption DEF Selected, TypeOK, ConnOK
<1>2. CASE q.cmd = "SELECT"
  <2>1. /\ PlainReply("status", "SELECT", Selected(q)) \in Replies
        /\ PlainReply("error", "SELECT", Selected(q)) \in Replies
    BY <1>1, PlainReplyType, RedisKeysAssumption DEF Shapes, Cmds
  <2> QED
    BY <1>1, <1>2, <2>1 DEF Answer
<1>3. CASE q.cmd = "SCAN"
  <2>1. PlainReply("array", "SCAN", sel) \in Replies
    BY <1>1, PlainReplyType DEF Shapes, Cmds
  <2> QED
    BY <1>1, <1>3, <2>1 DEF Answer
<1>4. CASE q.cmd \in KeyCmds /\ q.key \in Keys
  <2>1. store[sel][q.key] \in Kinds
    BY <1>1, <1>4 DEF TypeOK, DataOK, Stores
  <2>2. Answer(q) = KeyReply(q.cmd, sel, q.key, store[sel][q.key])
    BY <1>4 DEF Answer, KeyCmds
  <2> QED
    BY <1>1, <1>4, <2>1, <2>2, KeyReplyType
<1> QED
  BY <1>2, <1>3, <1>4 DEF Requests

(* The receive loop takes as many replies as the send loop asked for.       *)
LEMMA ReceivesMatchSends ==
  ASSUME NEW type
  PROVE  InfoReceives(type) = Len(InfoCmds(type))
BY DEF InfoReceives, InfoCmds

(* The samples of the second batch are samples.                             *)
LEMMA InfoSamplesType ==
  ASSUME NEW typ \in Replies, NEW rs \in Seq(Replies), NEW d \in DBs, NEW k \in Keys,
         Len(rs) = Len(InfoCmds(TypeName(typ)))
  PROVE  InfoSamples(typ, rs, d, k) \subseteq Samples
<1>1. CASE TypeName(typ) = "string"
  <2>1. Len(rs) = 3
    BY <1>1 DEF InfoCmds
  <2>2. rs[1] \in Replies /\ rs[2] \in Replies /\ rs[3] \in Replies
    BY <2>1, ElementOfSeq
  <2> QED
    BY <1>1, <2>2, SampleType DEF InfoSamples, StringSamples, ValueSamples, Metrics
<1>2. CASE TypeName(typ) = "list"
  <2>1. rs[1] \in Replies
    BY <1>2 DEF InfoCmds
  <2> QED
    BY <1>2, <2>1, SampleType DEF InfoSamples, StringSamples, ValueSamples, Metrics
<1>3. CASE TypeName(typ) \notin {"string", "list"}
  BY <1>3, SampleType DEF InfoSamples, StringSamples, ValueSamples, Metrics
<1> QED
  BY <1>1, <1>2, <1>3

-----------------------------------------------------------------------------
(* Type correctness.                                                        *)

LEMMA KeysType ==
  ASSUME ControlOK
  PROVE  keys \in Seq(Keys) /\ Len(keys) \in Nat /\ \A i \in 1 .. Len(keys) : keys[i] \in Keys
BY PipelineAssumption, ElementOfSeq DEF ControlOK, keys

LEMMA InfoCmdsType ==
  ASSUME NEW type
  PROVE  /\ InfoCmds(type) \in Seq(KeyCmds)
         /\ Len(InfoCmds(type)) \in Nat
         /\ DOMAIN InfoCmds(type) = 1 .. Len(InfoCmds(type))
         /\ \A i \in 1 .. Len(InfoCmds(type)) : InfoCmds(type)[i] \in KeyCmds
<1>1. <<>> \in Seq(KeyCmds) /\ <<"LEN">> \in Seq(KeyCmds)
      /\ <<"PFCOUNT", "STRLEN", "GET">> \in Seq(KeyCmds)
  BY DEF KeyCmds
<1>2. InfoCmds(type) \in {<<>>, <<"LEN">>, <<"PFCOUNT", "STRLEN", "GET">>}
  BY DEF InfoCmds
<1>3. InfoCmds(type) \in Seq(KeyCmds)
  BY <1>1, <1>2
<1> QED
  BY <1>3, LenProperties, ElementOfSeq

(* The next reply is a reply, and receiving it keeps the connection typed.  *)
LEMMA ReceivedType ==
  ASSUME ConnOK, Receive, UNCHANGED <<log, answers, flushed, base, sel, open>>
  PROVE  Received \in Replies /\ ConnOK'
BY ElementOfSeq DEF ConnOK, Receive, Received, Due

(* So does a Do that takes every reply that is due.                         *)
LEMMA DoneType ==
  ASSUME ConnOK, nread' = Len(answers), UNCHANGED <<log, answers, flushed, base, sel, open>>
  PROVE  ConnOK'
BY DEF ConnOK

(* So does sending requests, whether they are flushed or not.               *)
LEMMA SentType ==
  ASSUME ConnOK, NEW reqs \in Seq(Requests), Send(reqs),
         flushed' \in {flushed, Len(log')}, base' \in {base, Len(log)},
         nread' \in {nread, Len(answers)},
         UNCHANGED <<answers, sel, open>>
  PROVE  ConnOK' /\ Len(log') \in Nat /\ Len(log) \in Nat /\ Len(log') = Len(log) + Len(reqs)
<1>1. /\ log' \in Seq(Requests) /\ Len(log') = Len(log) + Len(reqs)
      /\ Len(reqs) \in Nat /\ Len(log) \in Nat /\ Len(log') \in Nat
  BY ConcatProperties, LenProperties DEF ConnOK, Send
<1> QED
  BY <1>1 DEF ConnOK

LEMMA InitType == Init => TypeOK
<1> SUFFICES ASSUME Init PROVE TypeOK
  OBVIOUS
<1>1. store \in Stores /\ sel \in ValidDBs /\ db \in DBs
  BY RedisKeysAssumption, PipelineAssumption DEF Init
<1>2. DataOK
  BY <1>1, PipelineAssumption DEF Init, Stores, DataOK
<1>3. log \in Seq(Requests) /\ answers \in Seq(Replies) /\ types \in Seq(Replies)
      /\ got \in Seq(Replies) /\ slot \in Seq(Nat) /\ Len(log) = 0 /\ Len(answers) = 0
  BY EmptySeq DEF Init
<1>4. ConnOK
  BY <1>1, <1>3 DEF Init, ConnOK
<1>5. ControlOK
  BY <1>1, <1>3 DEF Init, ControlOK, PCs
<1> QED
  BY <1>2, <1>4, <1>5 DEF TypeOK

(* The steps of the environment.                                            *)
LEMMA EnvironmentType ==
  ASSUME TypeOK
  PROVE  /\ \A d \in DBs, k \in Keys, kind \in WriteKinds : ClientWrite(d, k, kind) => TypeOK'
         /\ Serve => TypeOK'
         /\ Break => TypeOK'
<1>1. ASSUME NEW d \in DBs, NEW k \in Keys, NEW kind \in WriteKinds, ClientWrite(d, k, kind)
      PROVE  TypeOK'
  <2>1. kind \in Kinds
    BY PipelineAssumption
  <2>2. store' \in Stores /\ seen' \in [DBs -> [Keys -> SUBSET Kinds]]
    BY <1>1, <2>1 DEF ClientWrite, TypeOK, DataOK, Stores
  <2>3. DataOK'
    BY <1>1, <2>2, PipelineAssumption DEF ClientWrite, TypeOK, DataOK
  <2> QED
    BY <1>1, <2>3 DEF ClientWrite, TypeOK, ConnOK, ControlOK, connVars, keys
<1>2. ASSUME Serve PROVE TypeOK'
  <2> DEFINE q == log[Len(answers) + 1]
  <2>1. q \in Requests
    BY <1>2, ElementOfSeq DEF TypeOK, ConnOK, Serve
  <2>2. Answer(q) \in Replies /\ Selected(q) \in ValidDBs
    BY <2>1, AnswerType
  <2>3. answers' = Append(answers, Answer(q)) /\ sel' = Selected(q)
    BY <1>2 DEF Serve
  <2>4. answers' \in Seq(Replies) /\ Len(answers') = Len(answers) + 1
    BY <2>2, <2>3 DEF TypeOK, ConnOK
  <2> HIDE DEF q
  <2>5. ConnOK'
    BY <1>2, <2>2, <2>3, <2>4 DEF Serve, TypeOK, ConnOK
  <2> QED
    BY <1>2, <2>5 DEF Serve, TypeOK, DataOK, ControlOK, keys
<1>3. ASSUME Break PROVE TypeOK'
  BY <1>3 DEF Break, TypeOK, DataOK, ConnOK, ControlOK, keys
<1> QED
  BY <1>1, <1>2, <1>3

(* The first batch.                                                         *)
LEMMA FirstBatchType ==
  ASSUME TypeOK
  PROVE  /\ \A d \in DBs : SendSelect(d) => TypeOK'
         /\ SendTypeAndMemory => TypeOK'
         /\ FlushKeys => TypeOK'
         /\ ReceiveSelect => TypeOK'
         /\ ReceiveType => TypeOK'
         /\ ReceiveMemory => TypeOK'
<1> USE DEF TypeOK
<1>1. ASSUME NEW d \in DBs, SendSelect(d) PROVE TypeOK'
  <2>1. <<Req("SELECT", d, NoKey)>> \in Seq(Requests)
    BY ReqType
  <2>2. CASE open
    <3>1. ConnOK'
      BY <1>1, <2>1, <2>2, SentType DEF SendSelect, env
    <3> QED
      BY <1>1, <2>2, <3>1 DEF SendSelect, DataOK, ControlOK, PCs, env, keys
  <2>3. CASE ~ open
    BY <1>1, <2>3, LenProperties DEF SendSelect, DataOK, ConnOK, ControlOK, PCs, env, keys
  <2> QED
    BY <2>2, <2>3
<1>2. ASSUME SendTypeAndMemory PROVE TypeOK'
  <2> DEFINE reqs == KeyReqs(db, keys[idx])
  <2>1. keys[idx] \in Keys /\ db \in DBs
    BY <1>2, KeysType DEF SendTypeAndMemory, ControlOK
  <2>2. reqs \in Seq(Requests)
    BY <2>1, ReqType DEF KeyCmds, KeyReqs
  <2>3. CASE open
    <3>1. Send(reqs)
      BY <1>2, <2>3 DEF SendTypeAndMemory
    <3> HIDE DEF reqs
    <3>2. ConnOK'
      BY <1>2, <2>2, <3>1, SentType DEF SendTypeAndMemory, env
    <3> QED
      BY <1>2, <2>3, <3>2 DEF SendTypeAndMemory, DataOK, ControlOK, PCs, env, keys
  <2>4. CASE ~ open
    BY <1>2, <2>4 DEF SendTypeAndMemory, DataOK, ConnOK, ControlOK, PCs, env, keys
  <2> QED
    BY <2>3, <2>4
<1>3. ASSUME FlushKeys PROVE TypeOK'
  <2>1. Len(log) \in Nat
    BY LenProperties DEF ConnOK
  <2>2. ConnOK'
    BY <1>3, <2>1 DEF FlushKeys, ConnOK, env
  <2> QED
    BY <1>3, <2>2 DEF FlushKeys, DataOK, ControlOK, PCs, env, keys
<1>4. ASSUME ReceiveSelect PROVE TypeOK'
  <2>1. FreshTypes \in Seq(Replies) /\ Len(FreshTypes) = Len(keys)
    BY NoReplyType, KeysType, SeqDef DEF FreshTypes
  <2>2. ConnOK'
    BY <1>4, ReceivedType DEF ReceiveSelect, ConnOK, env
  <2>3. types' \in Seq(Replies) /\ (pc' = "type" => Len(types') = Len(keys))
        /\ pc' \in {"type", "next_db"} /\ idx' \in Nat \ {0}
    BY <1>4, <2>1 DEF ReceiveSelect, ControlOK
  <2> QED
    BY <1>4, <2>2, <2>3 DEF ReceiveSelect, DataOK, ControlOK, PCs, env, keys
<1>5. ASSUME ReceiveType PROVE TypeOK'
  <2>1. ConnOK' /\ (Receive => Received \in Replies)
    BY <1>5, ReceivedType DEF ReceiveType, ConnOK, env
  <2>2. /\ idx \in 1 .. Len(types)
        /\ Received \in Replies => /\ [types EXCEPT ![idx] = Received] \in Seq(Replies)
                                   /\ Len([types EXCEPT ![idx] = Received]) = Len(types)
    BY <1>5, ExceptSeq, KeysType DEF ReceiveType, ControlOK
  <2>3. types' \in Seq(Replies) /\ Len(types') = Len(types) /\ pc' \in {"type", "memory"}
        /\ idx' \in Nat \ {0} /\ (pc' = "memory" => idx' = idx)
    BY <1>5, <2>1, <2>2 DEF ReceiveType, ControlOK
  <2> QED
    BY <1>5, <2>1, <2>3 DEF ReceiveType, DataOK, ControlOK, PCs, env, keys
<1>6. ASSUME ReceiveMemory PROVE TypeOK'
  <2>1. ConnOK' /\ (Receive => Received \in Replies)
    BY <1>6, ReceivedType DEF ReceiveMemory, ConnOK, env
  <2>2. keys[idx] \in Keys /\ db \in DBs
    BY <1>6, KeysType DEF ReceiveMemory, ControlOK
  <2>3. Receive => Sample("key_memory_usage_bytes", db, keys[idx], Received) \in Samples
    BY <2>1, <2>2, SampleType DEF Metrics
  <2>4. DataOK'
    BY <1>6, <2>3 DEF ReceiveMemory, DataOK, env
  <2> QED
    BY <1>6, <2>1, <2>4 DEF ReceiveMemory, ControlOK, PCs, env, keys
<1> QED
  BY <1>1, <1>2, <1>3, <1>4, <1>5, <1>6

(* The second batch.                                                        *)
LEMMA InfoReqsType ==
  ASSUME ControlOK, pc = "send_info", idx <= Len(keys)
  PROVE  LET cmds == InfoCmds(TypeName(types[idx]))
             reqs == [i \in DOMAIN cmds |-> Req(cmds[i], db, keys[idx])]
         IN /\ reqs \in Seq(Requests) /\ Len(reqs) = Len(cmds) /\ Len(cmds) \in Nat
            /\ \A i \in 1 .. Len(cmds) : reqs[i] = Req(cmds[i], db, keys[idx])
<1> DEFINE cmds == InfoCmds(TypeName(types[idx]))
           reqs == [i \in DOMAIN cmds |-> Req(cmds[i], db, keys[idx])]
<1>1. /\ DOMAIN cmds = 1 .. Len(cmds) /\ Len(cmds) \in Nat
      /\ \A i \in 1 .. Len(cmds) : cmds[i] \in KeyCmds
  BY InfoCmdsType
<1>2. keys[idx] \in Keys /\ db \in DBs
  BY KeysType DEF ControlOK
<1> HIDE DEF cmds
<1>3. reqs \in [1 .. Len(cmds) -> Requests]
  BY <1>1, <1>2, ReqType
<1>4. reqs \in Seq(Requests) /\ Len(reqs) = Len(cmds)
  BY <1>1, <1>3, SeqDef
<1> QED
  BY <1>1, <1>4 DEF cmds

LEMMA SecondBatchType ==
  ASSUME TypeOK
  PROVE  /\ GetKeyInfo => TypeOK'
         /\ SendInfo => TypeOK'
         /\ FlushInfo => TypeOK'
         /\ ReceiveInfo => TypeOK'
         /\ EmitInfo => TypeOK'
         /\ EndDb \/ EndKeys => TypeOK'
<1> USE DEF TypeOK
<1>1. ASSUME GetKeyInfo PROVE TypeOK'
  <2>1. <<Len(log)>> \in Seq(Nat)
    BY LenProperties DEF ConnOK
  <2> QED
    BY <1>1, <2>1 DEF GetKeyInfo, DataOK, ConnOK, ControlOK, PCs, env, keys
<1>2. ASSUME SendInfo PROVE TypeOK'
  <2> DEFINE cmds == InfoCmds(TypeName(types[idx]))
             reqs == [i \in DOMAIN cmds |-> Req(cmds[i], db, keys[idx])]
  <2>1. reqs \in Seq(Requests)
    BY <1>2, InfoReqsType DEF SendInfo
  <2>2. CASE Send(reqs) /\ slot' = Append(slot, Len(log')) /\ idx' = idx + 1 /\ UNCHANGED pc
    <3> HIDE DEF reqs
    <3>1. ConnOK' /\ Len(log') \in Nat
      BY <1>2, <2>1, <2>2, SentType DEF SendInfo, env
    <3>2. slot' \in Seq(Nat)
      BY <2>2, <3>1 DEF ControlOK
    <3> QED
      BY <1>2, <2>2, <3>1, <3>2 DEF SendInfo, DataOK, ControlOK, PCs, env, keys
  <2>3. CASE pc' = "next_db" /\ UNCHANGED <<log, slot, idx>>
    BY <1>2, <2>3 DEF SendInfo, DataOK, ConnOK, ControlOK, PCs, env, keys
  <2> QED
    BY <1>2, <2>2, <2>3 DEF SendInfo
<1>3. ASSUME FlushInfo PROVE TypeOK'
  BY <1>3, LenProperties DEF FlushInfo, DataOK, ConnOK, ControlOK, PCs, env, keys
<1>4. ASSUME ReceiveInfo PROVE TypeOK'
  <2>1. ConnOK' /\ (Receive => Received \in Replies)
    BY <1>4, ReceivedType DEF ReceiveInfo, ConnOK, env
  <2>2. \E r \in Replies : got' = Append(got, r)
    BY <1>4, <2>1, NoReplyType DEF ReceiveInfo
  <2>3. got' \in Seq(Replies)
    BY <2>2 DEF ControlOK
  <2> QED
    BY <1>4, <2>1, <2>3 DEF ReceiveInfo, DataOK, ControlOK, PCs, env, keys
<1>5. ASSUME EmitInfo PROVE TypeOK'
  <2>1. types[idx] \in Replies /\ keys[idx] \in Keys /\ db \in DBs
    BY <1>5, ElementOfSeq, KeysType DEF EmitInfo, ControlOK
  <2>2. InfoSamples(types[idx], got, db, keys[idx]) \subseteq Samples
    BY <1>5, <2>1, InfoSamplesType, ReceivesMatchSends DEF EmitInfo, ControlOK
  <2>3. DataOK'
    BY <1>5, <2>2 DEF EmitInfo, DataOK, env
  <2> QED
    BY <1>5, <2>3, EmptySeq DEF EmitInfo, ConnOK, ControlOK, PCs, env, keys
<1>6. ASSUME EndDb \/ EndKeys PROVE TypeOK'
  BY <1>6 DEF EndDb, EndKeys, DataOK, ConnOK, ControlOK, PCs, env, keys
<1> QED
  BY <1>1, <1>2, <1>3, <1>4, <1>5, <1>6

(* The counts.                                                              *)
LEMMA CountType ==
  ASSUME TypeOK
  PROVE  /\ CountSelect => TypeOK'
         /\ CountSkip => TypeOK'
         /\ CountScan => TypeOK'
         /\ CountEmit => TypeOK'
         /\ CountEnd => TypeOK'
<1> USE DEF TypeOK
<1>1. ASSUME pc \in {"count", "count_select"}, cnt \in 1 .. Len(CountDBs),
             nread' \in {nread, Len(answers)},
             NEW cmd \in {"SELECT", "SCAN"}, NEW next \in {"count_select", "count_scan"},
             CountDo(Req(cmd, count, NoKey), next),
             UNCHANGED <<env, emitted, todo, db, idx, types, got, base, slot>>
      PROVE  TypeOK'
  <2> DEFINE reqs == <<Req(cmd, count, NoKey)>>
  <2>1. reqs \in Seq(Requests) /\ Len(reqs) = 1
    BY <1>1, ReqType, PipelineAssumption DEF count
  <2>2. CASE open
    <3>1. Send(reqs) /\ flushed' = Len(log') /\ pc' = next /\ UNCHANGED cnt
      BY <1>1, <2>2 DEF CountDo, Flush
    <3> HIDE DEF reqs
    <3>2. UNCHANGED <<answers, sel, open, base>>
      BY <1>1 DEF env
    <3>3. ConnOK' /\ Len(log) \in Nat /\ Len(log') = Len(log) + 1
      BY <1>1, <2>1, <3>1, <3>2, SentType
    <3> QED
      BY <1>1, <3>1, <3>3 DEF DataOK, ControlOK, PCs, env, keys
  <2>3. CASE ~ open
    <3>1. pc' = "count" /\ cnt' = cnt + 1 /\ UNCHANGED <<log, flushed>>
      BY <1>1, <2>3 DEF CountDo
    <3> QED
      BY <1>1, <3>1 DEF DataOK, ConnOK, ControlOK, PCs, env, keys
  <2> QED
    BY <2>2, <2>3
<1>2. ASSUME CountSelect PROVE TypeOK'
  BY <1>1, <1>2 DEF CountSelect, ControlOK
<1>3. ASSUME CountSkip PROVE TypeOK'
  BY <1>3 DEF CountSkip, AllDue, DataOK, ConnOK, ControlOK, PCs, env, keys
<1>4. ASSUME CountScan PROVE TypeOK'
  BY <1>1, <1>4 DEF CountScan, ControlOK
<1>5. ASSUME CountEmit PROVE TypeOK'
  <2> DEFINE s == Sample("keys_count", count, NoKey, answers[Len(answers)])
  <2>1. count \in DBs
    BY <1>5, PipelineAssumption, ElementOfSeq DEF CountEmit, ControlOK, count
  <2>2. answers[Len(answers)] \in Replies
    BY <1>5, ElementOfSeq DEF CountEmit, AllDue, ConnOK, ControlOK
  <2>3. s \in Samples
    BY <2>1, <2>2, SampleType DEF Metrics
  <2>4. DataOK'
    BY <1>5, <2>3 DEF CountEmit, DataOK, env
  <2>5. ConnOK'
    BY <1>5, DoneType DEF CountEmit, env
  <2> QED
    BY <1>5, <2>4, <2>5 DEF CountEmit, ControlOK, PCs, env, keys
<1>6. ASSUME CountEnd PROVE TypeOK'
  BY <1>6 DEF CountEnd, DataOK, ConnOK, ControlOK, PCs, env, keys
<1> QED
  BY <1>2, <1>3, <1>4, <1>5, <1>6

LEMMA TypeStep == TypeOK /\ [Next]_vars => TypeOK'
<1> SUFFICES ASSUME TypeOK, [Next]_vars PROVE TypeOK'
  OBVIOUS
<1>1. CASE Exporter
  BY <1>1, FirstBatchType, SecondBatchType, CountType DEF Exporter
<1>2. CASE Serve \/ Break \/ \E d \in DBs, k \in Keys, kind \in WriteKinds : ClientWrite(d, k, kind)
  BY <1>2, EnvironmentType
<1>3. CASE Done \/ UNCHANGED vars
  BY <1>3 DEF Done, vars, connVars, TypeOK, DataOK, ConnOK, ControlOK, keys
<1> QED
  BY <1>1, <1>2, <1>3 DEF Next

(* Every variable always has its type, and the read pointers of the         *)
(* connection never overtake what was flushed, sent and answered.           *)
THEOREM TypeCorrect == Spec => []TypeOK
BY InitType, TypeStep, PTL DEF Spec

-----------------------------------------------------------------------------
(* A count is taken in the database it is labelled with, even when SELECT,  *)
(* TYPE or MEMORY USAGE answered errors and left replies behind.            *)

LEMMA InfoSamplesMetric ==
  ASSUME NEW typ, NEW rs, NEW d, NEW k, NEW s \in InfoSamples(typ, rs, d, k)
  PROVE  s.metric # "keys_count"
BY DEF InfoSamples, StringSamples, ValueSamples, Sample

LEMMA CountsInit == Init => CountsAligned
BY DEF Init, CountsAligned, CountsInStep, CountedInItsDb

(* A step of the server while a Do waits.                                   *)
LEMMA CountsServe ==
  ASSUME TypeOK, CountsInStep, Serve
  PROVE  CountsInStep'
<1> DEFINE q == log[Len(answers) + 1]
<1>1. /\ Len(answers) \in Nat /\ Len(log) \in Nat /\ Len(answers) < Len(log)
      /\ answers \in Seq(Replies)
  BY LenProperties DEF TypeOK, ConnOK, Serve
<1>2. /\ answers' = Append(answers, Answer(q)) /\ sel' = Selected(q)
      /\ UNCHANGED <<log, nread, pc, cnt, open>>
  BY DEF Serve
<1>3. Len(answers') = Len(answers) + 1 /\ answers'[Len(answers) + 1] = Answer(q)
  BY <1>1, <1>2
<1>4. CASE pc = "count_select" /\ Len(answers') = Len(log)
  <2>1. q = Req("SELECT", count, NoKey)
    BY <1>1, <1>3, <1>4 DEF CountsInStep
  <2>2. Answer(q).shape = "error" \/ Selected(q) = count
    BY <2>1 DEF Answer, Selected, PlainReply, Req
  <2> HIDE DEF q
  <2> QED
    BY <1>1, <1>2, <1>3, <1>4, <2>2 DEF CountsInStep, count
<1>5. CASE pc = "count_scan"
  <2>1. q = Req("SCAN", count, NoKey) /\ Len(answers') = Len(log) /\ sel = count
    BY <1>1, <1>3, <1>5 DEF CountsInStep, Serve
  <2>2. Answer(q).db = count
    BY <2>1 DEF Answer, PlainReply, Req
  <2> HIDE DEF q
  <2> QED
    BY <1>1, <1>2, <1>3, <1>5, <2>1, <2>2 DEF CountsInStep, count
<1> HIDE DEF q
<1> QED
  BY <1>1, <1>2, <1>3, <1>4, <1>5 DEF CountsInStep, count

(* Sending the one command of a Do.                                         *)
LEMMA CountsDo ==
  ASSUME TypeOK, NEW req \in Requests, NEW next, CountDo(req, next), open
  PROVE  /\ Len(log') = Len(log) + 1 /\ Len(log) \in Nat /\ log'[Len(log) + 1] = req
         /\ pc' = next /\ UNCHANGED cnt
<1>1. log' = log \o <<req>> /\ log \in Seq(Requests) /\ <<req>> \in Seq(Requests)
  BY DEF CountDo, Send, TypeOK, ConnOK
<1> QED
  BY <1>1, ConcatProperties, LenProperties DEF CountDo

LEMMA CountsStep == TypeOK /\ CountsAligned /\ [Next]_vars => CountsAligned'
<1> SUFFICES ASSUME TypeOK, CountsAligned, [Next]_vars PROVE CountsAligned'
  OBVIOUS
<1> USE DEF CountsAligned
<1>1. CASE Serve
  BY <1>1, CountsServe DEF Serve, CountedInItsDb
<1>2. CASE Break \/ \E d \in DBs, k \in Keys, kind \in WriteKinds : ClientWrite(d, k, kind)
  BY <1>2 DEF Break, ClientWrite, connVars, CountsInStep, CountedInItsDb, count
<1>3. CASE (\E d \in DBs : SendSelect(d)) \/ SendTypeAndMemory \/ FlushKeys
  BY <1>3 DEF SendSelect, SendTypeAndMemory, FlushKeys, env, CountsInStep, CountedInItsDb
<1>4. CASE ReceiveSelect \/ ReceiveType
  BY <1>4 DEF ReceiveSelect, ReceiveType, env, CountsInStep, CountedInItsDb
<1>5. CASE ReceiveMemory
  BY <1>5 DEF ReceiveMemory, Sample, env, CountsInStep, CountedInItsDb
<1>6. CASE GetKeyInfo \/ SendInfo \/ FlushInfo \/ ReceiveInfo \/ EndDb \/ EndKeys
  BY <1>6 DEF GetKeyInfo, SendInfo, FlushInfo, ReceiveInfo, EndDb, EndKeys, env,
              CountsInStep, CountedInItsDb
<1>7. CASE EmitInfo
  BY <1>7, InfoSamplesMetric DEF EmitInfo, env, CountsInStep, CountedInItsDb
<1>8. CASE CountSelect
  <2>1. Req("SELECT", count, NoKey) \in Requests
    BY <1>8, ReqType, PipelineAssumption DEF CountSelect, TypeOK, ControlOK, count
  <2>2. CASE open
    <3>1. /\ Len(log') = Len(log) + 1 /\ Len(log) \in Nat /\ pc' = "count_select"
          /\ log'[Len(log) + 1] = Req("SELECT", count, NoKey) /\ UNCHANGED cnt
      BY <1>8, <2>1, <2>2, CountsDo DEF CountSelect
    <3>2. UNCHANGED <<nread, answers, emitted>>
      BY <1>8 DEF CountSelect, env
    <3>3. nread <= Len(log) /\ nread \in Nat /\ Len(answers) <= Len(log) /\ Len(answers) \in Nat
      BY <3>1, LenProperties DEF TypeOK, ConnOK
    <3> QED
      BY <3>1, <3>2, <3>3 DEF CountsInStep, CountedInItsDb, count
  <2>3. CASE ~ open
    BY <1>8, <2>3 DEF CountSelect, CountDo, env, CountsInStep, CountedInItsDb
  <2> QED
    BY <2>2, <2>3
<1>9. CASE CountSkip \/ CountEnd
  BY <1>9 DEF CountSkip, CountEnd, env, CountsInStep, CountedInItsDb
<1>10. CASE CountScan
  <2>1. Req("SCAN", count, NoKey) \in Requests
    BY <1>10, ReqType, PipelineAssumption DEF CountScan, TypeOK, ControlOK, count
  <2>2. open /\ Len(answers) = Len(log) /\ ~ DoFails
    BY <1>10 DEF CountScan, AllDue
  <2>3. /\ Len(log') = Len(log) + 1 /\ Len(log) \in Nat /\ pc' = "count_scan"
        /\ log'[Len(log) + 1] = Req("SCAN", count, NoKey) /\ UNCHANGED cnt
    BY <1>10, <2>1, <2>2, CountsDo DEF CountScan
  <2>4. UNCHANGED <<answers, sel, emitted>> /\ nread' = Len(answers)
    BY <1>10 DEF CountScan, env
  <2>5. nread \in Nat /\ nread < Len(log)
    BY <1>10 DEF CountScan, CountsInStep, TypeOK, ConnOK
  <2>6. sel = count
    BY <1>10, <2>2, <2>3, <2>5 DEF CountScan, DoFails, CountsInStep
  <2> QED
    BY <2>2, <2>3, <2>4, <2>6 DEF CountsInStep, CountedInItsDb, count
<1>11. CASE CountEmit
  <2>1. answers[Len(answers)].db = count
    BY <1>11 DEF CountEmit, AllDue, CountsInStep
  <2>2. \A s \in emitted' \ emitted : s.from.db = s.db
    BY <1>11, <2>1 DEF CountEmit, Sample
  <2> QED
    BY <1>11, <2>2 DEF CountEmit, env, CountsInStep, CountedInItsDb
<1>12. CASE Done \/ UNCHANGED vars
  BY <1>12 DEF Done, vars, connVars, CountsInStep, CountedInItsDb, count
<1> QED
  BY <1>1, <1>2, <1>3, <1>4, <1>5, <1>6, <1>7, <1>8, <1>9, <1>10, <1>11, <1>12
     DEF Next, Exporter

(* The count exported for a database was taken in it.                       *)
THEOREM CountsCorrect == Spec => []CountedInItsDb
<1>1. Init => CountsAligned
  BY CountsInit
<1>2. TypeOK /\ CountsAligned /\ [Next]_vars => CountsAligned'
  BY CountsStep
<1>3. CountsAligned => CountedInItsDb
  BY DEF CountsAligned
<1> QED
  BY <1>1, <1>2, <1>3, TypeCorrect, PTL DEF Spec

-----------------------------------------------------------------------------
(* When no reply to SELECT, TYPE or MEMORY USAGE is an error, every reply   *)
(* is taken for the key and the database it is about.                       *)

LEMMA LogGrows ==
  ASSUME TypeOK, NEW reqs \in Seq(Requests), Send(reqs)
  PROVE  /\ Len(log) \in Nat /\ Len(reqs) \in Nat /\ Len(log') = Len(log) + Len(reqs)
         /\ \A i \in 1 .. Len(log) : log'[i] = log[i]
         /\ \A j \in 1 .. Len(reqs) : log'[Len(log) + j] = reqs[j]
<1>1. log \in Seq(Requests) /\ log' = log \o reqs
  BY DEF Send, TypeOK, ConnOK
<1>2. Len(log) \in Nat /\ Len(reqs) \in Nat
  BY <1>1, LenProperties
<1> QED
  BY <1>1, <1>2, ConcatProperties

LEMMA ServedGrows ==
  ASSUME TypeOK, ServedInOrder, NEW reqs \in Seq(Requests), Send(reqs),
         UNCHANGED <<answers, sel>>
  PROVE  ServedInOrder'
<1>1. Len(answers) <= Len(log) /\ Len(answers) \in Nat /\ (answers # <<>> => Len(answers) > 0)
  BY LenProperties, EmptySeq DEF TypeOK, ConnOK
<1> QED
  BY <1>1, LogGrows DEF ServedInOrder

LEMMA ServedServe ==
  ASSUME NoErrors, TypeOK, ServedInOrder, RequestsInDb, Serve
  PROVE  ServedInOrder'
<1> DEFINE n == Len(answers)
           q == log[n + 1]
<1>1. /\ n \in Nat /\ Len(log) \in Nat /\ n < Len(log) /\ answers \in Seq(Replies)
      /\ (answers # <<>> <=> n > 0)
  BY LenProperties, EmptySeq DEF TypeOK, ConnOK, Serve
<1>2. answers' = Append(answers, Answer(q)) /\ sel' = Selected(q) /\ UNCHANGED log
  BY DEF Serve
<1>3. /\ Len(answers') = n + 1 /\ answers'[n + 1] = Answer(q)
      /\ \A i \in 1 .. n : answers'[i] = answers[i]
  BY <1>1, <1>2
<1>4. q \in Requests
  BY <1>1, ElementOfSeq DEF TypeOK, ConnOK
<1>5. q.cmd # "SELECT" => sel = q.db
  BY <1>1 DEF RequestsInDb, ServedInOrder
<1>6. Selected(q) = q.db
  BY <1>4, <1>5 DEF NoErrors, Selected, Requests
<1>7. /\ Answer(q).cmd = q.cmd /\ Answer(q).db = q.db /\ Answer(q).key = q.key
      /\ q.cmd \in {"SELECT", "TYPE"} => Answer(q).shape = "status"
  <2>1. CASE q.cmd = "SELECT"
    BY <1>4, <1>6, <2>1 DEF Answer, PlainReply, NoErrors, Requests, KeyCmds
  <2>2. CASE q.cmd = "SCAN"
    BY <1>4, <1>5, <2>2 DEF Answer, PlainReply, Requests, KeyCmds
  <2>3. CASE q.cmd \in KeyCmds
    BY <1>4, <1>5, <2>3 DEF Answer, KeyReply, KeyShape, NoErrors, KeyCmds
  <2> QED
    BY <1>4, <2>1, <2>2, <2>3 DEF Requests
<1> HIDE DEF q
<1>8. answers' # <<>> => sel' = log'[Len(answers')].db
  BY <1>1, <1>2, <1>3, <1>6 DEF q
<1>9. \A i \in 1 .. n + 1 : /\ answers'[i].cmd = log[i].cmd /\ answers'[i].db = log[i].db
                            /\ answers'[i].key = log[i].key
                            /\ log[i].cmd \in {"SELECT", "TYPE"} => answers'[i].shape = "status"
  <2> TAKE i \in 1 .. n + 1
  <2>1. CASE i = n + 1
    BY <1>3, <1>7, <2>1 DEF q
  <2>2. CASE i \in 1 .. n
    BY <1>3, <2>2 DEF ServedInOrder
  <2> QED
    BY <1>1, <2>1, <2>2
<1> QED
  BY <1>2, <1>3, <1>8, <1>9 DEF ServedInOrder

LEMMA RequestsGrow ==
  ASSUME TypeOK, RequestsInDb, NEW reqs \in Seq(Requests), Send(reqs), NEW d,
         \A j \in 1 .. Len(reqs) : reqs[j].db = d,
         \/ Len(reqs) > 0 /\ reqs[1].cmd = "SELECT"
         \/ Len(log) > 0 /\ log[Len(log)].db = d
  PROVE  /\ \A i \in 1 .. Len(log') :
              log'[i].cmd # "SELECT" => i > 1 /\ log'[i].db = log'[i - 1].db
         /\ Len(reqs) > 0 \/ log[Len(log)].db = d => log'[Len(log')].db = d
<1>1. /\ Len(log) \in Nat /\ Len(reqs) \in Nat /\ Len(log') = Len(log) + Len(reqs)
      /\ \A i \in 1 .. Len(log) : log'[i] = log[i]
      /\ \A j \in 1 .. Len(reqs) : log'[Len(log) + j] = reqs[j]
  BY LogGrows
<1>2. ASSUME NEW i \in 1 .. Len(log'), log'[i].cmd # "SELECT"
      PROVE  i > 1 /\ log'[i].db = log'[i - 1].db
  <2>1. CASE i \in 1 .. Len(log)
    <3>1. log'[i] = log[i]
      BY <1>1, <2>1
    <3>2. i > 1 /\ log[i].db = log[i - 1].db
      BY <1>2, <2>1, <3>1 DEF RequestsInDb
    <3>3. i - 1 \in 1 .. Len(log)
      BY <1>1, <2>1, <3>2
    <3>4. log'[i - 1] = log[i - 1]
      BY <1>1, <3>3
    <3> QED
      BY <3>1, <3>2, <3>4
  <2>2. CASE i = Len(log) + 1
    BY <1>1, <1>2, <2>2
  <2>3. CASE i > Len(log) + 1
    <3>1. i - Len(log) \in 1 .. Len(reqs) /\ i - 1 - Len(log) \in 1 .. Len(reqs)
      BY <1>1, <2>3
    <3>2. log'[Len(log) + (i - Len(log))] = reqs[i - Len(log)]
          /\ log'[Len(log) + (i - 1 - Len(log))] = reqs[i - 1 - Len(log)]
      BY <1>1, <3>1
    <3>3. log'[i].db = d /\ log'[i - 1].db = d
      BY <1>1, <3>1, <3>2
    <3> QED
      BY <1>1, <2>3, <3>3
  <2> QED
    BY <1>1, <2>1, <2>2, <2>3
<1>3. Len(reqs) > 0 => log'[Len(log')].db = d
  BY <1>1
<1>4. Len(reqs) = 0 /\ log[Len(log)].db = d => log'[Len(log')].db = d
  BY <1>1
<1> QED
  BY <1>1, <1>2, <1>3, <1>4

LEMMA ReqFields ==
  ASSUME NEW c, NEW d, NEW k
  PROVE  Req(c, d, k).cmd = c /\ Req(c, d, k).db = d /\ Req(c, d, k).key = k
BY DEF Req

LEMMA AlignedInit == Init => Aligned
<1> SUFFICES ASSUME Init PROVE Aligned
  OBVIOUS
<1>1. Len(log) = 0 /\ Len(answers) = 0 /\ Len(got) = 0
  BY DEF Init
<1>2. ServedInOrder /\ RequestsInDb
  BY <1>1 DEF Init, ServedInOrder, RequestsInDb
<1>3. InStep
  BY <1>1 DEF Init, InStep, Position, TypesOfKeys, RepliesOfKey
<1> QED
  BY <1>2, <1>3 DEF Init, Aligned, Attributed

LEMMA AlignedEnvironment ==
  ASSUME NoErrors, TypeOK, Aligned
  PROVE  /\ \A d \in DBs, k \in Keys, kind \in WriteKinds : ClientWrite(d, k, kind) => Aligned'
         /\ Serve => Aligned'
         /\ Break => Aligned'
<1> USE DEF Aligned
<1>1. ASSUME NEW d \in DBs, NEW k \in Keys, NEW kind \in WriteKinds, ClientWrite(d, k, kind)
      PROVE  Aligned'
  BY <1>1 DEF ClientWrite, connVars, ServedInOrder, RequestsInDb, InStep, Position,
     TypesOfKeys, RepliesOfKey, Attributed, FirstBatch, SecondBatch, width, keys, count
<1>2. ASSUME Serve PROVE Aligned'
  <2>1. ServedInOrder'
    BY <1>2, ServedServe
  <2> QED
    BY <1>2, <2>1 DEF Serve, RequestsInDb, InStep, Position, TypesOfKeys, RepliesOfKey,
       Attributed, FirstBatch, SecondBatch, width, keys, count
<1>3. ASSUME Break PROVE Aligned'
  BY <1>3 DEF Break, ServedInOrder, RequestsInDb, InStep, Position, TypesOfKeys,
     RepliesOfKey, Attributed, FirstBatch, SecondBatch, width, keys, count
<1> QED
  BY <1>1, <1>2, <1>3

(* Sending the first batch.                                                 *)
LEMMA AlignedSend ==
  ASSUME NoErrors, TypeOK, Aligned
  PROVE  /\ \A d \in DBs : SendSelect(d) => Aligned'
         /\ SendTypeAndMemory => Aligned'
         /\ FlushKeys => Aligned'
<1> USE DEF Aligned
<1>1. ASSUME NEW d \in DBs, SendSelect(d) PROVE Aligned'
  <2>1. CASE ~ open
    BY <1>1, <2>1 DEF SendSelect, env, ServedInOrder, RequestsInDb, InStep, TypesOfKeys,
       RepliesOfKey, Attributed
  <2>2. CASE open
    <3>0. <<Req("SELECT", d, NoKey)>> \in Seq(Requests) /\ Send(<<Req("SELECT", d, NoKey)>>)
      BY <1>1, <2>2, ReqType DEF SendSelect
    <3>1. PICK reqs \in Seq(Requests) : /\ Len(reqs) = 1 /\ reqs[1] = Req("SELECT", d, NoKey)
                                        /\ Send(reqs)
      BY <3>0
    <3>10. reqs[1].cmd = "SELECT" /\ \A j \in 1 .. Len(reqs) : reqs[j].db = d
      BY <3>1, ReqFields
    <3>2. Send(reqs) /\ pc' = "send" /\ idx' = 1
      BY <1>1, <2>2, <3>1 DEF SendSelect
    <3>3. ServedInOrder'
      BY <1>1, <3>1, <3>2, ServedGrows DEF SendSelect, env
    <3>5. /\ Len(log) \in Nat /\ Len(log') = Len(log) + 1
          /\ log'[Len(log) + 1] = Req("SELECT", d, NoKey)
      <4>1. /\ Len(log) \in Nat /\ Len(reqs) \in Nat /\ Len(log') = Len(log) + Len(reqs)
            /\ \A j \in 1 .. Len(reqs) : log'[Len(log) + j] = reqs[j]
        BY <3>1, LogGrows
      <4> QED
        BY <3>1, <4>1
    <3>4. /\ \A i \in 1 .. Len(log') :
               log'[i].cmd # "SELECT" => i > 1 /\ log'[i].db = log'[i - 1].db
          /\ log'[Len(log')].db = d
      <4>1. \/ Len(reqs) > 0 /\ reqs[1].cmd = "SELECT"
            \/ Len(log) > 0 /\ log[Len(log)].db = d
        BY <3>1, <3>10
      <4>2. Len(reqs) > 0 \/ log[Len(log)].db = d
        BY <3>1
      <4> QED
        BY <3>1, <3>10, <4>1, <4>2, RequestsGrow
    <3>6. RequestsInDb'
      BY <1>1, <3>2, <3>4, <3>5 DEF SendSelect, RequestsInDb
    <3>7. nread = Len(log) /\ base' = Len(log) /\ db' = d /\ nread' = nread /\ got' = got
      BY <1>1, <2>2 DEF SendSelect, InStep, Position
    <3>8. FirstBatch(idx - 1)'
      <4>1. keys' \in Seq(Keys)
        BY <3>7, PipelineAssumption DEF keys
      <4> QED
        BY <3>2, <3>5, <3>7, <4>1, LenProperties DEF FirstBatch
    <3>9. InStep'
      BY <1>1, <3>2, <3>5, <3>7, <3>8 DEF SendSelect, InStep, Position, TypesOfKeys, RepliesOfKey
    <3> QED
      BY <1>1, <3>3, <3>6, <3>9 DEF SendSelect, Attributed
  <2> QED
    BY <2>1, <2>2
<1>2. ASSUME SendTypeAndMemory PROVE Aligned'
  <2>1. CASE ~ open
    BY <1>2, <2>1 DEF SendTypeAndMemory, env, ServedInOrder, RequestsInDb, InStep,
       TypesOfKeys, RepliesOfKey, Attributed
  <2>2. CASE open
    <3> DEFINE reqs == KeyReqs(db, keys[idx])
    <3>0. idx \in 1 .. Len(keys) /\ keys[idx] \in Keys /\ db \in DBs /\ Len(keys) \in Nat
      BY <1>2, KeysType DEF SendTypeAndMemory, TypeOK, ControlOK
    <3>10. /\ Req("TYPE", db, keys[idx]) \in Requests
           /\ Req("MEMORY", db, keys[idx]) \in Requests
      BY <3>0, ReqType DEF KeyCmds
    <3>11. /\ reqs \in Seq(Requests) /\ Len(reqs) = 2
           /\ reqs[1] = Req("TYPE", db, keys[idx]) /\ reqs[2] = Req("MEMORY", db, keys[idx])
      BY <3>10 DEF KeyReqs
    <3>1. /\ reqs \in Seq(Requests) /\ Len(reqs) = 2
          /\ reqs[1] = Req("TYPE", db, keys[idx]) /\ reqs[2] = Req("MEMORY", db, keys[idx])
          /\ \A j \in 1 .. Len(reqs) : reqs[j].db = db
      <4> HIDE DEF reqs
      <4> QED
        BY <3>11, ReqFields
    <3>2. Send(reqs) /\ idx' = idx + 1 /\ pc' = pc /\ pc = "send" /\ open'
          /\ UNCHANGED <<answers, sel, nread, base, db, got, emitted>>
      BY <1>2, <2>2 DEF SendTypeAndMemory, env
    <3> HIDE DEF reqs
    <3>3. ServedInOrder'
      BY <3>1, <3>2, ServedGrows
    <3>4. Len(log) > 0 /\ log[Len(log)].db = db
      BY <3>2, LenProperties, EmptySeq DEF RequestsInDb, TypeOK, ConnOK
    <3>12. reqs \in Seq(Requests) /\ Send(reqs)
      BY <3>1, <3>2
    <3>13. /\ Len(log) \in Nat /\ Len(log') = Len(log) + Len(reqs)
           /\ \A i \in 1 .. Len(log) : log'[i] = log[i]
           /\ \A j \in 1 .. Len(reqs) : log'[Len(log) + j] = reqs[j]
      BY <3>12, LogGrows
    <3>6. /\ Len(log) \in Nat /\ Len(log') = Len(log) + 2
          /\ \A i \in 1 .. Len(log) : log'[i] = log[i]
          /\ log'[Len(log) + 1] = reqs[1] /\ log'[Len(log) + 2] = reqs[2]
      BY <3>1, <3>13
    <3>5. RequestsInDb'
      <4>1. /\ \A i \in 1 .. Len(log') :
                 log'[i].cmd # "SELECT" => i > 1 /\ log'[i].db = log'[i - 1].db
            /\ log'[Len(log')].db = db
        BY <3>1, <3>2, <3>4, RequestsGrow
      <4>2. Len(log') > 0
        BY <3>6
      <4> QED
        BY <3>2, <4>1, <4>2 DEF RequestsInDb
    <3>7. nread = base /\ FirstBatch(idx - 1) /\ Len(log) = base + 2 * idx - 1 /\ base \in Nat
      BY <2>2, <3>2 DEF InStep, Position, TypeOK, ConnOK
    <3>8. FirstBatch(idx - 1)'
      <4>1. idx' - 1 = idx /\ keys' = keys
        BY <3>0, <3>2 DEF keys
      <4>2. /\ log'[base + 1] = Req("SELECT", db, NoKey)
            /\ \A j \in 1 .. idx - 1 : /\ log'[base + 2 * j] = Req("TYPE", db, keys[j])
                                       /\ log'[base + 2 * j + 1] = Req("MEMORY", db, keys[j])
        <5>1. log'[base + 1] = log[base + 1]
          BY <3>0, <3>6, <3>7
        <5>2. ASSUME NEW j \in 1 .. idx - 1
              PROVE  /\ log'[base + 2 * j] = log[base + 2 * j]
                     /\ log'[base + 2 * j + 1] = log[base + 2 * j + 1]
          <6>1. idx \in Nat /\ j \in Nat /\ j >= 1 /\ j + 1 <= idx
            BY <3>0
          <6>2. base + 2 * j + 1 <= Len(log)
            BY <6>1, <3>6, <3>7
          <6>3. base + 2 * j \in 1 .. Len(log) /\ base + 2 * j + 1 \in 1 .. Len(log)
            BY <6>1, <6>2, <3>6, <3>7
          <6> QED
            BY <3>6, <6>3
        <5>3. /\ log[base + 1] = Req("SELECT", db, NoKey)
              /\ \A j \in 1 .. idx - 1 : /\ log[base + 2 * j] = Req("TYPE", db, keys[j])
                                         /\ log[base + 2 * j + 1] = Req("MEMORY", db, keys[j])
          BY <3>7 DEF FirstBatch
        <5> QED
          BY <5>1, <5>2, <5>3
      <4>3. /\ log'[base + 2 * idx] = Req("TYPE", db, keys[idx])
            /\ log'[base + 2 * idx + 1] = Req("MEMORY", db, keys[idx])
        BY <3>0, <3>1, <3>6, <3>7
      <4>4. \A j \in 1 .. idx : /\ log'[base + 2 * j] = Req("TYPE", db, keys[j])
                                /\ log'[base + 2 * j + 1] = Req("MEMORY", db, keys[j])
        BY <3>0, <4>2, <4>3
      <4>5. idx <= Len(keys) /\ base + 1 + 2 * idx <= Len(log')
        BY <3>0, <3>6, <3>7
      <4> QED
        BY <3>2, <4>1, <4>2, <4>4, <4>5 DEF FirstBatch
    <3>9. InStep'
      BY <3>0, <3>2, <3>6, <3>7, <3>8 DEF InStep, Position, TypesOfKeys, RepliesOfKey
    <3> QED
      BY <3>2, <3>3, <3>5, <3>9 DEF Attributed
  <2> QED
    BY <2>1, <2>2
<1>3. ASSUME FlushKeys PROVE Aligned'
  <2>1. UNCHANGED <<log, answers, sel, nread, base, db, idx, types, got, emitted, open>>
        /\ pc = "send"
    BY <1>3 DEF FlushKeys, env
  <2>2. ServedInOrder' /\ Attributed'
    BY <2>1 DEF ServedInOrder, Attributed
  <2>3. RequestsInDb'
    BY <1>3, <2>1 DEF FlushKeys, RequestsInDb, count
  <2>4. CASE ~ open
    BY <1>3, <2>1, <2>2, <2>3, <2>4 DEF FlushKeys, InStep, TypesOfKeys, RepliesOfKey
  <2>5. CASE open
    <3>1. nread = base /\ FirstBatch(idx - 1) /\ Len(log) = base + 2 * idx - 1
          /\ base \in Nat /\ idx > Len(keys) /\ idx \in Nat /\ Len(keys) \in Nat
      BY <1>3, <2>5, KeysType DEF FlushKeys, InStep, Position, TypeOK, ConnOK, ControlOK
    <3>2. idx - 1 = Len(keys)
      BY <3>1 DEF FirstBatch
    <3>3. FirstBatch(Len(keys))'
      BY <2>1, <3>1, <3>2 DEF FirstBatch, keys
    <3>4. Len(log) = base + 1 + 2 * Len(keys)
      BY <3>1, <3>2
    <3>5. InStep'
      BY <1>3, <2>1, <2>5, <3>1, <3>3, <3>4 DEF FlushKeys, InStep, Position, TypesOfKeys,
         RepliesOfKey, keys
    <3> QED
      BY <2>2, <2>3, <3>5
  <2> QED
    BY <2>4, <2>5
<1> QED
  BY <1>1, <1>2, <1>3

(* The reply that is received answers the request at the same position.     *)
LEMMA Fit ==
  ASSUME TypeOK, ServedInOrder, Receive
  PROVE  /\ nread + 1 \in 1 .. Len(log) /\ nread' = nread + 1 /\ open
         /\ Received.cmd = log[nread + 1].cmd
         /\ Received.db = log[nread + 1].db
         /\ Received.key = log[nread + 1].key
         /\ log[nread + 1].cmd \in {"SELECT", "TYPE"} => Received.shape = "status"
<1>1. /\ nread \in Nat /\ Len(answers) \in Nat /\ Len(log) \in Nat /\ nread < Len(answers)
      /\ Len(answers) <= Len(log)
  BY LenProperties DEF TypeOK, ConnOK, Receive, Due
<1>2. nread + 1 \in 1 .. Len(answers)
  BY <1>1
<1> QED
  BY <1>1, <1>2 DEF ServedInOrder, Received, Receive

(* Receiving the first batch.                                               *)
LEMMA AlignedReceive ==
  ASSUME NoErrors, TypeOK, Aligned
  PROVE  /\ ReceiveSelect => Aligned'
         /\ ReceiveType => Aligned'
         /\ ReceiveMemory => Aligned'
<1> USE DEF Aligned
<1>1. ASSUME ReceiveSelect PROVE Aligned'
  <2>1. UNCHANGED <<log, answers, sel, base, db, slot, got, emitted, open>> /\ pc = "select"
        /\ pc' \in {"type", "next_db"}
    BY <1>1 DEF ReceiveSelect, env
  <2>2. ServedInOrder' /\ Attributed' /\ RequestsInDb'
    BY <2>1 DEF ServedInOrder, Attributed, RequestsInDb
  <2>3. TypesOfKeys' /\ RepliesOfKey'
    BY <1>1, <2>1 DEF ReceiveSelect, FreshTypes, InStep, TypesOfKeys, RepliesOfKey, keys
  <2>4. ASSUME open PROVE Position'
    <3>1. nread = base /\ FirstBatch(Len(keys)) /\ Len(log) = base + 1 + 2 * Len(keys)
          /\ base \in Nat /\ Len(keys) \in Nat
      BY <2>1, <2>4, KeysType DEF InStep, Position, TypeOK, ConnOK
    <3>2. Receive
      BY <1>1, <2>4 DEF ReceiveSelect
    <3>3. Received.shape = "status" /\ nread' = nread + 1
      BY <3>1, <3>2, Fit, ReqFields DEF FirstBatch
    <3>4. pc' = "type" /\ idx' = 1
      BY <1>1, <2>4, <3>3 DEF ReceiveSelect, IsString
    <3>5. FirstBatch(Len(keys))' /\ Len(log)' = base' + 1 + 2 * Len(keys)' /\ Len(keys)' = Len(keys)
      BY <2>1, <3>1 DEF FirstBatch, keys
    <3> QED
      BY <2>1, <3>1, <3>3, <3>4, <3>5 DEF Position
  <2> QED
    BY <2>1, <2>2, <2>3, <2>4 DEF InStep
<1>2. ASSUME ReceiveType PROVE Aligned'
  <2>1. UNCHANGED <<log, answers, sel, base, db, slot, got, emitted, open>> /\ pc = "type"
        /\ pc' \in {"type", "memory"} /\ idx \in 1 .. Len(keys) /\ Len(keys) \in Nat
        /\ types \in Seq(Replies) /\ Len(types) = Len(keys)
    BY <1>2, KeysType DEF ReceiveType, env, TypeOK, ControlOK
  <2>2. ServedInOrder' /\ Attributed' /\ RequestsInDb'
    BY <2>1 DEF ServedInOrder, Attributed, RequestsInDb
  <2>3. RepliesOfKey'
    BY <2>1 DEF InStep, RepliesOfKey
  <2>4. CASE open
    <3>1. nread = base + 2 * idx - 1 /\ FirstBatch(Len(keys))
          /\ Len(log) = base + 1 + 2 * Len(keys) /\ base \in Nat
      BY <2>1, <2>4 DEF InStep, Position, TypeOK, ConnOK
    <3>2. Receive
      BY <1>2, <2>4 DEF ReceiveType
    <3>3. log[nread + 1] = Req("TYPE", db, keys[idx])
      <4>1. nread + 1 = base + 2 * idx
        BY <2>1, <3>1
      <4> QED
        BY <2>1, <3>1, <4>1 DEF FirstBatch
    <3>4. /\ Received.shape = "status" /\ Received.db = db /\ Received.key = keys[idx]
          /\ nread' = nread + 1
      BY <3>2, <3>3, Fit, ReqFields
    <3>5. pc' = "memory" /\ idx' = idx /\ types' = [types EXCEPT ![idx] = Received]
      BY <1>2, <2>4, <3>4 DEF ReceiveType, IsString
    <3>6. TypesOfKeys'
      BY <2>1, <3>4, <3>5, LenProperties DEF InStep, TypesOfKeys, keys
    <3>7. FirstBatch(Len(keys))' /\ Len(log)' = base' + 1 + 2 * Len(keys)' /\ Len(keys)' = Len(keys)
      BY <2>1, <3>1 DEF FirstBatch, keys
    <3>8. Position'
      BY <2>1, <3>1, <3>4, <3>5, <3>7 DEF Position
    <3> QED
      BY <2>2, <2>3, <3>6, <3>8 DEF InStep
  <2>5. CASE ~ open
    <3>1. UNCHANGED types
      BY <1>2, <2>5 DEF ReceiveType, Receive
    <3> QED
      BY <2>1, <2>2, <2>3, <2>5, <3>1 DEF InStep, TypesOfKeys, keys
  <2> QED
    BY <2>4, <2>5
<1>3. ASSUME ReceiveMemory PROVE Aligned'
  <2>1. UNCHANGED <<log, answers, sel, base, db, types, slot, got, open>> /\ pc = "memory"
        /\ pc' = "type" /\ idx' = idx + 1 /\ idx \in 1 .. Len(keys) /\ Len(keys) \in Nat
    BY <1>3, KeysType DEF ReceiveMemory, env, TypeOK, ControlOK
  <2>2. ServedInOrder' /\ RequestsInDb'
    BY <2>1 DEF ServedInOrder, RequestsInDb
  <2>3. TypesOfKeys' /\ RepliesOfKey'
    BY <2>1 DEF InStep, TypesOfKeys, RepliesOfKey, keys
  <2>4. CASE open
    <3>1. nread = base + 2 * idx /\ FirstBatch(Len(keys))
          /\ Len(log) = base + 1 + 2 * Len(keys) /\ base \in Nat
      BY <2>1, <2>4 DEF InStep, Position, TypeOK, ConnOK
    <3>2. Receive
      BY <1>3, <2>4 DEF ReceiveMemory
    <3>3. log[nread + 1] = Req("MEMORY", db, keys[idx])
      BY <2>1, <3>1 DEF FirstBatch
    <3>4. Received.db = db /\ Received.key = keys[idx] /\ nread' = nread + 1
      BY <3>2, <3>3, Fit, ReqFields
    <3>5. Attributed'
      BY <1>3, <3>4 DEF ReceiveMemory, Attributed, Sample
    <3>6. FirstBatch(Len(keys))' /\ Len(log)' = base' + 1 + 2 * Len(keys)' /\ Len(keys)' = Len(keys)
      BY <2>1, <3>1 DEF FirstBatch, keys
    <3>7. nread' = base' + 2 * idx' - 1 /\ idx' <= Len(keys)' + 1
      BY <2>1, <3>1, <3>4, <3>6
    <3>8. Position'
      BY <2>1, <3>6, <3>7 DEF Position
    <3> QED
      BY <2>2, <2>3, <3>5, <3>8 DEF InStep
  <2>5. CASE ~ open
    <3>1. UNCHANGED emitted
      BY <1>3, <2>5 DEF ReceiveMemory, Receive
    <3> QED
      BY <2>1, <2>2, <2>3, <2>5, <3>1 DEF InStep, Attributed
  <2> QED
    BY <2>4, <2>5
<1> QED
  BY <1>1, <1>2, <1>3

(* What the second batch exports for a key is made from replies about it.   *)
LEMMA InfoSamplesAttributed ==
  ASSUME NEW typ \in Replies, NEW rs \in Seq(Replies), NEW d, NEW k,
         Len(rs) = Len(InfoCmds(TypeName(typ))),
         typ # NoReply => typ.db = d /\ typ.key = k,
         \A j \in 1 .. Len(rs) : rs[j] # NoReply => rs[j].db = d /\ rs[j].key = k,
         NEW s \in InfoSamples(typ, rs, d, k)
  PROVE  s.from.db = s.db /\ s.from.key = s.key
<1>1. NoReply.shape = "error" /\ ~ IsInt64(NoReply) /\ ~ IsString(NoReply) /\ TypeName(NoReply) = ""
  BY DEF NoReply, PlainReply, IsInt64, IsString, TypeName
<1>2. CASE TypeName(typ) = "none"
  <2>1. typ # NoReply
    BY <1>1, <1>2
  <2>2. s = Sample("key_size", d, k, typ)
    BY <1>2 DEF InfoSamples
  <2> QED
    BY <2>1, <2>2 DEF Sample
<1>3. CASE TypeName(typ) = "string"
  <2>1. Len(rs) = 3
    BY <1>3 DEF InfoCmds
  <2>2. \A j \in {1, 2, 3} : rs[j] # NoReply => rs[j].db = d /\ rs[j].key = k
    BY <2>1
  <2>3. \E j \in {1, 2, 3} : (IsInt64(rs[j]) \/ IsString(rs[j])) /\ s.from = rs[j]
                             /\ s.db = d /\ s.key = k
    BY <1>3 DEF InfoSamples, StringSamples, ValueSamples, Sample
  <2> QED
    BY <1>1, <2>2, <2>3
<1>4. CASE TypeName(typ) = "list"
  <2>1. Len(rs) = 1
    BY <1>4 DEF InfoCmds
  <2>2. IsInt64(rs[1]) /\ s.from = rs[1] /\ s.db = d /\ s.key = k
    BY <1>4 DEF InfoSamples, Sample
  <2>3. rs[1] # NoReply
    BY <1>1, <2>2
  <2>4. rs[1].db = d /\ rs[1].key = k
    BY <2>1, <2>3
  <2> QED
    BY <2>2, <2>4
<1> QED
  BY <1>2, <1>3, <1>4 DEF InfoSamples

(* Sending the second batch.                                                *)
LEMMA AlignedSendInfo ==
  ASSUME NoErrors, TypeOK, Aligned
  PROVE  /\ GetKeyInfo => Aligned'
         /\ SendInfo => Aligned'
         /\ FlushInfo => Aligned'
<1> USE DEF Aligned
<1>1. ASSUME GetKeyInfo PROVE Aligned'
  <2>1. /\ UNCHANGED <<log, answers, nread, sel, base, db, types, got, emitted, open>>
        /\ pc = "type" /\ pc' = "send_info" /\ idx > Len(keys) /\ idx' = 1
        /\ slot' = <<Len(log)>>
    BY <1>1 DEF GetKeyInfo, env
  <2>2. ServedInOrder' /\ Attributed' /\ RequestsInDb'
    BY <2>1 DEF ServedInOrder, Attributed, RequestsInDb
  <2>3. TypesOfKeys' /\ RepliesOfKey'
    BY <2>1 DEF InStep, TypesOfKeys, RepliesOfKey, keys
  <2>4. ASSUME open PROVE Position'
    <3>0. /\ nread = base + 2 * idx - 1 /\ Len(log) = base + 1 + 2 * Len(keys)
          /\ idx <= Len(keys) + 1
      BY <2>1, <2>4 DEF InStep, Position
    <3>1. /\ nread = base + 2 * idx - 1 /\ Len(log) = base + 1 + 2 * Len(keys)
          /\ idx = Len(keys) + 1 /\ base \in Nat /\ Len(keys) \in Nat
      BY <2>1, <3>0, KeysType DEF TypeOK, ConnOK, ControlOK
    <3>2. nread = base + 1 + 2 * Len(keys)
      BY <3>1
    <3>3. Len(slot') = 1 /\ slot'[1] = Len(log) /\ idx' - 1 = 0 /\ keys' = keys
      BY <2>1 DEF keys
    <3>4. SecondBatch(idx - 1)'
      BY <2>1, <3>1, <3>3 DEF SecondBatch
    <3> QED
      BY <2>1, <3>2, <3>3, <3>4 DEF Position
  <2> QED
    BY <2>1, <2>2, <2>3, <2>4 DEF InStep
<1>2. ASSUME SendInfo PROVE Aligned'
  <2> DEFINE cmds == InfoCmds(TypeName(types[idx]))
  <2>1. /\ UNCHANGED <<answers, nread, sel, base, db, types, got, emitted, open>>
        /\ pc = "send_info" /\ idx \in 1 .. Len(keys) /\ Len(keys) \in Nat
    BY <1>2, KeysType DEF SendInfo, env, TypeOK, ControlOK
  <2>2. got = <<>>
    BY <2>1 DEF InStep, RepliesOfKey
  <2>3. CASE pc' = "next_db" /\ ~ open /\ UNCHANGED <<log, slot, idx>>
    BY <2>1, <2>2, <2>3 DEF ServedInOrder, RequestsInDb, InStep, TypesOfKeys, RepliesOfKey,
       Attributed
  <2>4. CASE /\ Send([i \in DOMAIN cmds |-> Req(cmds[i], db, keys[idx])])
             /\ slot' = Append(slot, Len(log')) /\ idx' = idx + 1 /\ pc' = pc
    <3>1. PICK reqs \in Seq(Requests) :
             /\ Send(reqs) /\ Len(reqs) = Len(cmds) /\ Len(cmds) \in Nat
             /\ \A j \in 1 .. Len(cmds) : reqs[j] = Req(cmds[j], db, keys[idx])
      BY <2>1, <2>4, InfoReqsType DEF TypeOK
    <3>2. \A j \in 1 .. Len(reqs) : reqs[j].db = db
      BY <3>1, ReqFields
    <3>3. ServedInOrder' /\ Attributed'
      BY <2>1, <3>1, ServedGrows DEF Attributed
    <3>4. /\ Len(log) \in Nat /\ Len(log') = Len(log) + Len(cmds)
          /\ \A i \in 1 .. Len(log) : log'[i] = log[i]
          /\ \A j \in 1 .. Len(cmds) : log'[Len(log) + j] = reqs[j]
      BY <3>1, LogGrows
    <3>5. Len(log) > 0 /\ log[Len(log)].db = db
      BY <2>1, LenProperties, EmptySeq DEF RequestsInDb, TypeOK, ConnOK
    <3>6. /\ \A i \in 1 .. Len(log') :
               log'[i].cmd # "SELECT" => i > 1 /\ log'[i].db = log'[i - 1].db
          /\ log'[Len(log')].db = db
      BY <3>1, <3>2, <3>5, RequestsGrow
    <3>7. RequestsInDb'
      BY <2>1, <2>4, <3>1, <3>4, <3>5, <3>6 DEF RequestsInDb
    <3>8. TypesOfKeys' /\ RepliesOfKey'
      BY <2>1, <2>2, <2>4 DEF InStep, TypesOfKeys, RepliesOfKey, keys
    <3>9. ASSUME open PROVE Position'
      <4>1. nread = base + 1 + 2 * Len(keys) /\ SecondBatch(idx - 1)
        BY <2>1, <3>9 DEF InStep, Position
      <4>2. /\ Len(slot) = idx /\ slot[1] = base + 1 + 2 * Len(keys) /\ slot[idx] = Len(log)
            /\ \A i \in 1 .. idx - 1 :
                 /\ slot[i + 1] = slot[i] + width(i) /\ slot[i + 1] <= Len(log)
                 /\ \A j \in 1 .. width(i) :
                      log[slot[i] + j] = Req(InfoCmds(TypeName(types[i]))[j], db, keys[i])
        BY <2>1, <4>1 DEF SecondBatch
      <4>3. slot \in Seq(Nat) /\ \A i \in 1 .. idx : slot[i] \in Nat
        BY <4>2, ElementOfSeq DEF TypeOK, ControlOK
      <4>4. /\ Len(slot') = idx + 1 /\ slot'[idx + 1] = Len(log')
            /\ \A i \in 1 .. idx : slot'[i] = slot[i]
        BY <2>1, <2>4, <3>1, <3>4, <4>2, <4>3
      <4>5. width(idx) = Len(cmds) /\ \A i : width(i)' = width(i) /\ keys' = keys
        BY <2>1 DEF width, keys
      <4>6. ASSUME NEW i \in 1 .. idx
            PROVE  /\ slot'[i + 1] = slot'[i] + width(i) /\ slot'[i + 1] <= Len(log')
                   /\ \A j \in 1 .. width(i) :
                        log'[slot'[i] + j] = Req(InfoCmds(TypeName(types[i]))[j], db, keys[i])
        <5>1. CASE i = idx
          <6>1. /\ slot'[idx + 1] = slot'[idx] + width(idx) /\ slot'[idx + 1] <= Len(log')
                /\ slot'[idx] = Len(log)
            <7>1. slot'[idx] = Len(log) /\ slot'[idx + 1] = Len(log')
              BY <2>1, <4>2, <4>4
            <7>2. width(idx) = Len(cmds)
              BY <4>5
            <7>3. Len(log') = Len(log) + Len(cmds) /\ Len(log) \in Nat /\ Len(cmds) \in Nat
              BY <3>1, <3>4
            <7> HIDE DEF cmds
            <7> QED
              BY <7>1, <7>2, <7>3
          <6>2. \A j \in 1 .. width(idx) : log'[Len(log) + j] = Req(cmds[j], db, keys[idx])
            BY <3>1, <3>4, <4>5
          <6> QED
            BY <5>1, <6>1, <6>2
        <5>2. CASE i \in 1 .. idx - 1
          <6>1. slot'[i + 1] = slot[i + 1] /\ slot'[i] = slot[i] /\ slot[i] \in Nat
                /\ slot[i + 1] \in Nat
            BY <2>1, <4>3, <4>4, <5>2
          <6>2. slot[i + 1] = slot[i] + width(i) /\ slot[i + 1] <= Len(log)
            BY <4>2, <5>2
          <6>3. width(i) \in Nat
            BY InfoCmdsType DEF width
          <6>4. ASSUME NEW j \in 1 .. width(i)
                PROVE  log'[slot'[i] + j] = Req(InfoCmds(TypeName(types[i]))[j], db, keys[i])
            <7>1. slot[i] + j \in 1 .. Len(log)
              BY <3>4, <6>1, <6>2, <6>3
            <7> QED
              BY <3>4, <4>2, <5>2, <6>1, <7>1
          <6> QED
            BY <3>1, <3>4, <6>1, <6>2, <6>4
        <5> QED
          BY <2>1, <5>1, <5>2
      <4>7. SecondBatch(idx - 1)'
        <5>1. idx' - 1 = idx /\ types' = types /\ db' = db
          BY <2>1, <2>4
        <5>2. slot'[1] = slot[1]
          BY <2>1, <4>4
        <5> QED
          BY <2>1, <4>2, <4>4, <4>5, <4>6, <5>1, <5>2 DEF SecondBatch
      <4> QED
        BY <2>1, <2>4, <4>1, <4>5, <4>7 DEF Position
    <3> QED
      BY <2>1, <3>3, <3>7, <3>8, <3>9 DEF InStep
  <2> QED
    BY <1>2, <2>3, <2>4 DEF SendInfo
<1>3. ASSUME FlushInfo PROVE Aligned'
  <2>1. /\ UNCHANGED <<log, answers, nread, sel, base, db, types, slot, got, emitted, open>>
        /\ pc = "send_info" /\ pc' \in {"info", "next_db"} /\ idx > Len(keys)
    BY <1>3 DEF FlushInfo, env
  <2>2. ServedInOrder' /\ Attributed' /\ RequestsInDb'
    BY <2>1 DEF ServedInOrder, Attributed, RequestsInDb
  <2>3. got = <<>>
    BY <2>1 DEF InStep, RepliesOfKey
  <2>4. TypesOfKeys' /\ RepliesOfKey'
    BY <2>1, <2>3 DEF InStep, TypesOfKeys, RepliesOfKey, keys
  <2>5. ASSUME open PROVE Position'
    <3>1. /\ nread = base + 1 + 2 * Len(keys) /\ SecondBatch(idx - 1)
          /\ idx \in Nat /\ Len(keys) \in Nat
      BY <2>1, <2>5, KeysType DEF InStep, Position, TypeOK, ControlOK
    <3>2. idx - 1 = Len(keys)
      BY <2>1, <3>1 DEF SecondBatch
    <3>3. pc' = "info" /\ idx' = 1
      BY <1>3, <2>5 DEF FlushInfo
    <3>4. SecondBatch(Len(keys))' /\ Len(keys)' = Len(keys)
      BY <2>1, <3>1, <3>2 DEF SecondBatch, width, keys
    <3>5. nread' = slot'[1] + Len(got') /\ base \in Nat
      BY <2>1, <2>3, <3>1 DEF SecondBatch, TypeOK, ConnOK
    <3> QED
      BY <3>1, <3>3, <3>4, <3>5 DEF Position
  <2> QED
    BY <2>1, <2>2, <2>4, <2>5 DEF InStep
<1> QED
  BY <1>1, <1>2, <1>3

(* Receiving the second batch.                                              *)
LEMMA AlignedReceiveInfo ==
  ASSUME NoErrors, TypeOK, Aligned
  PROVE  /\ ReceiveInfo => Aligned'
         /\ EmitInfo => Aligned'
         /\ EndDb \/ EndKeys => Aligned'
<1> USE DEF Aligned
<1>1. ASSUME ReceiveInfo PROVE Aligned'
  <2>1. /\ UNCHANGED <<log, answers, sel, base, pc, db, idx, types, slot, emitted, open>>
        /\ pc = "info" /\ idx \in 1 .. Len(keys) /\ Len(keys) \in Nat
        /\ Len(got) < width(idx) /\ got \in Seq(Replies) /\ width(idx) \in Nat
    BY <1>1, KeysType, InfoCmdsType, ReceivesMatchSends DEF ReceiveInfo, env, width, TypeOK, ControlOK
  <2>2. ServedInOrder' /\ Attributed' /\ RequestsInDb' /\ TypesOfKeys'
    BY <2>1 DEF ServedInOrder, Attributed, RequestsInDb, InStep, TypesOfKeys, keys, count
  <2>3. Len(got) \in Nat
    BY <2>1, LenProperties
  <2>4. ASSUME Receive
        PROVE  Received.db = db /\ Received.key = keys[idx] /\ nread' = nread + 1
               /\ nread = slot[idx] + Len(got) /\ slot[idx] \in Nat
    <3>1. nread = slot[idx] + Len(got) /\ SecondBatch(Len(keys))
      BY <2>1, <2>4 DEF Receive, InStep, Position
    <3>5. slot \in Seq(Nat) /\ Len(slot) = Len(keys) + 1
      BY <3>1 DEF SecondBatch, TypeOK, ControlOK
    <3>6. idx \in 1 .. Len(slot)
      BY <2>1, <3>5
    <3>2. slot[idx] \in Nat
      BY <3>5, <3>6, ElementOfSeq
    <3>3. Len(got) + 1 \in 1 .. width(idx) /\ nread + 1 = slot[idx] + (Len(got) + 1)
      BY <2>1, <2>3, <3>1, <3>2
    <3>4. log[nread + 1] = Req(InfoCmds(TypeName(types[idx]))[Len(got) + 1], db, keys[idx])
      BY <2>1, <3>1, <3>3 DEF SecondBatch
    <3> QED
      BY <2>4, <3>1, <3>2, <3>4, Fit, ReqFields
  <2>5. PICK r \in Replies : /\ got' = Append(got, r)
                             /\ r # NoReply => r.db = db /\ r.key = keys[idx]
    BY <1>1, <2>4, ReceivedType, NoReplyType DEF ReceiveInfo, TypeOK, ConnOK, env
  <2>6. /\ Len(got') = Len(got) + 1 /\ got'[Len(got) + 1] = r
        /\ \A j \in 1 .. Len(got) : got'[j] = got[j]
    BY <2>1, <2>5
  <2>7. RepliesOfKey'
    <3>1. \A j \in 1 .. Len(got) : got[j] # NoReply => got[j].db = db /\ got[j].key = keys[idx]
      BY <2>1, <2>3 DEF InStep, RepliesOfKey
    <3>2. \A j \in 1 .. Len(got) + 1 :
             got'[j] # NoReply => got'[j].db = db /\ got'[j].key = keys[idx]
      BY <2>3, <2>5, <2>6, <3>1
    <3>3. Len(got') <= width(idx) /\ width(idx)' = width(idx) /\ keys' = keys
      BY <2>1, <2>3, <2>6 DEF width, keys
    <3> QED
      BY <2>1, <2>6, <3>2, <3>3 DEF RepliesOfKey
  <2>8. ASSUME open PROVE Position'
    <3>1. Receive
      BY <1>1, <2>8 DEF ReceiveInfo
    <3>5. nread' = nread + 1 /\ nread = slot[idx] + Len(got) /\ slot[idx] \in Nat
      BY <2>4, <3>1
    <3>6. nread' = slot[idx] + Len(got')
      <4>1. Len(got') = Len(got) + 1
        BY <2>6
      <4> QED
        BY <2>3, <3>5, <4>1
    <3>2. nread' = slot[idx] + Len(got') /\ idx <= Len(keys) + 1
      BY <2>1, <3>6
    <3>3. SecondBatch(Len(keys)) /\ Len(keys)' = Len(keys)
      BY <2>1, <2>8 DEF InStep, Position, keys
    <3>4. SecondBatch(Len(keys))'
      BY <2>1, <3>3 DEF SecondBatch, width, keys
    <3> QED
      BY <2>1, <3>2, <3>3, <3>4 DEF Position
  <2> QED
    BY <2>1, <2>2, <2>7, <2>8 DEF InStep
<1>2. ASSUME EmitInfo PROVE Aligned'
  <2>1. /\ UNCHANGED <<log, answers, nread, sel, base, pc, db, types, slot, open>>
        /\ pc = "info" /\ idx \in 1 .. Len(keys) /\ Len(keys) \in Nat
        /\ Len(got) = width(idx) /\ got \in Seq(Replies) /\ got' = <<>> /\ idx' = idx + 1
        /\ types[idx] \in Replies
    BY <1>2, KeysType, ElementOfSeq, ReceivesMatchSends DEF EmitInfo, env, width, TypeOK, ControlOK
  <2>2. ServedInOrder' /\ RequestsInDb' /\ TypesOfKeys' /\ RepliesOfKey'
    BY <2>1 DEF ServedInOrder, RequestsInDb, InStep, TypesOfKeys, RepliesOfKey, keys, count
  <2>3. Attributed'
    <3>1. types[idx] # NoReply => types[idx].db = db /\ types[idx].key = keys[idx]
      BY <2>1 DEF InStep, TypesOfKeys
    <3>2. \A j \in 1 .. Len(got) : got[j] # NoReply => got[j].db = db /\ got[j].key = keys[idx]
      <4>1. CASE got = <<>>
        BY <4>1
      <4>2. CASE got # <<>>
        BY <4>2 DEF InStep, RepliesOfKey
      <4> QED
        BY <4>1, <4>2
    <3>3. \A s \in InfoSamples(types[idx], got, db, keys[idx]) :
             s.from.db = s.db /\ s.from.key = s.key
      BY <2>1, <3>1, <3>2, InfoSamplesAttributed DEF width
    <3> QED
      BY <1>2, <3>3 DEF EmitInfo, Attributed
  <2>4. ASSUME open PROVE Position'
    <3>1. nread = slot[idx] + Len(got) /\ SecondBatch(Len(keys))
      BY <2>1, <2>4 DEF InStep, Position
    <3>5. slot \in Seq(Nat) /\ Len(slot) = Len(keys) + 1
      BY <3>1 DEF SecondBatch, TypeOK, ControlOK
    <3>6. idx + 1 \in 1 .. Len(slot)
      BY <2>1, <3>5
    <3>7. slot[idx + 1] \in Nat /\ Len(<<>>) = 0
      BY <3>5, <3>6, ElementOfSeq
    <3>2. slot[idx + 1] = slot[idx] + width(idx)
      BY <2>1, <3>1 DEF SecondBatch
    <3>8. slot'[idx'] = slot[idx + 1] /\ Len(got') = 0 /\ nread' = slot[idx + 1]
      BY <2>1, <3>1, <3>2, <3>7
    <3>3. nread' = slot'[idx'] + Len(got') /\ idx' <= Len(keys) + 1
      BY <2>1, <3>7, <3>8
    <3>4. SecondBatch(Len(keys))' /\ Len(keys)' = Len(keys)
      BY <2>1, <3>1 DEF SecondBatch, width, keys
    <3> QED
      BY <2>1, <3>3, <3>4 DEF Position
  <2> QED
    BY <2>1, <2>2, <2>3, <2>4 DEF InStep
<1>3. ASSUME EndDb \/ EndKeys PROVE Aligned'
  <2>1. /\ UNCHANGED <<log, answers, nread, sel, base, db, types, slot, emitted, open, got>>
        /\ \/ pc = "info" /\ pc' = "next_db" /\ idx > Len(keys)
           \/ pc = "next_db" /\ pc' = "count"
    BY <1>3 DEF EndDb, EndKeys, env
  <2>2. ServedInOrder' /\ Attributed' /\ RequestsInDb' /\ TypesOfKeys'
    BY <2>1 DEF ServedInOrder, Attributed, RequestsInDb, InStep, TypesOfKeys
  <2>3. got = <<>>
    <3>1. Len(keys) \in Nat /\ idx \in Nat
      BY KeysType DEF TypeOK, ControlOK
    <3> QED
      BY <2>1, <3>1 DEF InStep, RepliesOfKey
  <2>4. ASSUME open PROVE nread = Len(log)
    <3>1. CASE pc = "info"
      <4>1. /\ idx <= Len(keys) + 1 /\ SecondBatch(Len(keys)) /\ nread = slot[idx] + Len(got)
        BY <2>4, <3>1 DEF InStep, Position
      <4>2. idx = Len(keys) + 1
        BY <2>1, <3>1, <4>1, KeysType DEF TypeOK, ControlOK
      <4>3. slot[idx] = Len(log) /\ Len(log) \in Nat /\ Len(got) = 0
        BY <2>3, <4>1, <4>2, LenProperties, EmptySeq DEF SecondBatch, TypeOK, ConnOK
      <4> QED
        BY <4>1, <4>3
    <3>2. CASE pc = "next_db"
      BY <2>4, <3>2 DEF InStep, Position
    <3> QED
      BY <2>1, <3>1, <3>2
  <2> QED
    BY <2>1, <2>2, <2>3, <2>4 DEF InStep, Position, RepliesOfKey
<1> QED
  BY <1>1, <1>2, <1>3

(* The counts keep the connection in step.                                  *)
LEMMA AlignedCount ==
  ASSUME NoErrors, TypeOK, Aligned, CountsAligned
  PROVE  /\ CountSelect => Aligned'
         /\ CountSkip => Aligned'
         /\ CountScan => Aligned'
         /\ CountEmit => Aligned'
         /\ CountEnd => Aligned'
<1> USE DEF Aligned
<1>0. pc \notin {"info"} => got = <<>>
  BY DEF InStep, RepliesOfKey
<1>1. ASSUME pc \in {"count", "count_select"}, cnt \in 1 .. Len(CountDBs),
             NEW cmd \in {"SELECT", "SCAN"}, NEW next \in {"count_select", "count_scan"},
             pc = "count" => cmd = "SELECT",
             CountDo(Req(cmd, count, NoKey), next),
             UNCHANGED <<env, emitted, todo, db, idx, types, got, base, slot>>
      PROVE  Aligned'
  <2>0. UNCHANGED <<answers, sel, emitted, got, open>> /\ got = <<>>
    BY <1>0, <1>1 DEF env
  <2>1. CASE ~ open
    <3>1. pc' = "count" /\ UNCHANGED log
      BY <1>1, <2>1 DEF CountDo
    <3> QED
      BY <2>0, <2>1, <3>1 DEF ServedInOrder, RequestsInDb, InStep, TypesOfKeys,
         RepliesOfKey, Attributed
  <2>2. CASE open
    <3>1. <<Req(cmd, count, NoKey)>> \in Seq(Requests)
      BY <1>1, ReqType, PipelineAssumption DEF count
    <3>2. PICK reqs \in Seq(Requests) : /\ Len(reqs) = 1 /\ reqs[1] = Req(cmd, count, NoKey)
                                        /\ Send(reqs)
      BY <1>1, <2>2, <3>1 DEF CountDo
    <3>3. pc' = next /\ UNCHANGED cnt
      BY <1>1, <2>2 DEF CountDo
    <3>4. reqs[1].cmd = cmd /\ \A j \in 1 .. Len(reqs) : reqs[j].db = count
      BY <3>2, ReqFields
    <3>5. ServedInOrder'
      BY <2>0, <3>2, ServedGrows
    <3>6. \/ Len(reqs) > 0 /\ reqs[1].cmd = "SELECT"
          \/ Len(log) > 0 /\ log[Len(log)].db = count
      <4>1. CASE cmd = "SELECT"
        BY <3>2, <3>4, <4>1
      <4>2. CASE pc = "count_select"
        BY <4>2 DEF RequestsInDb, TypeOK, ControlOK
      <4> QED
        BY <1>1, <4>1, <4>2
    <3>7. Len(reqs) > 0 \/ log[Len(log)].db = count
      BY <3>2
    <3>8. /\ \A i \in 1 .. Len(log') :
               log'[i].cmd # "SELECT" => i > 1 /\ log'[i].db = log'[i - 1].db
          /\ log'[Len(log')].db = count
      BY <3>2, <3>4, <3>6, <3>7, RequestsGrow
    <3>9. RequestsInDb'
      BY <1>1, <3>3, <3>8 DEF RequestsInDb, count
    <3>10. InStep'
      BY <1>1, <2>0, <3>3 DEF InStep, Position, TypesOfKeys, RepliesOfKey
    <3> QED
      BY <2>0, <3>5, <3>9, <3>10 DEF Attributed
  <2> QED
    BY <2>1, <2>2
<1>2. ASSUME CountSelect PROVE Aligned'
  BY <1>1, <1>2 DEF CountSelect, TypeOK, ControlOK
<1>3. ASSUME CountScan PROVE Aligned'
  BY <1>1, <1>3 DEF CountScan, TypeOK, ControlOK
<1>4. ASSUME CountSkip \/ CountEmit PROVE Aligned'
  <2>1. /\ UNCHANGED <<log, answers, sel, got, open>> /\ pc' = "count" /\ got = <<>>
        /\ open => nread' = Len(log)
    BY <1>0, <1>4 DEF CountSkip, CountEmit, AllDue, env
  <2>2. ServedInOrder' /\ RequestsInDb' /\ InStep'
    BY <2>1 DEF ServedInOrder, RequestsInDb, InStep, Position, TypesOfKeys, RepliesOfKey
  <2>3. Attributed'
    <3>1. CASE CountSkip
      BY <3>1 DEF CountSkip, Attributed
    <3>2. CASE CountEmit
      <4>1. Len(answers) = Len(log) /\ Len(log) > 0 /\ Len(log) \in Nat
        BY <3>2, LenProperties DEF CountEmit, AllDue, TypeOK, ConnOK, ControlOK
      <4>2. /\ log[Len(log)] = Req("SCAN", count, NoKey)
            /\ answers[Len(answers)].db = count
        BY <3>2, <4>1 DEF CountEmit, CountsAligned, CountsInStep
      <4>3. answers[Len(answers)].key = NoKey
        BY <4>1, <4>2, ReqFields DEF ServedInOrder
      <4> QED
        BY <3>2, <4>2, <4>3 DEF CountEmit, Attributed, Sample
    <3> QED
      BY <1>4, <3>1, <3>2
  <2> QED
    BY <2>2, <2>3
<1>5. ASSUME CountEnd PROVE Aligned'
  BY <1>0, <1>5 DEF CountEnd, env, ServedInOrder, RequestsInDb, InStep, Position,
     TypesOfKeys, RepliesOfKey, Attributed
<1> QED
  BY <1>2, <1>3, <1>4, <1>5

LEMMA AlignedStep == NoErrors /\ TypeOK /\ CountsAligned /\ Aligned /\ [Next]_vars => Aligned'
<1> SUFFICES ASSUME NoErrors, TypeOK, CountsAligned, Aligned, [Next]_vars PROVE Aligned'
  OBVIOUS
<1>1. CASE Exporter
  BY <1>1, AlignedSend, AlignedReceive, AlignedSendInfo, AlignedReceiveInfo, AlignedCount
     DEF Exporter
<1>2. CASE Serve \/ Break \/ \E d \in DBs, k \in Keys, kind \in WriteKinds : ClientWrite(d, k, kind)
  BY <1>2, AlignedEnvironment
<1>3. CASE Done \/ UNCHANGED vars
  <2>1. UNCHANGED <<emitted, log, answers, nread, sel, open, pc, db, idx, types, got, cnt,
                    base, slot>>
    BY <1>3 DEF Done, vars, connVars
  <2>2. ServedInOrder' /\ RequestsInDb' /\ Attributed'
    BY <2>1 DEF Aligned, ServedInOrder, RequestsInDb, Attributed, count
  <2>3. TypesOfKeys' /\ RepliesOfKey'
    BY <2>1 DEF Aligned, InStep, TypesOfKeys, RepliesOfKey, width, keys
  <2>4. open => Position'
    BY <2>1 DEF Aligned, InStep, Position, FirstBatch, SecondBatch, width, keys
  <2> QED
    BY <2>1, <2>2, <2>3, <2>4 DEF Aligned, InStep
<1> QED
  BY <1>1, <1>2, <1>3 DEF Next

(* When SELECT, TYPE and MEMORY USAGE answer no error, the receive loops of *)
(* both batches stay in step with their send loops: every reply is at the   *)
(* position of its request and is taken for what it answers.                *)
THEOREM AlignedCorrect ==
  ASSUME NoErrors
  PROVE  Spec => []Aligned
<1>1. Init => TypeOK /\ CountsAligned /\ Aligned
  BY InitType, CountsInit, AlignedInit
<1>2. TypeOK /\ CountsAligned /\ Aligned /\ [Next]_vars => (TypeOK /\ CountsAligned /\ Aligned)'
  BY NoErrors, TypeStep, CountsStep, AlignedStep
<1> QED
  BY <1>1, <1>2, PTL DEF Spec

(* So every sample of the key pipeline was made from a reply about the key  *)
(* and the database it is labelled with, whatever other clients write and   *)
(* wherever the connection breaks.                                          *)
THEOREM AttributionCorrect ==
  ASSUME NoErrors
  PROVE  Spec => []Attributed
<1>1. Aligned => Attributed
  BY DEF Aligned
<1>2. Spec => []Aligned
  BY NoErrors, AlignedCorrect
<1> QED
  BY <1>1, <1>2, PTL

(* Under the same condition the pipeline leaves no reply behind on a        *)
(* connection that is still open.                                           *)
THEOREM HandOverCorrect ==
  ASSUME NoErrors
  PROVE  Spec => []CleanHandOver
<1>1. Aligned => CleanHandOver
  BY DEF Aligned, InStep, Position, CleanHandOver
<1>2. Spec => []Aligned
  BY NoErrors, AlignedCorrect
<1> QED
  BY <1>1, <1>2, PTL

-----------------------------------------------------------------------------
(* A Receive never waits for a reply that was not asked for, whatever       *)
(* errors came back before.                                                 *)

(* The requests of the second batch for the first m keys: slot holds where  *)
(* those of each key begin.                                                 *)
InfoSlots(m) ==
  /\ Len(slot) = m + 1 /\ slot[m + 1] = Len(log)
  /\ \A i \in 1 .. m : slot[i + 1] = slot[i] + width(i) /\ slot[i + 1] <= Len(log)

(* Errors make the receive loops take fewer replies than they requested:    *)
(* the exporter is never ahead of the position its loops expect.            *)
Room ==
  /\ pc = "send" => /\ nread <= base /\ idx <= Len(keys) + 1
                    /\ Len(log) = base + 2 * idx - 1
  /\ pc = "select" => nread <= base /\ flushed = base + 1 + 2 * Len(keys)
  /\ pc = "type" => /\ nread <= base + 2 * idx - 1 /\ idx <= Len(keys) + 1
                    /\ flushed = base + 1 + 2 * Len(keys)
  /\ pc = "memory" => nread <= base + 2 * idx /\ flushed = base + 1 + 2 * Len(keys)
  /\ pc = "send_info" => InfoSlots(idx - 1) /\ nread <= slot[1] /\ idx <= Len(keys) + 1
  /\ pc = "info" => /\ InfoSlots(Len(keys)) /\ idx <= Len(keys) + 1
                    /\ flushed = Len(log) /\ nread <= slot[idx] + Len(got)

LEMMA RoomNumbers ==
  ASSUME TypeOK
  PROVE  /\ nread \in Nat /\ base \in Nat /\ flushed \in Nat /\ Len(log) \in Nat /\ idx \in Nat
         /\ idx >= 1 /\ base <= Len(log) /\ nread <= Len(answers) /\ Len(answers) \in Nat
         /\ Len(answers) <= flushed /\ flushed <= Len(log)
         /\ Len(keys) \in Nat /\ Len(got) \in Nat /\ slot \in Seq(Nat)
<1>1. /\ Len(answers) \in Nat /\ Len(log) \in Nat /\ Len(got) \in Nat
  BY LenProperties DEF TypeOK, ConnOK, ControlOK
<1> QED
  BY <1>1, KeysType DEF TypeOK, ConnOK, ControlOK

LEMMA WidthType == ASSUME NEW i PROVE width(i) \in Nat
BY InfoCmdsType DEF width

LEMMA RoomStays ==
  ASSUME Room, UNCHANGED <<log, flushed, nread, pc, db, idx, types, got, base, slot>>
  PROVE  Room'
<1>1. UNCHANGED keys /\ \A i : width(i)' = width(i)
  BY DEF keys, width
<1> QED
  BY <1>1 DEF Room, InfoSlots

(* The first batch.                                                         *)
LEMMA RoomFirst ==
  ASSUME TypeOK, Room
  PROVE  /\ \A d \in DBs : SendSelect(d) => Room'
         /\ SendTypeAndMemory => Room'
         /\ FlushKeys => Room'
         /\ ReceiveSelect => Room'
         /\ ReceiveType => Room'
         /\ ReceiveMemory => Room'
<1>0. /\ nread \in Nat /\ base \in Nat /\ flushed \in Nat /\ Len(log) \in Nat /\ idx \in Nat
      /\ idx >= 1 /\ base <= Len(log) /\ nread <= Len(answers) /\ Len(answers) \in Nat
      /\ Len(answers) <= flushed /\ flushed <= Len(log)
      /\ Len(keys) \in Nat /\ Len(got) \in Nat /\ slot \in Seq(Nat)
  BY RoomNumbers
<1>1. ASSUME NEW d \in DBs, SendSelect(d) PROVE Room'
  <2>1. CASE open
    <3>1. Send(<<Req("SELECT", d, NoKey)>>) /\ <<Req("SELECT", d, NoKey)>> \in Seq(Requests)
      BY <1>1, <2>1, ReqType DEF SendSelect
    <3>2. Len(log') = Len(log) + 1
      BY <3>1, LogGrows
    <3>3. Len(keys') \in Nat
      BY <1>1, FirstBatchType, KeysType DEF TypeOK, keys
    <3> QED
      BY <1>1, <2>1, <3>2, <3>3, <1>0 DEF SendSelect, Room
  <2>2. CASE ~ open
    BY <1>1, <2>2 DEF SendSelect, Room
  <2> QED
    BY <2>1, <2>2
<1>2. ASSUME SendTypeAndMemory PROVE Room'
  <2>1. CASE open
    <3>1. Send(KeyReqs(db, keys[idx])) /\ keys[idx] \in Keys /\ db \in DBs
      BY <1>2, <2>1, KeysType DEF SendTypeAndMemory, TypeOK, ControlOK
    <3>2. KeyReqs(db, keys[idx]) \in Seq(Requests) /\ Len(KeyReqs(db, keys[idx])) = 2
      BY <3>1, ReqType DEF KeyCmds, KeyReqs
    <3>3. Len(log') = Len(log) + 2
      BY <3>1, <3>2, LogGrows
    <3> QED
      <4>1. /\ nread <= base /\ idx <= Len(keys) /\ Len(log) = base + 2 * idx - 1
            /\ pc' = "send" /\ idx' = idx + 1 /\ UNCHANGED <<nread, base, keys>>
        BY <1>2, <2>1 DEF SendTypeAndMemory, Room, keys
      <4>2. Len(log') = base + 2 * idx' - 1 /\ idx' <= Len(keys) + 1
        BY <3>3, <4>1, <1>0
      <4> QED
        BY <4>1, <4>2 DEF Room
  <2>2. CASE ~ open
    BY <1>2, <2>2 DEF SendTypeAndMemory, Room
  <2> QED
    BY <2>1, <2>2
<1>3. ASSUME FlushKeys PROVE Room'
  <2>1. /\ pc = "send" /\ nread <= base /\ idx <= Len(keys) + 1 /\ idx > Len(keys)
        /\ Len(log) = base + 2 * idx - 1 /\ UNCHANGED <<nread, base, keys>>
    BY <1>3 DEF FlushKeys, Room, keys
  <2>2. Len(log) = base + 1 + 2 * Len(keys)
    <3>1. idx = Len(keys) + 1
      BY <1>0, <2>1
    <3> QED
      BY <1>0, <2>1, <3>1
  <2> QED
    BY <1>3, <2>1, <2>2 DEF FlushKeys, Room
<1>4. ASSUME ReceiveSelect PROVE Room'
  <2>1. /\ pc = "select" /\ UNCHANGED <<flushed, base, keys>>
        /\ nread <= base /\ flushed = base + 1 + 2 * Len(keys)
    BY <1>4 DEF ReceiveSelect, Room, keys
  <2>2. \/ pc' = "type" /\ idx' = 1 /\ nread' = nread + 1
        \/ pc' = "next_db"
    BY <1>4 DEF ReceiveSelect, Receive
  <2>3. pc' = "type" => nread' <= base + 2 * idx' - 1 /\ idx' <= Len(keys) + 1
    BY <1>0, <2>1, <2>2
  <2> QED
    BY <2>1, <2>2, <2>3 DEF Room
<1>5. ASSUME ReceiveType PROVE Room'
  <2>1. /\ nread <= base + 2 * idx - 1 /\ idx <= Len(keys)
        /\ flushed = base + 1 + 2 * Len(keys) /\ UNCHANGED <<flushed, base, keys>>
    BY <1>5 DEF ReceiveType, Room, keys
  <2>2. \/ pc' = "memory" /\ idx' = idx /\ nread' = nread + 1
        \/ pc' = "type" /\ idx' = idx + 1 /\ nread' \in {nread, nread + 1}
    BY <1>5 DEF ReceiveType, Receive
  <2>3. pc' = "memory" => nread' <= base + 2 * idx'
    BY <2>1, <2>2, <1>0
  <2>4. pc' = "type" => nread' <= base + 2 * idx' - 1 /\ idx' <= Len(keys) + 1
    BY <2>1, <2>2, <1>0
  <2> QED
    BY <2>1, <2>2, <2>3, <2>4 DEF Room
<1>6. ASSUME ReceiveMemory PROVE Room'
  <2>1. /\ nread <= base + 2 * idx /\ idx <= Len(keys)
        /\ flushed = base + 1 + 2 * Len(keys) /\ UNCHANGED <<flushed, base, keys>>
    BY <1>6 DEF ReceiveMemory, Room, keys, TypeOK, ControlOK
  <2>2. pc' = "type" /\ idx' = idx + 1 /\ nread' \in {nread, nread + 1}
    BY <1>6 DEF ReceiveMemory, Receive
  <2>3. nread' <= base + 2 * idx' - 1 /\ idx' <= Len(keys) + 1
    BY <2>1, <2>2, <1>0
  <2> QED
    BY <2>1, <2>2, <2>3 DEF Room
<1> QED
  BY <1>1, <1>2, <1>3, <1>4, <1>5, <1>6

(* The second batch.                                                        *)
LEMMA RoomSecond ==
  ASSUME TypeOK, Room
  PROVE  /\ GetKeyInfo => Room'
         /\ SendInfo => Room'
         /\ FlushInfo => Room'
         /\ ReceiveInfo => Room'
         /\ EmitInfo => Room'
<1>0. /\ nread \in Nat /\ base \in Nat /\ flushed \in Nat /\ Len(log) \in Nat /\ idx \in Nat
      /\ idx >= 1 /\ base <= Len(log) /\ nread <= Len(answers) /\ Len(answers) \in Nat
      /\ Len(answers) <= flushed /\ flushed <= Len(log)
      /\ Len(keys) \in Nat /\ Len(got) \in Nat /\ slot \in Seq(Nat)
  BY RoomNumbers
<1>1. ASSUME GetKeyInfo PROVE Room'
  <2>1. /\ pc = "type" /\ pc' = "send_info" /\ idx' = 1 /\ slot' = <<Len(log)>>
        /\ UNCHANGED <<log, nread, keys, flushed>> /\ idx > Len(keys)
    BY <1>1 DEF GetKeyInfo, env, keys
  <2>2. Len(slot') = 1 /\ slot'[1] = Len(log)
    BY <2>1
  <2>3. nread <= Len(log)
    BY <1>0
  <2>4. InfoSlots(0)'
    BY <2>1, <2>2 DEF InfoSlots
  <2> QED
    BY <2>1, <2>2, <2>3, <2>4, <1>0 DEF Room
<1>2. ASSUME SendInfo PROVE Room'
  <2> DEFINE cmds == InfoCmds(TypeName(types[idx]))
             m == idx - 1
  <2>1. /\ pc = "send_info" /\ idx <= Len(keys) /\ UNCHANGED <<nread, keys, flushed, types>>
        /\ \A i : width(i)' = width(i)
    BY <1>2 DEF SendInfo, env, keys, width
  <2>2. InfoSlots(m) /\ nread <= slot[1]
    BY <2>1 DEF Room
  <2>3. CASE /\ Send([i \in DOMAIN cmds |-> Req(cmds[i], db, keys[idx])])
             /\ slot' = Append(slot, Len(log')) /\ idx' = idx + 1 /\ pc' = pc
    <3>1. PICK reqs \in Seq(Requests) : Send(reqs) /\ Len(reqs) = width(idx)
      BY <2>1, <2>3, InfoReqsType DEF TypeOK, width
    <3>2. Len(log') = Len(log) + width(idx) /\ Len(log') \in Nat /\ width(idx) \in Nat
      BY <3>1, LogGrows, <1>0, WidthType
    <3>3. /\ Len(slot) = idx /\ Len(slot') = idx + 1 /\ slot'[idx + 1] = Len(log')
          /\ \A i \in 1 .. idx : slot'[i] = slot[i]
      <4>1. slot \in Seq(Nat) /\ Len(slot) = idx
        BY <2>2, <1>0 DEF InfoSlots
      <4> QED
        BY <2>3, <3>2, <4>1, AppendProperties
    <3>4. ASSUME NEW i \in 1 .. idx
          PROVE  slot'[i + 1] = slot'[i] + width(i) /\ slot'[i + 1] <= Len(log')
      <4>1. CASE i = idx
        <5>1. slot[idx] = Len(log)
          BY <2>2, <1>0 DEF InfoSlots
        <5> QED
          BY <3>2, <3>3, <4>1, <5>1, <1>0, WidthType
      <4>2. CASE i \in 1 .. m
        <5>1. i + 1 \in 1 .. idx /\ i \in 1 .. idx
          BY <4>2, <1>0
        <5>2. slot'[i + 1] = slot[i + 1] /\ slot'[i] = slot[i]
          BY <3>3, <5>1
        <5>3. slot[i + 1] \in Nat /\ slot[i + 1] = slot[i] + width(i) /\ slot[i + 1] <= Len(log)
          BY <2>2, <3>3, <4>2, <5>1, <1>0, ElementOfSeq DEF InfoSlots
        <5>4. Len(log) <= Len(log') /\ Len(log) \in Nat
          BY <3>2, <1>0
        <5> QED
          BY <3>2, <5>2, <5>3, <5>4
      <4> QED
        BY <4>1, <4>2, <1>0
    <3>5. InfoSlots(idx - 1)'
      <4>1. idx' - 1 = idx
        BY <2>3, <1>0
      <4>2. \A i \in 1 .. idx : slot'[i + 1] = slot'[i] + width(i)' /\ slot'[i + 1] <= Len(log')
        BY <2>1, <3>4
      <4> QED
        BY <3>3, <4>1, <4>2 DEF InfoSlots
    <3>6. slot'[1] = slot[1] /\ idx' <= Len(keys) + 1
      BY <2>1, <2>3, <3>3, <1>0
    <3> QED
      BY <2>1, <2>2, <2>3, <3>5, <3>6 DEF Room
  <2>4. CASE pc' = "next_db"
    BY <2>4 DEF Room
  <2> QED
    BY <1>2, <2>3, <2>4 DEF SendInfo
<1>3. ASSUME FlushInfo PROVE Room'
  <2>1. CASE pc' = "next_db"
    BY <2>1 DEF Room
  <2>2. CASE open /\ flushed' = Len(log) /\ idx' = 1 /\ pc' = "info"
    <3>1. /\ pc = "send_info" /\ idx > Len(keys) /\ UNCHANGED <<log, nread, slot, keys, got>>
          /\ \A i : width(i)' = width(i)
      BY <1>3 DEF FlushInfo, env, keys, width
    <3>2. InfoSlots(Len(keys)) /\ nread <= slot[1]
      <4>1. InfoSlots(idx - 1) /\ nread <= slot[1] /\ idx <= Len(keys) + 1
        BY <3>1 DEF Room
      <4>2. idx - 1 = Len(keys)
        BY <3>1, <4>1, <1>0
      <4> QED
        BY <4>1, <4>2
    <3>3. slot[1] \in Nat
      BY <3>2, <1>0, ElementOfSeq DEF InfoSlots
    <3>4. InfoSlots(Len(keys))'
      BY <3>1, <3>2 DEF InfoSlots
    <3> QED
      BY <2>2, <3>1, <3>2, <3>3, <3>4, <1>0 DEF Room
  <2> QED
    BY <1>3, <2>1, <2>2 DEF FlushInfo
<1>4. ASSUME ReceiveInfo PROVE Room'
  <2>1. /\ pc = "info" /\ UNCHANGED <<log, flushed, pc, db, idx, types, base, slot, keys>>
        /\ \A i : width(i)' = width(i)
    BY <1>4 DEF ReceiveInfo, env, keys, width
  <2>2. Len(got') = Len(got) + 1 /\ nread' <= nread + 1 /\ nread' \in Nat
    BY <1>4, <1>0 DEF ReceiveInfo, Receive, TypeOK, ControlOK
  <2>3. idx <= Len(keys) /\ InfoSlots(Len(keys)) /\ flushed = Len(log) /\ nread <= slot[idx] + Len(got)
    BY <1>4, <2>1 DEF ReceiveInfo, Room
  <2>4. slot[idx] \in Nat
    BY <2>3, <1>0, ElementOfSeq DEF InfoSlots
  <2>5. nread' <= slot[idx] + Len(got')
    BY <2>2, <2>3, <2>4, <1>0
  <2>6. InfoSlots(Len(keys))'
    BY <2>1, <2>3 DEF InfoSlots
  <2> QED
    BY <2>1, <2>3, <2>5, <2>6, <1>0 DEF Room
<1>5. ASSUME EmitInfo PROVE Room'
  <2>1. /\ pc = "info" /\ UNCHANGED <<log, flushed, pc, db, nread, types, base, slot, keys>>
        /\ \A i : width(i)' = width(i)
        /\ idx' = idx + 1 /\ got' = <<>> /\ Len(got) = width(idx)
    BY <1>5, ReceivesMatchSends DEF EmitInfo, env, keys, width
  <2>2. idx \in 1 .. Len(keys) /\ InfoSlots(Len(keys)) /\ nread <= slot[idx] + width(idx)
        /\ flushed = Len(log)
    BY <1>5, <2>1, <1>0 DEF EmitInfo, Room
  <2>3. slot[idx + 1] = slot[idx] + width(idx) /\ idx + 1 \in 1 .. Len(slot)
    BY <2>2, <1>0 DEF InfoSlots
  <2>4. slot[idx + 1] \in Nat
    BY <2>3, <1>0, ElementOfSeq
  <2>5. InfoSlots(Len(keys))' /\ Len(got') = 0
    BY <2>1, <2>2 DEF InfoSlots
  <2> QED
    <3>1. idx' <= Len(keys) + 1 /\ nread <= slot[idx'] + Len(got')
      BY <2>1, <2>2, <2>3, <2>4, <2>5, <1>0, WidthType
    <3> QED
      BY <2>1, <2>2, <2>5, <3>1 DEF Room
<1> QED
  BY <1>1, <1>2, <1>3, <1>4, <1>5

LEMMA RoomStep == TypeOK /\ Room /\ [Next]_vars => Room'
<1> SUFFICES ASSUME TypeOK, Room, [Next]_vars PROVE Room'
  OBVIOUS
<1>1. CASE \/ \E d \in DBs : SendSelect(d)
           \/ SendTypeAndMemory \/ FlushKeys \/ ReceiveSelect \/ ReceiveType \/ ReceiveMemory
  BY <1>1, RoomFirst
<1>2. CASE GetKeyInfo \/ SendInfo \/ FlushInfo \/ ReceiveInfo \/ EmitInfo
  BY <1>2, RoomSecond
<1>3. CASE EndDb \/ EndKeys \/ CountSelect \/ CountSkip \/ CountScan \/ CountEmit \/ CountEnd
  <2>1. pc' \in {"next_db", "count", "count_select", "count_scan", "done"}
    BY <1>3 DEF EndDb, EndKeys, CountSelect, CountSkip, CountScan, CountEmit, CountEnd, CountDo
  <2> QED
    BY <2>1 DEF Room
<1>4. CASE \/ Serve \/ Break \/ Done \/ UNCHANGED vars
           \/ \E d \in DBs, k \in Keys, kind \in WriteKinds : ClientWrite(d, k, kind)
  <2>1. UNCHANGED <<log, flushed, nread, pc, db, idx, types, got, base, slot>>
    BY <1>4 DEF Serve, Break, Done, vars, connVars, ClientWrite
  <2> QED
    BY <2>1, RoomStays
<1> QED
  BY <1>1, <1>2, <1>3, <1>4 DEF Next, Exporter

LEMMA RoomDue == TypeOK /\ Room => ReplyDue
<1> SUFFICES ASSUME TypeOK, Room PROVE ReplyDue
  OBVIOUS
<1>0. /\ nread \in Nat /\ base \in Nat /\ flushed \in Nat /\ Len(log) \in Nat /\ idx \in Nat
      /\ idx >= 1 /\ base <= Len(log) /\ nread <= Len(answers) /\ Len(answers) \in Nat
      /\ Len(answers) <= flushed /\ flushed <= Len(log)
      /\ Len(keys) \in Nat /\ Len(got) \in Nat /\ slot \in Seq(Nat)
  BY RoomNumbers
<1>1. pc = "select" \/ pc = "memory" => nread < flushed
  <2>1. CASE pc = "select"
    BY <2>1, <1>0 DEF Room
  <2>2. CASE pc = "memory"
    <3>1. nread <= base + 2 * idx /\ flushed = base + 1 + 2 * Len(keys) /\ idx <= Len(keys)
      BY <2>2 DEF Room, TypeOK, ControlOK
    <3> QED
      BY <3>1, <1>0
  <2> QED
    BY <2>1, <2>2
<1>2. pc = "type" /\ idx <= Len(keys) => nread < flushed
  BY <1>0 DEF Room
<1>3. ASSUME pc = "info", idx <= Len(keys)
      PROVE  nread + InfoReceives(TypeName(types[idx])) <= flushed + Len(got)
  <2>1. InfoReceives(TypeName(types[idx])) = width(idx)
    BY ReceivesMatchSends DEF width
  <2>2. InfoSlots(Len(keys)) /\ flushed = Len(log) /\ nread <= slot[idx] + Len(got)
        /\ idx \in 1 .. Len(keys)
    BY <1>3, <1>0 DEF Room
  <2>3. slot[idx] + width(idx) <= Len(log) /\ slot[idx] \in Nat
    <3>1. slot[idx + 1] = slot[idx] + width(idx) /\ slot[idx + 1] <= Len(log)
          /\ Len(slot) = Len(keys) + 1
      BY <2>2 DEF InfoSlots
    <3>2. idx \in 1 .. Len(slot)
      BY <1>0, <2>2, <3>1
    <3>3. slot[idx] \in Nat
      BY <1>0, <3>2, ElementOfSeq
    <3> QED
      BY <3>1, <3>3
  <2>4. nread <= slot[idx] + Len(got) /\ slot[idx] + width(idx) <= flushed /\ slot[idx] \in Nat
        /\ width(idx) \in Nat
    BY <2>2, <2>3, WidthType
  <2>5. nread + width(idx) <= flushed + Len(got)
    BY <1>0, <2>4
  <2> QED
    BY <2>1, <2>5
<1> QED
  BY <1>1, <1>2, <1>3 DEF ReplyDue

(* Whatever errors came back and wherever the connection broke, the receive *)
(* loops of getKeyInfoPipelined and extractCheckKeyMetricsPipelined never   *)
(* wait for a reply that no flushed request is due.                         *)
THEOREM ReplyDueCorrect == Spec => []ReplyDue
<1>1. Init => Room
  BY DEF Init, Room
<1>2. TypeOK /\ Room /\ [Next]_vars => Room'
  BY RoomStep
<1>3. TypeOK /\ Room => ReplyDue
  BY RoomDue
<1> QED
  BY <1>1, <1>2, <1>3, TypeCorrect, PTL DEF Spec

-----------------------------------------------------------------------------
(* The pipelined path implements KeySample.                                 *)

Listed == {"type", "memory", "send_info", "info"}

(* The reply to a request about a key, for a kind the key has had.          *)
Told(r, cmd, d, k) == \E kind \in seen[d][k] : r = KeyReply(cmd, d, k, kind)

(* The replies that the server has made and those that the loops hold, and  *)
(* no value exported without its size.                                      *)
AnswersTold ==
  \A i \in 1 .. Len(answers) :
    /\ log[i].cmd \in KeyCmds => Told(answers[i], log[i].cmd, log[i].db, log[i].key)
    /\ log[i].cmd = "SCAN" => answers[i] = PlainReply("array", "SCAN", log[i].db)

TypesTold ==
  pc \in Listed =>
    \A i \in 1 .. Len(keys) : types[i] = NoReply \/ Told(types[i], "TYPE", db, keys[i])

InfoTold ==
  pc = "info" =>
    \A j \in 1 .. Len(got) :
      got[j] = NoReply \/ Told(got[j], InfoCmds(TypeName(types[idx]))[j], db, keys[idx])

Grounded ==
  /\ \A d \in DBs, k \in Keys : store[d][k] \in seen[d][k]
  /\ AnswersTold /\ TypesTold /\ InfoTold
  /\ KeySamples!Sized(emitted)

LEMMA NoReplyUseless == ~ IsString(NoReply) /\ ~ IsInt64(NoReply) /\ TypeName(NoReply) = ""
BY DEF NoReply, PlainReply, IsString, IsInt64, TypeName

LEMMA RequestType ==
  ASSUME TypeOK, NEW i \in 1 .. Len(log)
  PROVE  log[i].db \in DBs /\ (log[i].cmd \in KeyCmds => log[i].key \in Keys)
<1>1. log[i] \in Requests
  BY ElementOfSeq DEF TypeOK, ConnOK
<1> QED
  BY <1>1 DEF Requests, KeyCmds

(* The replies grow with the history and with the log.                      *)
LEMMA AnswersStay ==
  ASSUME TypeOK, AnswersTold, UNCHANGED answers,
         \A e \in DBs, l \in Keys : seen[e][l] \subseteq seen'[e][l],
         UNCHANGED log \/ \E reqs \in Seq(Requests) : Send(reqs)
  PROVE  AnswersTold'
<1>1. Len(answers) \in Nat /\ Len(log) \in Nat /\ Len(answers) <= Len(log)
  BY LenProperties DEF TypeOK, ConnOK
<1>2. \A i \in 1 .. Len(log) : log'[i] = log[i]
  BY LogGrows
<1>3. ASSUME NEW i \in 1 .. Len(answers)
      PROVE  /\ log'[i] = log[i]
             /\ log[i].cmd \in KeyCmds =>
                  \E kind \in seen'[log[i].db][log[i].key] :
                    answers[i] = KeyReply(log[i].cmd, log[i].db, log[i].key, kind)
  <2>1. i \in 1 .. Len(log)
    BY <1>1
  <2>2. log[i].db \in DBs /\ (log[i].cmd \in KeyCmds => log[i].key \in Keys)
    BY <2>1, RequestType
  <2> QED
    BY <1>2, <2>1, <2>2 DEF AnswersTold, Told
<1> QED
  BY <1>3 DEF AnswersTold, Told

LEMMA AnswersServe ==
  ASSUME NoErrors, TypeOK, Aligned, Grounded, Serve
  PROVE  AnswersTold'
<1> DEFINE n == Len(answers)
           q == log[n + 1]
<1>1. /\ n \in Nat /\ Len(log) \in Nat /\ n < Len(log) /\ answers \in Seq(Replies)
      /\ (answers # <<>> <=> n > 0)
  BY LenProperties, EmptySeq DEF TypeOK, ConnOK, Serve
<1>2. answers' = Append(answers, Answer(q)) /\ UNCHANGED <<log, seen>>
  BY DEF Serve
<1>3. /\ Len(answers') = n + 1 /\ answers'[n + 1] = Answer(q)
      /\ \A i \in 1 .. n : answers'[i] = answers[i]
  BY <1>1, <1>2
<1>4. q \in Requests
  BY <1>1, ElementOfSeq DEF TypeOK, ConnOK
<1>5. q.cmd # "SELECT" => sel = q.db
  BY <1>1 DEF Aligned, RequestsInDb, ServedInOrder
<1>6. /\ q.cmd \in KeyCmds => Told(Answer(q), q.cmd, q.db, q.key)
      /\ q.cmd = "SCAN" => Answer(q) = PlainReply("array", "SCAN", q.db)
  <2>1. CASE q.cmd \in KeyCmds
    <3>1. q.cmd \notin {"SELECT", "SCAN"} /\ q.db \in DBs /\ q.key \in Keys
      BY <1>4, <2>1 DEF Requests, KeyCmds
    <3>2. Answer(q) = KeyReply(q.cmd, q.db, q.key, store[q.db][q.key])
      BY <1>5, <3>1 DEF Answer
    <3>3. store[q.db][q.key] \in seen[q.db][q.key]
      BY <3>1 DEF Grounded
    <3> QED
      BY <3>1, <3>2, <3>3 DEF Told
  <2>2. CASE q.cmd = "SCAN"
    BY <1>5, <2>2 DEF Answer, KeyCmds
  <2> QED
    BY <2>1, <2>2
<1> HIDE DEF q
<1>7. \A i \in 1 .. n + 1 :
        /\ log[i].cmd \in KeyCmds => Told(answers'[i], log[i].cmd, log[i].db, log[i].key)
        /\ log[i].cmd = "SCAN" => answers'[i] = PlainReply("array", "SCAN", log[i].db)
  <2> TAKE i \in 1 .. n + 1
  <2>1. CASE i = n + 1
    BY <1>3, <1>6, <2>1 DEF q
  <2>2. CASE i \in 1 .. n
    BY <1>3, <2>2 DEF Grounded, AnswersTold
  <2> QED
    BY <1>1, <2>1, <2>2
<1> QED
  BY <1>2, <1>3, <1>7 DEF AnswersTold, Told

(* The next reply is the one the loop is at.                                *)
LEMMA AtType ==
  ASSUME TypeOK, Aligned, open, pc = "type", idx <= Len(keys)
  PROVE  log[nread + 1] = Req("TYPE", db, keys[idx]) /\ nread + 1 \in Nat
<1>1. nread = base + 2 * idx - 1 /\ FirstBatch(Len(keys))
  BY DEF Aligned, InStep, Position
<1>2. idx \in 1 .. Len(keys) /\ Len(keys) \in Nat /\ base \in Nat /\ nread \in Nat
  BY KeysType DEF TypeOK, ConnOK, ControlOK
<1>3. nread + 1 = base + 2 * idx
  BY <1>1, <1>2
<1> QED
  BY <1>1, <1>2, <1>3 DEF FirstBatch

LEMMA AtMemory ==
  ASSUME TypeOK, Aligned, open, pc = "memory"
  PROVE  log[nread + 1] = Req("MEMORY", db, keys[idx])
<1>1. nread = base + 2 * idx /\ FirstBatch(Len(keys))
  BY DEF Aligned, InStep, Position
<1>2. idx \in 1 .. Len(keys)
  BY KeysType DEF TypeOK, ControlOK
<1> QED
  BY <1>1, <1>2 DEF FirstBatch

LEMMA AtInfo ==
  ASSUME TypeOK, Aligned, open, pc = "info", idx <= Len(keys), Len(got) < width(idx)
  PROVE  log[nread + 1] = Req(InfoCmds(TypeName(types[idx]))[Len(got) + 1], db, keys[idx])
<1>1. nread = slot[idx] + Len(got) /\ SecondBatch(Len(keys))
  BY DEF Aligned, InStep, Position
<1>2. idx \in 1 .. Len(keys) /\ Len(keys) \in Nat /\ Len(got) \in Nat /\ slot \in Seq(Nat)
      /\ width(idx) \in Nat
  BY KeysType, LenProperties, WidthType DEF TypeOK, ControlOK
<1>3. idx \in 1 .. Len(slot)
  BY <1>1, <1>2 DEF SecondBatch
<1>4. slot[idx] \in Nat
  BY <1>2, <1>3, ElementOfSeq
<1>5. Len(got) + 1 \in 1 .. width(idx) /\ nread + 1 = slot[idx] + (Len(got) + 1)
  BY <1>1, <1>2, <1>4
<1> QED
  BY <1>1, <1>2, <1>5 DEF SecondBatch

LEMMA ReceivedTold ==
  ASSUME TypeOK, Grounded, Receive, NEW cmd \in KeyCmds, NEW d, NEW k,
         log[nread + 1] = Req(cmd, d, k)
  PROVE  Told(Received, cmd, d, k)
<1>1. nread + 1 \in 1 .. Len(answers)
  BY LenProperties DEF TypeOK, ConnOK, Receive, Due
<1> QED
  BY <1>1, ReqFields DEF Grounded, AnswersTold, Received

(* Samples made from replies about their key are honest: a reply that       *)
(* converts was not made for a kind the metric cannot tell of.              *)
LEMMA NumberHonest ==
  ASSUME TypeOK, NEW d \in DBs, NEW k \in Keys,
         NEW cmd \in {"MEMORY", "LEN", "PFCOUNT", "STRLEN"}, NEW r, Told(r, cmd, d, k), IsInt64(r),
         NEW metric, metric = IF cmd = "MEMORY" THEN "key_memory_usage_bytes" ELSE "key_size"
  PROVE  KeySamples!Honest(Sample(metric, d, k, r))
<1>1. PICK kind \in seen[d][k] : r = KeyReply(cmd, d, k, kind)
  BY DEF Told
<1>2. kind \in Kinds
  BY <1>1 DEF TypeOK, DataOK
<1>3. r.kind = kind /\ r.db = d /\ r.key = k
  BY <1>1 DEF KeyReply
<1>4. r.shape = "int" \/ r.shape = "bulk"
  BY DEF IsInt64
<1>5. KeyShape(cmd, kind) \in {"int", "bulk"}
  BY <1>1, <1>4 DEF KeyReply
<1>6. kind \in KeySamples!Tells(metric)
  BY <1>2, <1>5 DEF KeyShape, KeySamples!Tells, KeySamples!Kinds, Kinds, StringKinds
<1> QED
  BY <1>1, <1>3, <1>6 DEF KeySamples!Honest, Sample

LEMMA ValueHonest ==
  ASSUME TypeOK, NEW d \in DBs, NEW k \in Keys, NEW r, Told(r, "GET", d, k),
         NEW s \in ValueSamples(r, d, k)
  PROVE  KeySamples!Honest(s)
<1>1. IsString(r)
  BY DEF ValueSamples
<1>2. PICK kind \in seen[d][k] : r = KeyReply("GET", d, k, kind)
  BY DEF Told
<1>3. kind \in Kinds
  BY <1>2 DEF TypeOK, DataOK
<1>4. r.kind = kind /\ r.db = d /\ r.key = k
  BY <1>2 DEF KeyReply
<1>5. r.shape = "bulk" /\ KeyShape("GET", kind) = "bulk"
  BY <1>1, <1>2, <1>3 DEF KeyReply, IsString, KeyShape, Kinds
<1>6. kind \in StringKinds
  BY <1>3, <1>5 DEF KeyShape, StringKinds, Kinds
<1>7. s = Sample(IF r.kind = "number" THEN "key_value" ELSE "key_value_as_string", d, k, r)
  BY <1>5 DEF ValueSamples, IsInt64
<1> QED
  BY <1>2, <1>4, <1>6, <1>7 DEF KeySamples!Honest, KeySamples!Tells, StringKinds, Sample

LEMMA ToldUseful == ASSUME NEW r, NEW cmd, NEW d, NEW k, r = NoReply \/ Told(r, cmd, d, k),
                           IsString(r) \/ IsInt64(r)
                    PROVE  Told(r, cmd, d, k)
BY NoReplyUseless

LEMMA MissingHonest ==
  ASSUME TypeOK, NEW d \in DBs, NEW k \in Keys, NEW typ, Told(typ, "TYPE", d, k),
         TypeName(typ) = "none"
  PROVE  KeySamples!Honest(Sample("key_size", d, k, typ))
<1>1. PICK kind \in seen[d][k] : typ = KeyReply("TYPE", d, k, kind)
  BY DEF Told
<1>2. kind \in Kinds /\ typ.kind = kind /\ typ.db = d /\ typ.key = k /\ typ.cmd = "TYPE"
  BY <1>1 DEF TypeOK, DataOK, KeyReply
<1>3. kind = "none"
  BY <1>2 DEF TypeName, TypeOf, StringKinds
<1> QED
  BY <1>1, <1>2, <1>3 DEF KeySamples!Honest, KeySamples!Tells, KeySamples!Kinds, Sample

LEMMA InfoHonest ==
  ASSUME TypeOK, NEW d \in DBs, NEW k \in Keys, NEW typ, typ = NoReply \/ Told(typ, "TYPE", d, k),
         NEW rs, Len(rs) = Len(InfoCmds(TypeName(typ))),
         \A j \in 1 .. Len(rs) :
           rs[j] = NoReply \/ Told(rs[j], InfoCmds(TypeName(typ))[j], d, k)
  PROVE  /\ \A s \in InfoSamples(typ, rs, d, k) : KeySamples!Honest(s)
         /\ KeySamples!Sized(InfoSamples(typ, rs, d, k))
<1>1. CASE TypeName(typ) = "none"
  <2>1. Told(typ, "TYPE", d, k)
    BY <1>1, NoReplyUseless
  <2>2. InfoSamples(typ, rs, d, k) = {Sample("key_size", d, k, typ)}
    BY <1>1 DEF InfoSamples
  <2>3. KeySamples!Honest(Sample("key_size", d, k, typ))
    BY <1>1, <2>1, MissingHonest
  <2> QED
    BY <2>2, <2>3 DEF KeySamples!Sized, Sample
<1>2. CASE TypeName(typ) = "list"
  <2>1. Len(rs) = 1 /\ InfoCmds(TypeName(typ))[1] = "LEN"
    BY <1>2 DEF InfoCmds
  <2>2. rs[1] = NoReply \/ Told(rs[1], "LEN", d, k)
    BY <2>1
  <2>3. IsInt64(rs[1]) => KeySamples!Honest(Sample("key_size", d, k, rs[1]))
    BY <2>2, ToldUseful, NumberHonest
  <2>4. InfoSamples(typ, rs, d, k) =
          IF IsInt64(rs[1]) THEN {Sample("key_size", d, k, rs[1])} ELSE {}
    BY <1>2 DEF InfoSamples
  <2> QED
    BY <2>3, <2>4 DEF KeySamples!Sized, Sample
<1>3. CASE TypeName(typ) = "string"
  <2>1. /\ Len(rs) = 3 /\ InfoCmds(TypeName(typ))[1] = "PFCOUNT"
        /\ InfoCmds(TypeName(typ))[2] = "STRLEN" /\ InfoCmds(TypeName(typ))[3] = "GET"
    BY <1>3 DEF InfoCmds
  <2>2. /\ rs[1] = NoReply \/ Told(rs[1], "PFCOUNT", d, k)
        /\ rs[2] = NoReply \/ Told(rs[2], "STRLEN", d, k)
        /\ rs[3] = NoReply \/ Told(rs[3], "GET", d, k)
    BY <2>1
  <2>3. /\ IsInt64(rs[1]) => KeySamples!Honest(Sample("key_size", d, k, rs[1]))
        /\ IsInt64(rs[2]) => KeySamples!Honest(Sample("key_size", d, k, rs[2]))
    BY <2>2, ToldUseful, NumberHonest
  <2>4. \A s \in ValueSamples(rs[3], d, k) : KeySamples!Honest(s)
    <3>1. CASE IsString(rs[3])
      BY <2>2, <3>1, ToldUseful, ValueHonest
    <3>2. CASE ~ IsString(rs[3])
      BY <3>2 DEF ValueSamples
    <3> QED
      BY <3>1, <3>2
  <2>5. InfoSamples(typ, rs, d, k) = StringSamples(rs, d, k)
    BY <1>3 DEF InfoSamples
  <2>6. \A s \in ValueSamples(rs[3], d, k) : s.db = d /\ s.key = k
    BY DEF ValueSamples, Sample
  <2>7. \A m, r : /\ Sample(m, d, k, r).metric = m
                   /\ Sample(m, d, k, r).db = d /\ Sample(m, d, k, r).key = k
    BY DEF Sample
  <2>8. CASE IsInt64(rs[1])
    BY <2>3, <2>5, <2>7, <2>8 DEF StringSamples, KeySamples!Sized
  <2>9. CASE ~ IsInt64(rs[1]) /\ IsInt64(rs[2])
    <3> DEFINE size == Sample("key_size", d, k, rs[2])
    <3>1. InfoSamples(typ, rs, d, k) = {size} \cup ValueSamples(rs[3], d, k)
      BY <2>5, <2>9 DEF StringSamples
    <3>2. size.metric = "key_size" /\ size.db = d /\ size.key = k /\ KeySamples!Honest(size)
      BY <2>3, <2>7, <2>9
    <3> HIDE DEF size
    <3> QED
      BY <2>4, <2>6, <3>1, <3>2 DEF KeySamples!Sized
  <2>10. CASE ~ IsInt64(rs[1]) /\ ~ IsInt64(rs[2])
    BY <2>5, <2>10 DEF StringSamples, KeySamples!Sized
  <2> QED
    BY <2>8, <2>9, <2>10
<1>4. CASE TypeName(typ) \notin {"none", "list", "string"}
  BY <1>4 DEF InfoSamples, KeySamples!Sized
<1> QED
  BY <1>1, <1>2, <1>3, <1>4

(* Exporting samples like these is a step of KeySample.                     *)
LEMMA Exports ==
  ASSUME Grounded, NEW S, emitted' = emitted \cup S, UNCHANGED <<store, seen>>,
         \A s \in S : KeySamples!Honest(s), KeySamples!Sized(S)
  PROVE  KeySamples!Export /\ KeySamples!Sized(emitted')
<1>1. KeySamples!Sized(emitted \cup S)
  BY DEF Grounded, KeySamples!Sized
<1> QED
  BY <1>1 DEF KeySamples!Export

LEMMA ExportsNothing ==
  ASSUME Grounded, UNCHANGED emitted
  PROVE  KeySamples!Sized(emitted')
BY DEF Grounded, KeySamples!Sized

(* What the loops hold stays true.                                          *)
LEMMA TypesStay ==
  ASSUME TypeOK, TypesTold, UNCHANGED <<types, db>>, pc' \in Listed => pc \in Listed,
         \A e \in DBs, l \in Keys : seen[e][l] \subseteq seen'[e][l]
  PROVE  TypesTold'
<1>1. db \in DBs /\ keys' = keys /\ \A i \in 1 .. Len(keys) : keys[i] \in Keys
  BY KeysType DEF TypeOK, ControlOK, keys
<1> QED
  BY <1>1 DEF TypesTold, Told

LEMMA InfoStays ==
  ASSUME TypeOK, Aligned, InfoTold,
         pc' = "info" => /\ UNCHANGED <<types, db, got>>
                         /\ (pc = "info" /\ UNCHANGED idx) \/ got = <<>>,
         \A e \in DBs, l \in Keys : seen[e][l] \subseteq seen'[e][l]
  PROVE  InfoTold'
<1>1. CASE pc' # "info"
  BY <1>1 DEF InfoTold
<1>2. CASE pc' = "info" /\ got = <<>>
  <2>1. Len(got') = 0
    BY <1>2
  <2> QED
    BY <2>1 DEF InfoTold
<1>3. CASE pc' = "info" /\ got # <<>>
  <2>1. pc = "info" /\ UNCHANGED <<idx, types, db, got>> /\ idx \in 1 .. Len(keys)
    BY <1>3, KeysType DEF Aligned, InStep, RepliesOfKey, TypeOK, ControlOK
  <2>2. db \in DBs /\ keys[idx] \in Keys /\ keys' = keys
    BY <2>1, KeysType DEF TypeOK, ControlOK, keys
  <2>3. seen[db][keys[idx]] \subseteq seen'[db][keys[idx]]
    BY <2>2
  <2>4. \A j \in 1 .. Len(got) :
          got[j] = NoReply
            \/ \E kind \in seen[db][keys[idx]] :
                 got[j] = KeyReply(InfoCmds(TypeName(types[idx]))[j], db, keys[idx], kind)
    BY <2>1 DEF InfoTold, Told
  <2> QED
    BY <2>1, <2>2, <2>3, <2>4 DEF InfoTold, Told
<1> QED
  BY <1>1, <1>2, <1>3

(* A step that exports nothing and takes no reply.                          *)
LEMMA QuietStep ==
  ASSUME TypeOK, Aligned, Grounded, UNCHANGED <<store, seen, answers, emitted>>,
         UNCHANGED log \/ \E reqs \in Seq(Requests) : Send(reqs),
         pc' \in Listed => pc \in Listed /\ UNCHANGED <<types, db>>,
         pc' = "info" => pc # "info" /\ UNCHANGED <<types, db, got>>
  PROVE  Grounded' /\ UNCHANGED KeySamples!sampleVars
<1>1. AnswersTold'
  BY AnswersStay DEF Grounded
<1>2. TypesTold'
  <2>1. CASE pc' \in Listed
    BY <2>1, TypesStay DEF Grounded
  <2>2. CASE pc' \notin Listed
    BY <2>2 DEF TypesTold
  <2> QED
    BY <2>1, <2>2
<1>3. InfoTold'
  <2>1. CASE pc' = "info"
    <3>1. got = <<>>
      BY <2>1 DEF Aligned, InStep, RepliesOfKey
    <3> QED
      BY <2>1, <3>1, InfoStays DEF Grounded
  <2>2. CASE pc' # "info"
    BY <2>2 DEF InfoTold
  <2> QED
    BY <2>1, <2>2
<1> QED
  BY <1>1, <1>2, <1>3, ExportsNothing DEF Grounded, KeySamples!sampleVars

LEMMA QuietActions ==
  ASSUME TypeOK, Aligned, Grounded,
         \/ \E d \in DBs : SendSelect(d)
         \/ SendTypeAndMemory \/ FlushKeys \/ GetKeyInfo \/ SendInfo \/ FlushInfo
         \/ EndDb \/ EndKeys \/ CountSelect \/ CountSkip \/ CountScan \/ CountEnd
  PROVE  Grounded' /\ UNCHANGED KeySamples!sampleVars
<1>1. ASSUME NEW d \in DBs, SendSelect(d) PROVE Grounded' /\ UNCHANGED KeySamples!sampleVars
  <2>1. <<Req("SELECT", d, NoKey)>> \in Seq(Requests)
    BY ReqType
  <2>2. UNCHANGED log \/ \E reqs \in Seq(Requests) : Send(reqs)
    BY <1>1, <2>1 DEF SendSelect
  <2>3. UNCHANGED <<store, seen, answers, emitted>> /\ pc' \notin Listed
    BY <1>1 DEF SendSelect, env, Listed
  <2> QED
    BY <2>2, <2>3, QuietStep DEF Listed
<1>2. CASE SendTypeAndMemory
  <2>1. keys[idx] \in Keys /\ db \in DBs
    BY <1>2, KeysType DEF SendTypeAndMemory, TypeOK, ControlOK
  <2>2. KeyReqs(db, keys[idx]) \in Seq(Requests)
    BY <2>1, ReqType DEF KeyCmds, KeyReqs
  <2>3. UNCHANGED log \/ \E reqs \in Seq(Requests) : Send(reqs)
    BY <1>2, <2>2 DEF SendTypeAndMemory
  <2>4. UNCHANGED <<store, seen, answers, emitted>> /\ pc' \notin Listed
    BY <1>2 DEF SendTypeAndMemory, env, Listed
  <2> QED
    BY <2>3, <2>4, QuietStep DEF Listed
<1>3. CASE SendInfo
  <2>1. UNCHANGED log \/ \E reqs \in Seq(Requests) : Send(reqs)
    BY <1>3, InfoReqsType DEF SendInfo, TypeOK
  <2>2. UNCHANGED <<store, seen, answers, emitted, types, db>> /\ pc \in Listed /\ pc' # "info"
    BY <1>3 DEF SendInfo, env, Listed
  <2> QED
    BY <2>1, <2>2, QuietStep
<1>4. CASE CountSelect \/ CountScan
  <2>1. cnt <= Len(CountDBs) /\ cnt \in 1 .. Len(CountDBs)
    BY <1>4, LenProperties, PipelineAssumption DEF CountSelect, CountScan, TypeOK, ControlOK
  <2>2. count \in DBs
    BY <2>1, PipelineAssumption, ElementOfSeq DEF count
  <2>3. /\ <<Req("SELECT", count, NoKey)>> \in Seq(Requests)
        /\ <<Req("SCAN", count, NoKey)>> \in Seq(Requests)
    BY <2>2, ReqType
  <2>4. UNCHANGED log \/ \E reqs \in Seq(Requests) : Send(reqs)
    BY <1>4, <2>3 DEF CountSelect, CountScan, CountDo
  <2>5. UNCHANGED <<store, seen, answers, emitted>> /\ pc' \notin Listed
    BY <1>4 DEF CountSelect, CountScan, CountDo, env, Listed
  <2> QED
    BY <2>4, <2>5, QuietStep DEF Listed
<1>5. CASE FlushKeys \/ EndDb \/ EndKeys \/ CountSkip \/ CountEnd
  <2>1. UNCHANGED <<store, seen, answers, emitted, log>> /\ pc' \notin Listed
    BY <1>5 DEF FlushKeys, EndDb, EndKeys, CountSkip, CountEnd, env, Listed
  <2> QED
    BY <2>1, QuietStep DEF Listed
<1>6. CASE GetKeyInfo \/ FlushInfo
  <2>1. /\ UNCHANGED <<store, seen, answers, emitted, log, types, db, got>>
        /\ pc \in {"type", "send_info"}
    BY <1>6 DEF GetKeyInfo, FlushInfo, env
  <2> QED
    BY <2>1, QuietStep DEF Listed
<1> QED
  BY <1>1, <1>2, <1>3, <1>4, <1>5, <1>6

(* Taking the replies of the first batch.                                   *)
LEMMA TakeFirst ==
  ASSUME NoErrors, TypeOK, Aligned, Grounded
  PROVE  /\ ReceiveSelect => Grounded' /\ UNCHANGED KeySamples!sampleVars
         /\ ReceiveType => Grounded' /\ UNCHANGED KeySamples!sampleVars
         /\ ReceiveMemory => Grounded' /\ [KeySamples!Export]_(KeySamples!sampleVars)
<1>1. ASSUME ReceiveSelect PROVE Grounded' /\ UNCHANGED KeySamples!sampleVars
  <2>1. /\ UNCHANGED <<store, seen, answers, emitted, log, db>> /\ pc' # "info"
        /\ pc' \in Listed => types' = FreshTypes
    BY <1>1 DEF ReceiveSelect, env, Listed
  <2>2. AnswersTold' /\ InfoTold'
    BY <2>1, AnswersStay DEF Grounded, InfoTold
  <2>3. TypesTold'
    BY <2>1 DEF TypesTold, FreshTypes, keys
  <2> QED
    BY <2>1, <2>2, <2>3, ExportsNothing DEF Grounded, KeySamples!sampleVars
<1>2. ASSUME ReceiveType PROVE Grounded' /\ UNCHANGED KeySamples!sampleVars
  <2>1. /\ UNCHANGED <<store, seen, answers, emitted, log, db, keys>> /\ pc' # "info"
        /\ pc = "type" /\ idx \in 1 .. Len(keys) /\ Len(types) = Len(keys) /\ types \in Seq(Replies)
    BY <1>2, KeysType DEF ReceiveType, env, TypeOK, ControlOK, keys
  <2>2. AnswersTold' /\ InfoTold'
    BY <2>1, AnswersStay DEF Grounded, InfoTold
  <2>3. \A i \in 1 .. Len(keys) : types[i] = NoReply \/ Told(types[i], "TYPE", db, keys[i])
    BY <2>1 DEF Grounded, TypesTold, Listed
  <2>4. TypesTold'
    <3>1. CASE UNCHANGED types
      BY <2>1, <2>3, <3>1 DEF TypesTold, Told
    <3>2. CASE Receive /\ types' = [types EXCEPT ![idx] = Received]
      <4>1. Told(Received, "TYPE", db, keys[idx])
        BY <2>1, <3>2, AtType, ReceivedTold DEF Receive, KeyCmds
      <4>2. \A i \in 1 .. Len(keys) : types'[i] = IF i = idx THEN Received ELSE types[i]
        BY <2>1, <3>2, LenProperties
      <4>3. \A i \in 1 .. Len(keys) : types'[i] = NoReply \/ Told(types'[i], "TYPE", db, keys[i])
        BY <2>3, <4>1, <4>2
      <4> QED
        BY <2>1, <4>3 DEF TypesTold, Told
    <3> QED
      BY <1>2, <3>1, <3>2 DEF ReceiveType
  <2> QED
    BY <2>1, <2>2, <2>4, ExportsNothing DEF Grounded, KeySamples!sampleVars
<1>3. ASSUME ReceiveMemory PROVE Grounded' /\ [KeySamples!Export]_(KeySamples!sampleVars)
  <2>1. /\ UNCHANGED <<store, seen, answers, log, db, types>> /\ pc' = "type"
        /\ pc = "memory" /\ idx \in 1 .. Len(keys) /\ keys[idx] \in Keys /\ db \in DBs
    BY <1>3, KeysType DEF ReceiveMemory, env, TypeOK, ControlOK
  <2>2. AnswersTold' /\ InfoTold' /\ TypesTold'
    BY <2>1, AnswersStay, TypesStay DEF Grounded, InfoTold, Listed
  <2>3. CASE UNCHANGED emitted
    BY <2>1, <2>2, <2>3, ExportsNothing DEF Grounded, KeySamples!sampleVars
  <2>4. CASE /\ Receive /\ IsInt64(Received)
             /\ emitted' = emitted \cup {Sample("key_memory_usage_bytes", db, keys[idx], Received)}
    <3> DEFINE s == Sample("key_memory_usage_bytes", db, keys[idx], Received)
    <3>1. Told(Received, "MEMORY", db, keys[idx])
      BY <2>1, <2>4, AtMemory, ReceivedTold DEF Receive, KeyCmds
    <3>2. KeySamples!Honest(s)
      BY <2>1, <2>4, <3>1, NumberHonest
    <3>3. KeySamples!Sized({s})
      BY DEF KeySamples!Sized, Sample
    <3> HIDE DEF s
    <3>4. KeySamples!Export /\ KeySamples!Sized(emitted')
      BY <2>1, <2>4, <3>2, <3>3, Exports DEF s
    <3> QED
      BY <2>1, <2>2, <3>4 DEF Grounded
  <2> QED
    BY <1>3, <2>3, <2>4 DEF ReceiveMemory
<1> QED
  BY <1>1, <1>2, <1>3

(* Taking the replies of the second batch, and exporting what they say.     *)
LEMMA TakeSecond ==
  ASSUME NoErrors, TypeOK, Aligned, Grounded
  PROVE  /\ ReceiveInfo => Grounded' /\ UNCHANGED KeySamples!sampleVars
         /\ EmitInfo => Grounded' /\ KeySamples!Export
<1>1. ASSUME ReceiveInfo PROVE Grounded' /\ UNCHANGED KeySamples!sampleVars
  <2>1. /\ UNCHANGED <<store, seen, answers, emitted, log, db, types, idx, pc, keys>>
        /\ pc = "info" /\ idx <= Len(keys) /\ Len(got) < width(idx)
        /\ got \in Seq(Replies) /\ Len(got) \in Nat
    BY <1>1, LenProperties, ReceivesMatchSends DEF ReceiveInfo, env, TypeOK, ControlOK, keys, width
  <2>2. AnswersTold' /\ TypesTold'
    BY <2>1, AnswersStay, TypesStay DEF Grounded
  <2>3. \E r \in Replies :
          /\ got' = Append(got, r)
          /\ \/ r = NoReply
             \/ Told(r, InfoCmds(TypeName(types[idx]))[Len(got) + 1], db, keys[idx])
    <3>1. CASE Receive /\ got' = Append(got, Received)
      <4>1. InfoCmds(TypeName(types[idx]))[Len(got) + 1] \in KeyCmds
        <5>1. Len(got) \in Nat
          BY <2>1, LenProperties
        <5> QED
          BY <2>1, <5>1, InfoCmdsType DEF width
      <4>2. Told(Received, InfoCmds(TypeName(types[idx]))[Len(got) + 1], db, keys[idx])
        BY <2>1, <3>1, <4>1, AtInfo, ReceivedTold DEF Receive
      <4>3. Received \in Replies
        BY <1>1, <3>1, ReceivedType DEF ReceiveInfo, TypeOK, ConnOK, env
      <4> QED
        BY <3>1, <4>2, <4>3
    <3>2. CASE got' = Append(got, NoReply)
      BY <3>2, NoReplyType
    <3> QED
      BY <1>1, <3>1, <3>2 DEF ReceiveInfo
  <2>4. PICK r \in Replies :
          /\ got' = Append(got, r)
          /\ \/ r = NoReply
             \/ Told(r, InfoCmds(TypeName(types[idx]))[Len(got) + 1], db, keys[idx])
    BY <2>3
  <2>5. /\ Len(got) \in Nat /\ Len(got') = Len(got) + 1 /\ got'[Len(got) + 1] = r
        /\ \A j \in 1 .. Len(got) : got'[j] = got[j]
    <3>1. got' = Append(got, r)
      BY <2>4
    <3>2. got \in Seq(Replies)
      BY <2>1
    <3> QED
      BY <3>1, <3>2, AppendProperties, LenProperties
  <2>6. \A j \in 1 .. Len(got) :
          got[j] = NoReply \/ Told(got[j], InfoCmds(TypeName(types[idx]))[j], db, keys[idx])
    BY <2>1 DEF Grounded, InfoTold
  <2>7. \A j \in 1 .. Len(got') :
          got'[j] = NoReply \/ Told(got'[j], InfoCmds(TypeName(types[idx]))[j], db, keys[idx])
    <3> TAKE j \in 1 .. Len(got')
    <3>1. CASE j = Len(got) + 1
      BY <2>4, <2>5, <3>1
    <3>2. CASE j \in 1 .. Len(got)
      BY <2>5, <2>6, <3>2
    <3> QED
      BY <2>5, <3>1, <3>2
  <2>8. InfoTold'
    BY <2>1, <2>7 DEF InfoTold, Told
  <2> QED
    BY <2>1, <2>2, <2>8, ExportsNothing DEF Grounded, KeySamples!sampleVars
<1>2. ASSUME EmitInfo PROVE Grounded' /\ KeySamples!Export
  <2>1. /\ UNCHANGED <<store, seen, answers, log, db, types, pc>>
        /\ pc = "info" /\ idx \in 1 .. Len(keys) /\ keys[idx] \in Keys /\ db \in DBs
        /\ Len(got) = Len(InfoCmds(TypeName(types[idx]))) /\ got' = <<>>
    BY <1>2, KeysType, ReceivesMatchSends DEF EmitInfo, env, TypeOK, ControlOK
  <2>2. AnswersTold' /\ TypesTold' /\ InfoTold'
    <3>1. Len(got') = 0
      BY <2>1
    <3> QED
      BY <2>1, <3>1, AnswersStay, TypesStay DEF Grounded, InfoTold
  <2>3. types[idx] = NoReply \/ Told(types[idx], "TYPE", db, keys[idx])
    BY <2>1 DEF Grounded, TypesTold, Listed
  <2>4. \A j \in 1 .. Len(got) :
          got[j] = NoReply \/ Told(got[j], InfoCmds(TypeName(types[idx]))[j], db, keys[idx])
    BY <2>1 DEF Grounded, InfoTold
  <2>5. /\ \A s \in InfoSamples(types[idx], got, db, keys[idx]) : KeySamples!Honest(s)
        /\ KeySamples!Sized(InfoSamples(types[idx], got, db, keys[idx]))
    BY <2>1, <2>3, <2>4, InfoHonest
  <2>6. KeySamples!Export /\ KeySamples!Sized(emitted')
    BY <1>2, <2>1, <2>5, Exports DEF EmitInfo
  <2> QED
    BY <2>1, <2>2, <2>6 DEF Grounded
<1> QED
  BY <1>1, <1>2

(* A count.                                                                 *)
LEMMA TakeCount ==
  ASSUME NoErrors, TypeOK, CountsAligned, Aligned, Grounded, CountEmit
  PROVE  Grounded' /\ KeySamples!Export
<1>1. /\ UNCHANGED <<store, seen, answers, log>> /\ pc = "count_scan" /\ pc' = "count"
      /\ Len(answers) = Len(log) /\ Len(log) > 0 /\ Len(log) \in Nat
  BY LenProperties DEF CountEmit, env, AllDue, TypeOK, ConnOK, ControlOK
<1>2. log[Len(log)] = Req("SCAN", count, NoKey)
  BY <1>1 DEF CountsAligned, CountsInStep
<1>3. answers[Len(answers)] = PlainReply("array", "SCAN", count)
  BY <1>1, <1>2, ReqFields DEF Grounded, AnswersTold
<1> DEFINE s == Sample("keys_count", count, NoKey, answers[Len(answers)])
<1>4. KeySamples!Honest(s)
  BY <1>3 DEF KeySamples!Honest, KeySamples!Tells, Sample, PlainReply
<1>5. KeySamples!Sized({s}) /\ emitted' = emitted \cup {s}
  BY DEF KeySamples!Sized, Sample, CountEmit
<1> HIDE DEF s
<1>6. KeySamples!Export /\ KeySamples!Sized(emitted')
  BY <1>1, <1>4, <1>5, Exports
<1>7. AnswersTold' /\ TypesTold' /\ InfoTold'
  BY <1>1, AnswersStay DEF Grounded, TypesTold, InfoTold, Listed
<1> QED
  BY <1>1, <1>6, <1>7 DEF Grounded

(* The environment.                                                         *)
LEMMA GroundedServe ==
  ASSUME NoErrors, TypeOK, Aligned, Grounded, Serve
  PROVE  Grounded' /\ UNCHANGED KeySamples!sampleVars
<1>1. UNCHANGED <<store, seen, emitted, pc, db, idx, types, got>>
  BY DEF Serve
<1>2. AnswersTold'
  BY AnswersServe
<1>3. TypesTold'
  BY <1>1, TypesStay DEF Grounded
<1>4. InfoTold'
  BY <1>1, InfoStays DEF Grounded
<1> QED
  BY <1>1, <1>2, <1>3, <1>4, ExportsNothing DEF Grounded, KeySamples!sampleVars

LEMMA GroundedStays ==
  ASSUME TypeOK, Aligned, Grounded,
         UNCHANGED <<answers, log, emitted, pc, db, idx, types, got>>,
         \A d \in DBs, k \in Keys : seen[d][k] \subseteq seen'[d][k] /\ store'[d][k] \in seen'[d][k]
  PROVE  Grounded'
<1>1. AnswersTold'
  BY AnswersStay DEF Grounded
<1>2. TypesTold'
  BY TypesStay DEF Grounded
<1>3. InfoTold'
  BY InfoStays DEF Grounded
<1> QED
  BY <1>1, <1>2, <1>3, ExportsNothing DEF Grounded

LEMMA GroundedWrite ==
  ASSUME TypeOK, Aligned, Grounded,
         NEW d \in DBs, NEW k \in Keys, NEW kind \in WriteKinds, ClientWrite(d, k, kind)
  PROVE  Grounded' /\ KeySamples!ClientWrite(d, k, kind)
<1>1. \A e \in DBs, l \in Keys :
        seen[e][l] \subseteq seen'[e][l] /\ store'[e][l] \in seen'[e][l]
  BY DEF ClientWrite, TypeOK, DataOK, Stores, Grounded
<1>2. UNCHANGED <<answers, log, emitted, pc, db, idx, types, got>>
  BY DEF ClientWrite, connVars
<1> QED
  BY <1>1, <1>2, GroundedStays DEF ClientWrite, KeySamples!ClientWrite

LEMMA GroundedStep ==
  NoErrors /\ TypeOK /\ CountsAligned /\ Aligned /\ Grounded /\ [Next]_vars
    => Grounded' /\ [KeySamples!Next]_(KeySamples!sampleVars)
<1> SUFFICES ASSUME NoErrors, TypeOK, CountsAligned, Aligned, Grounded, [Next]_vars
             PROVE  Grounded' /\ [KeySamples!Next]_(KeySamples!sampleVars)
  OBVIOUS
<1>1. CASE \/ \E d \in DBs : SendSelect(d)
           \/ SendTypeAndMemory \/ FlushKeys \/ GetKeyInfo \/ SendInfo \/ FlushInfo
           \/ EndDb \/ EndKeys \/ CountSelect \/ CountSkip \/ CountScan \/ CountEnd
  BY <1>1, QuietActions
<1>2. CASE ReceiveSelect \/ ReceiveType \/ ReceiveMemory
  BY <1>2, TakeFirst DEF KeySamples!Next
<1>3. CASE ReceiveInfo \/ EmitInfo
  BY <1>3, TakeSecond DEF KeySamples!Next
<1>4. CASE CountEmit
  BY <1>4, TakeCount DEF KeySamples!Next
<1>5. CASE Serve
  BY <1>5, GroundedServe
<1>6. ASSUME NEW d \in DBs, NEW k \in Keys, NEW kind \in WriteKinds, ClientWrite(d, k, kind)
      PROVE  Grounded' /\ KeySamples!Next
  BY <1>6, GroundedWrite, PipelineAssumption DEF KeySamples!Next, KeySamples!Kinds, Kinds
<1>7. CASE Break \/ Done \/ UNCHANGED vars
  <2>1. UNCHANGED <<store, seen, answers, log, emitted, pc, db, idx, types, got>>
    BY <1>7 DEF Break, Done, vars, connVars
  <2>2. \A d \in DBs, k \in Keys :
          seen[d][k] \subseteq seen'[d][k] /\ store'[d][k] \in seen'[d][k]
    BY <2>1 DEF Grounded
  <2> QED
    BY <2>1, <2>2, GroundedStays DEF KeySamples!sampleVars
<1> QED
  BY <1>1, <1>2, <1>3, <1>4, <1>5, <1>6, <1>7 DEF Next, Exporter

LEMMA GroundedInit == Init => Grounded /\ KeySamples!Init
<1> SUFFICES ASSUME Init PROVE Grounded /\ KeySamples!Init
  OBVIOUS
<1>1. store \in KeySamples!Stores
  BY PipelineAssumption DEF Init, Stores, Kinds, KeySamples!Stores, KeySamples!Kinds
<1>2. Len(answers) = 0
  BY DEF Init
<1>3. KeySamples!Init
  BY <1>1 DEF Init, KeySamples!Init
<1>4. AnswersTold /\ TypesTold /\ InfoTold
  BY <1>2 DEF Init, AnswersTold, TypesTold, InfoTold, Listed
<1> QED
  BY <1>3, <1>4 DEF Init, Grounded, KeySamples!Sized

(* The inductive invariant of the two theorems below.                       *)
LEMMA GroundedAlways ==
  ASSUME NoErrors
  PROVE  Spec => [](TypeOK /\ CountsAligned /\ Aligned /\ Grounded)
<1>1. Init => TypeOK /\ CountsAligned /\ Aligned /\ Grounded
  BY InitType, CountsInit, AlignedInit, GroundedInit
<1>2. TypeOK /\ CountsAligned /\ Aligned /\ Grounded /\ [Next]_vars
        => (TypeOK /\ CountsAligned /\ Aligned /\ Grounded)'
  BY NoErrors, TypeStep, CountsStep, AlignedStep, GroundedStep
<1> QED
  BY <1>1, <1>2, PTL DEF Spec

(* The pipelined path implements KeySample when SELECT, TYPE and MEMORY     *)
(* USAGE answer no error: whatever other clients write between the two      *)
(* batches and wherever the connection breaks, every sample is about what   *)
(* its own key really was, and no value goes out without its size.          *)
THEOREM PipelineHonest ==
  ASSUME NoErrors
  PROVE  Spec => SampleSpec
<1>1. Init => KeySamples!Init
  BY GroundedInit
<1>2. TypeOK /\ CountsAligned /\ Aligned /\ Grounded /\ [Next]_vars
        => [KeySamples!Next]_(KeySamples!sampleVars)
  BY NoErrors, GroundedStep
<1>3. Spec => [](TypeOK /\ CountsAligned /\ Aligned /\ Grounded)
  BY NoErrors, GroundedAlways
<1> QED
  BY <1>1, <1>2, <1>3, PTL DEF Spec, SampleSpec, KeySamples!Spec

-----------------------------------------------------------------------------
(* A key that nobody writes is exported, if the connection holds.           *)

Busy == {"send", "select"} \cup Listed

Steady(d, k, kinds) == \E kind \in kinds : seen[d][k] = {kind}

MemoryShown(d, i) ==
  Steady(d, KeysByDb[d][i], Kinds \ {"none", "module"}) =>
    Exported("key_memory_usage_bytes", d, KeysByDb[d][i])

SizeShown(d, i) ==
  Steady(d, KeysByDb[d][i], Kinds \ {"module"}) => Exported("key_size", d, KeysByDb[d][i])

Shown(d) == \A i \in DOMAIN KeysByDb[d] : MemoryShown(d, i) /\ SizeShown(d, i)

(* How far the samples have come: the databases that are done, and the keys *)
(* of the current one, in the first batch and in the second.                *)
Visited == \A d \in DBs \ todo : d # db \/ pc \notin Busy => Shown(d)

MemoryProgress ==
  /\ pc \in {"type", "memory"} =>
       \A i \in 1 .. idx - 1 : types[i] # NoReply /\ MemoryShown(db, i)
  /\ pc = "memory" => types[idx] # NoReply
  /\ pc \in {"send_info", "info"} =>
       \A i \in 1 .. Len(keys) : types[i] # NoReply /\ MemoryShown(db, i)

SizeProgress ==
  pc = "info" => /\ \A i \in 1 .. idx - 1 : SizeShown(db, i)
                 /\ \A j \in 1 .. Len(got) : got[j] # NoReply

Progress ==
  /\ pc \in {"count", "count_select", "count_scan", "done"} => todo = {}
  /\ Visited /\ MemoryProgress /\ SizeProgress

LEMMA ListDomain ==
  ASSUME NEW d \in DBs
  PROVE  /\ KeysByDb[d] \in Seq(Keys) /\ Len(KeysByDb[d]) \in Nat
         /\ DOMAIN KeysByDb[d] = 1 .. Len(KeysByDb[d])
         /\ \A i \in DOMAIN KeysByDb[d] : KeysByDb[d][i] \in Keys
<1>1. KeysByDb[d] \in Seq(Keys)
  BY PipelineAssumption
<1> QED
  BY <1>1, LenProperties, ElementOfSeq

(* Time only adds to what has been and what is exported.                    *)
Onward == /\ emitted \subseteq emitted'
          /\ \A d \in DBs, k \in Keys : seen[d][k] \subseteq seen'[d][k] /\ seen[d][k] # {}

LEMMA ShownStays ==
  ASSUME Onward, NEW d \in DBs, NEW i \in DOMAIN KeysByDb[d]
  PROVE  (MemoryShown(d, i) => MemoryShown(d, i)') /\ (SizeShown(d, i) => SizeShown(d, i)')
<1>1. KeysByDb[d][i] \in Keys
  BY ListDomain
<1>2. \A kinds : Steady(d, KeysByDb[d][i], kinds)' => Steady(d, KeysByDb[d][i], kinds)
  BY <1>1 DEF Onward, Steady
<1>3. \A metric : Exported(metric, d, KeysByDb[d][i]) => Exported(metric, d, KeysByDb[d][i])'
  BY DEF Onward, Exported
<1> QED
  BY <1>2, <1>3 DEF MemoryShown, SizeShown

LEMMA VisitedStays ==
  ASSUME Onward, Visited, UNCHANGED <<todo, db>>, pc \in Busy => pc' \in Busy
  PROVE  Visited'
<1> SUFFICES ASSUME NEW d \in DBs \ todo, d # db \/ pc' \notin Busy
             PROVE  Shown(d)'
  BY DEF Visited
<1>1. Shown(d)
  BY DEF Visited
<1> QED
  BY <1>1, ShownStays DEF Shown

LEMMA KeysStay ==
  ASSUME TypeOK, Onward, UNCHANGED db
  PROVE  /\ db \in DBs /\ keys' = keys /\ Len(keys) \in Nat
         /\ DOMAIN KeysByDb[db] = 1 .. Len(keys) /\ keys = KeysByDb[db]
         /\ \A i \in 1 .. Len(keys) : /\ keys[i] \in Keys
                                      /\ MemoryShown(db, i) => MemoryShown(db, i)'
                                      /\ SizeShown(db, i) => SizeShown(db, i)'
<1>1. db \in DBs /\ keys = KeysByDb[db] /\ Len(keys) \in Nat /\ DOMAIN KeysByDb[db] = 1 .. Len(keys)
      /\ keys' = keys /\ \A i \in 1 .. Len(keys) : keys[i] \in Keys
  BY ListDomain DEF keys, TypeOK, ControlOK
<1>2. \A i \in 1 .. Len(keys) : (MemoryShown(db, i) => MemoryShown(db, i)')
                               /\ (SizeShown(db, i) => SizeShown(db, i)')
  BY <1>1, ShownStays
<1> QED
  BY <1>1, <1>2

(* Where the loops are, unless the connection failed.                       *)
LEMMA InList ==
  ASSUME TypeOK, Aligned, open, pc \in Listed
  PROVE  idx \in 1 .. Len(keys) + 1
<1>1. idx \in Nat /\ idx > 0 /\ Len(keys) \in Nat
  BY KeysType DEF TypeOK, ControlOK
<1>2. idx <= Len(keys) + 1
  <2>1. CASE pc = "memory"
    BY <1>1, <2>1 DEF TypeOK, ControlOK
  <2>2. CASE pc = "send_info"
    <3>1. idx - 1 <= Len(keys)
      BY <2>2 DEF Aligned, InStep, Position, SecondBatch
    <3> QED
      BY <1>1, <3>1
  <2>3. CASE pc \in {"type", "info"}
    BY <2>3 DEF Aligned, InStep, Position
  <2> QED
    BY <2>1, <2>2, <2>3 DEF Listed
<1> QED
  BY <1>1, <1>2

LEMMA ProgressStays ==
  ASSUME TypeOK, Aligned, open, Onward, Progress, UNCHANGED <<pc, todo, db, idx, types, got>>
  PROVE  Progress'
<1>1. keys' = keys /\ Len(keys) \in Nat /\ idx \in Nat
  BY KeysStay DEF TypeOK, ControlOK
<1>2. Visited'
  BY VisitedStays DEF Progress
<1>3. \A i \in 1 .. Len(keys) : (MemoryShown(db, i) => MemoryShown(db, i)')
                               /\ (SizeShown(db, i) => SizeShown(db, i)')
  BY KeysStay
<1>4. pc \in Listed => \A i \in 1 .. idx - 1 : i \in 1 .. Len(keys)
  BY <1>1, InList
<1>5. MemoryProgress'
  BY <1>1, <1>3, <1>4 DEF Progress, MemoryProgress, Listed
<1>6. SizeProgress'
  BY <1>1, <1>3, <1>4 DEF Progress, SizeProgress, Listed
<1> QED
  BY <1>2, <1>5, <1>6 DEF Progress

LEMMA ToldReal ==
  ASSUME NEW cmd, NEW d, NEW k \in Keys, NEW r, Told(r, cmd, d, k)
  PROVE  r # NoReply
BY RedisKeysAssumption DEF Told, KeyReply, NoReply, PlainReply

(* What is exported for a key of one kind all along.                        *)
LEMMA MemoryEmitted ==
  ASSUME NoErrors, NEW d, NEW k, NEW r, Told(r, "MEMORY", d, k),
         Steady(d, k, Kinds \ {"none", "module"})
  PROVE  IsInt64(r)
BY DEF NoErrors, Told, Steady, KeyReply, KeyShape, IsInt64

Answered(typ, rs, d, k) ==
  /\ Told(typ, "TYPE", d, k)
  /\ Len(rs) = Len(InfoCmds(TypeName(typ)))
  /\ \A j \in 1 .. Len(rs) : Told(rs[j], InfoCmds(TypeName(typ))[j], d, k)

LEMMA SizeEmitted ==
  ASSUME NoErrors, NEW d, NEW k, NEW typ, NEW rs, Answered(typ, rs, d, k),
         Steady(d, k, Kinds \ {"module"})
  PROVE  \E s \in InfoSamples(typ, rs, d, k) : s.metric = "key_size" /\ s.db = d /\ s.key = k
<1> USE DEF Answered
<1>1. PICK kind \in Kinds \ {"module"} : seen[d][k] = {kind}
  BY DEF Steady
<1>2. typ = KeyReply("TYPE", d, k, kind)
  BY <1>1 DEF Told
<1>3. TypeName(typ) = TypeOf(kind)
  BY <1>2 DEF NoErrors, KeyReply, KeyShape, TypeName, IsString
<1>4. \A r : Sample("key_size", d, k, r).metric = "key_size" /\ Sample("key_size", d, k, r).db = d
            /\ Sample("key_size", d, k, r).key = k
  BY DEF Sample
<1> SUFFICES \E r : Sample("key_size", d, k, r) \in InfoSamples(typ, rs, d, k)
  BY <1>4
<1>5. CASE kind = "none"
  BY <1>3, <1>5 DEF TypeOf, StringKinds, InfoSamples
<1>6. CASE kind = "list"
  <2>1. TypeName(typ) = "list" /\ Len(rs) = 1 /\ InfoCmds(TypeName(typ))[1] = "LEN"
    BY <1>3, <1>6 DEF TypeOf, StringKinds, InfoCmds
  <2>2. rs[1] = KeyReply("LEN", d, k, kind)
    BY <1>1, <2>1 DEF Told
  <2>3. IsInt64(rs[1])
    BY <1>6, <2>2 DEF NoErrors, KeyReply, KeyShape, IsInt64
  <2> QED
    BY <2>1, <2>3 DEF InfoSamples
<1>7. CASE kind \in StringKinds
  <2>1. /\ TypeName(typ) = "string" /\ Len(rs) = 3
        /\ InfoCmds(TypeName(typ))[1] = "PFCOUNT" /\ InfoCmds(TypeName(typ))[2] = "STRLEN"
    BY <1>3, <1>7 DEF TypeOf, InfoCmds
  <2>2. rs[2] = KeyReply("STRLEN", d, k, kind)
    BY <1>1, <2>1 DEF Told
  <2>3. IsInt64(rs[2])
    BY <1>7, <2>2 DEF NoErrors, KeyReply, KeyShape, IsInt64
  <2>4. InfoSamples(typ, rs, d, k) = StringSamples(rs, d, k)
    BY <2>1 DEF InfoSamples
  <2> QED
    BY <2>3, <2>4 DEF StringSamples
<1> QED
  BY <1>1, <1>5, <1>6, <1>7 DEF Kinds, StringKinds

LEMMA OnwardStep ==
  ASSUME TypeOK, Grounded, [Next]_vars
  PROVE  Onward
<1>1. \A d \in DBs, k \in Keys : seen[d][k] # {}
  BY DEF Grounded
<1>2. CASE UNCHANGED <<seen, emitted>>
  BY <1>1, <1>2 DEF Onward
<1>3. CASE Exporter
  <2>1. UNCHANGED seen
    BY <1>3 DEF Exporter, SendSelect, SendTypeAndMemory, FlushKeys, ReceiveSelect, ReceiveType,
         ReceiveMemory, GetKeyInfo, SendInfo, FlushInfo, ReceiveInfo, EmitInfo, EndDb, EndKeys,
         CountSelect, CountSkip, CountScan, CountEmit, CountEnd, env
  <2>2. emitted \subseteq emitted'
    BY <1>3 DEF Exporter, SendSelect, SendTypeAndMemory, FlushKeys, ReceiveSelect, ReceiveType,
         ReceiveMemory, GetKeyInfo, SendInfo, FlushInfo, ReceiveInfo, EmitInfo, EndDb, EndKeys,
         CountSelect, CountSkip, CountScan, CountEmit, CountEnd, env
  <2> QED
    BY <1>1, <2>1, <2>2 DEF Onward
<1>4. ASSUME NEW d \in DBs, NEW k \in Keys, NEW kind \in WriteKinds, ClientWrite(d, k, kind)
      PROVE  Onward
  BY <1>1, <1>4 DEF ClientWrite, Onward, TypeOK, DataOK
<1> QED
  BY <1>2, <1>3, <1>4 DEF Next, Serve, Break, Done, vars

(* Sending the first batch, and taking its replies.                         *)
LEMMA ProgressFirst ==
  ASSUME NoErrors, TypeOK, Aligned, Grounded, Onward, Progress, open
  PROVE  /\ \A d \in DBs : SendSelect(d) => Progress'
         /\ SendTypeAndMemory \/ FlushKeys => Progress'
         /\ ReceiveSelect => Progress'
         /\ ReceiveType => Progress'
         /\ ReceiveMemory => Progress'
<1>1. ASSUME NEW d \in DBs, SendSelect(d) PROVE Progress'
  <2>1. pc = "next_db" /\ pc' = "send" /\ todo' = todo \ {d} /\ db' = d
    BY <1>1 DEF SendSelect
  <2>2. ASSUME NEW e \in DBs \ todo', e # db' \/ pc' \notin Busy PROVE Shown(e)'
    <3>1. e \notin todo /\ pc \notin Busy
      BY <2>1, <2>2 DEF Busy, Listed
    <3>2. Shown(e)
      BY <3>1 DEF Progress, Visited
    <3> QED
      BY <3>2, ShownStays DEF Shown
  <2> QED
    BY <2>1, <2>2 DEF Progress, Visited, MemoryProgress, SizeProgress
<1>2. ASSUME SendTypeAndMemory \/ FlushKeys PROVE Progress'
  <2>1. UNCHANGED <<todo, db>> /\ pc' \in {"send", "select"}
    BY <1>2 DEF SendTypeAndMemory, FlushKeys
  <2>2. Visited'
    BY <2>1, VisitedStays DEF Progress, Busy
  <2> QED
    BY <2>1, <2>2 DEF Progress, MemoryProgress, SizeProgress
<1>3. ASSUME ReceiveSelect PROVE Progress'
  <2>1. Receive /\ pc = "select" /\ UNCHANGED <<todo, db>>
    BY <1>3 DEF ReceiveSelect
  <2>2. log[nread + 1] = Req("SELECT", db, NoKey)
    <3>1. nread = base /\ FirstBatch(Len(keys))
      BY <2>1 DEF Aligned, InStep, Position
    <3> QED
      BY <3>1 DEF FirstBatch
  <2>3. IsString(Received)
    BY <2>1, <2>2, Fit, ReqFields DEF Aligned, IsString
  <2>4. pc' = "type" /\ idx' = 1
    BY <1>3, <2>3 DEF ReceiveSelect
  <2>5. Visited'
    BY <2>1, <2>4, VisitedStays DEF Progress, Busy, Listed
  <2> QED
    BY <2>4, <2>5 DEF Progress, MemoryProgress, SizeProgress
<1>4. ASSUME ReceiveType PROVE Progress'
  <2>1. /\ Receive /\ pc = "type" /\ UNCHANGED <<todo, db>> /\ idx \in 1 .. Len(keys)
        /\ types \in Seq(Replies) /\ Len(types) = Len(keys) /\ keys[idx] \in Keys
    BY <1>4, KeysType DEF ReceiveType, TypeOK, ControlOK
  <2>2. log[nread + 1] = Req("TYPE", db, keys[idx])
    BY <2>1, AtType
  <2>3. IsString(Received)
    BY <2>1, <2>2, Fit, ReqFields DEF Aligned, IsString
  <2>4. Received # NoReply
    <3>1. Told(Received, "TYPE", db, keys[idx])
      BY <2>1, <2>2, ReceivedTold DEF KeyCmds
    <3> QED
      BY <2>1, <3>1, ToldReal
  <2>5. pc' = "memory" /\ idx' = idx /\ types' = [types EXCEPT ![idx] = Received]
    BY <1>4, <2>3 DEF ReceiveType
  <2>6. \A i \in 1 .. Len(keys) : types'[i] = IF i = idx THEN Received ELSE types[i]
    BY <2>1, <2>5, LenProperties
  <2>7. Visited'
    BY <2>1, <2>5, VisitedStays DEF Progress, Busy, Listed
  <2>8. \A i \in 1 .. idx - 1 : types'[i] # NoReply /\ MemoryShown(db, i)'
    <3> TAKE i \in 1 .. idx - 1
    <3>1. i \in 1 .. Len(keys) /\ i # idx
      BY <2>1, KeysStay
    <3>2. types[i] # NoReply /\ MemoryShown(db, i)
      BY <2>1 DEF Progress, MemoryProgress
    <3> QED
      BY <2>1, <2>6, <3>1, <3>2, KeysStay
  <2> QED
    BY <2>1, <2>4, <2>5, <2>6, <2>7, <2>8 DEF Progress, MemoryProgress, SizeProgress
<1>5. ASSUME ReceiveMemory PROVE Progress'
  <2>1. /\ Receive /\ pc = "memory" /\ pc' = "type" /\ idx' = idx + 1 /\ idx \in 1 .. Len(keys)
        /\ UNCHANGED <<todo, db, types, seen>> /\ keys[idx] \in Keys /\ Len(keys) \in Nat
    BY <1>5, KeysType DEF ReceiveMemory, env, TypeOK, ControlOK
  <2>2. Told(Received, "MEMORY", db, keys[idx])
    BY <2>1, AtMemory, ReceivedTold DEF KeyCmds
  <2>3. ASSUME NEW i, i = idx PROVE MemoryShown(db, i)'
    <3>1. PICK d, k : d = db /\ k = keys[idx] /\ k = KeysByDb[d][i]
      BY <2>3, KeysStay, <2>1
    <3>2. ASSUME Steady(d, k, Kinds \ {"none", "module"})
          PROVE  Exported("key_memory_usage_bytes", d, k)'
      <4>1. IsInt64(Received)
        BY <2>2, <3>1, <3>2, MemoryEmitted
      <4>2. Sample("key_memory_usage_bytes", d, k, Received) \in emitted'
        BY <1>5, <3>1, <4>1 DEF ReceiveMemory
      <4> QED
        BY <4>2 DEF Exported, Sample
    <3> QED
      BY <2>1, <3>1, <3>2 DEF MemoryShown, Steady
  <2>4. Visited'
    BY <2>1, VisitedStays DEF Progress, Busy, Listed
  <2>5. \A i \in 1 .. idx' - 1 : types'[i] # NoReply /\ MemoryShown(db, i)'
    <3> TAKE i \in 1 .. idx' - 1
    <3>1. i \in 1 .. Len(keys) /\ (i \in 1 .. idx - 1 \/ i = idx)
      BY <2>1
    <3>2. CASE i = idx
      BY <2>1, <2>3, <3>2 DEF Progress, MemoryProgress
    <3>3. CASE i \in 1 .. idx - 1
      BY <2>1, <3>1, <3>3, KeysStay DEF Progress, MemoryProgress
    <3> QED
      BY <3>1, <3>2, <3>3
  <2> QED
    BY <2>1, <2>4, <2>5 DEF Progress, MemoryProgress, SizeProgress
<1> QED
  BY <1>1, <1>2, <1>3, <1>4, <1>5

(* The second batch.                                                        *)
LEMMA ProgressSecond ==
  ASSUME NoErrors, TypeOK, Aligned, Grounded, Onward, Progress, open
  PROVE  /\ GetKeyInfo \/ SendInfo \/ FlushInfo => Progress'
         /\ ReceiveInfo => Progress'
         /\ EmitInfo => Progress'
         /\ EndDb => Progress'
<1>1. ASSUME GetKeyInfo \/ SendInfo \/ FlushInfo PROVE Progress'
  <2>1. /\ UNCHANGED <<todo, db, types, got>> /\ pc \in {"type", "send_info"}
        /\ pc' \in {"send_info", "info"} /\ (pc' = "info" => idx' = 1)
        /\ (pc = "type" => idx > Len(keys))
    BY <1>1 DEF GetKeyInfo, SendInfo, FlushInfo
  <2>2. Len(got) = 0
    BY <2>1 DEF Aligned, InStep, RepliesOfKey
  <2>3. \A i \in 1 .. Len(keys) : types[i] # NoReply /\ MemoryShown(db, i)
    <3>1. CASE pc = "send_info"
      BY <3>1 DEF Progress, MemoryProgress
    <3>2. CASE pc = "type"
      <4>1. idx - 1 = Len(keys)
        BY <2>1, <3>2, InList, KeysStay DEF Listed
      <4> QED
        BY <3>2, <4>1 DEF Progress, MemoryProgress
    <3> QED
      BY <2>1, <3>1, <3>2
  <2>4. Visited'
    BY <2>1, VisitedStays DEF Progress, Busy, Listed
  <2>5. \A i \in 1 .. Len(keys) : types'[i] # NoReply /\ MemoryShown(db, i)'
    BY <2>1, <2>3, KeysStay
  <2>6. keys' = keys
    BY <2>1, KeysStay
  <2>7. MemoryProgress'
    BY <2>1, <2>5, <2>6 DEF MemoryProgress
  <2>8. SizeProgress'
    BY <2>1, <2>2 DEF SizeProgress
  <2> QED
    BY <2>1, <2>4, <2>7, <2>8 DEF Progress
<1>2. ASSUME ReceiveInfo PROVE Progress'
  <2>1. /\ UNCHANGED <<todo, db, types, idx, pc>> /\ pc = "info" /\ idx \in 1 .. Len(keys)
        /\ got \in Seq(Replies) /\ Len(got) \in Nat /\ Len(got) < width(idx)
        /\ keys[idx] \in Keys /\ Receive /\ got' = Append(got, Received)
    BY <1>2, KeysType, LenProperties, ReceivesMatchSends DEF ReceiveInfo, TypeOK, ControlOK, width
  <2>2. Received \in Replies
    BY <1>2, <2>1, ReceivedType DEF ReceiveInfo, TypeOK, ConnOK, env
  <2>3. InfoCmds(TypeName(types[idx]))[Len(got) + 1] \in KeyCmds
    BY <2>1, InfoCmdsType DEF width
  <2>4. Told(Received, InfoCmds(TypeName(types[idx]))[Len(got) + 1], db, keys[idx])
    BY <2>1, <2>3, AtInfo, ReceivedTold
  <2>5. Received # NoReply
    BY <2>1, <2>4, ToldReal
  <2>6. /\ Len(got') = Len(got) + 1 /\ got'[Len(got) + 1] = Received
        /\ \A j \in 1 .. Len(got) : got'[j] = got[j]
    BY <2>1, <2>2, AppendProperties, LenProperties
  <2>7. \A j \in 1 .. Len(got') : got'[j] # NoReply
    <3> TAKE j \in 1 .. Len(got')
    <3>1. CASE j = Len(got) + 1
      BY <2>5, <2>6, <3>1
    <3>2. CASE j \in 1 .. Len(got)
      BY <2>1, <2>6, <3>2 DEF Progress, SizeProgress
    <3> QED
      BY <2>1, <2>6, <3>1, <3>2
  <2>8. Visited'
    BY <2>1, VisitedStays DEF Progress
  <2>9. \A i \in 1 .. Len(keys) : types'[i] # NoReply /\ MemoryShown(db, i)'
    BY <2>1, KeysStay DEF Progress, MemoryProgress
  <2>10. \A i \in 1 .. idx - 1 : SizeShown(db, i)'
    <3> TAKE i \in 1 .. idx - 1
    <3>1. i \in 1 .. Len(keys)
      BY <2>1, KeysStay
    <3> QED
      BY <2>1, <3>1, KeysStay DEF Progress, SizeProgress
  <2>11. keys' = keys
    BY <2>1, KeysStay
  <2>12. MemoryProgress'
    BY <2>1, <2>9, <2>11 DEF MemoryProgress
  <2>13. SizeProgress'
    BY <2>1, <2>7, <2>10 DEF SizeProgress
  <2> QED
    BY <2>1, <2>8, <2>12, <2>13 DEF Progress
<1>3. ASSUME EmitInfo PROVE Progress'
  <2>1. /\ UNCHANGED <<todo, db, types, pc, seen>> /\ pc = "info" /\ idx \in 1 .. Len(keys)
        /\ idx' = idx + 1 /\ got' = <<>> /\ Len(got) = Len(InfoCmds(TypeName(types[idx])))
        /\ keys[idx] \in Keys
    BY <1>3, KeysType, ReceivesMatchSends DEF EmitInfo, env, TypeOK, ControlOK
  <2>2. Told(types[idx], "TYPE", db, keys[idx])
    BY <2>1 DEF Progress, MemoryProgress, Grounded, TypesTold, Listed
  <2>3. \A j \in 1 .. Len(got) : Told(got[j], InfoCmds(TypeName(types[idx]))[j], db, keys[idx])
    BY <2>1 DEF Progress, SizeProgress, Grounded, InfoTold
  <2>4. ASSUME NEW i, i = idx PROVE SizeShown(db, i)'
    <3>1. PICK d, k : d = db /\ k = keys[idx] /\ k = KeysByDb[d][i]
      BY <2>4, KeysStay, <2>1
    <3>2. ASSUME Steady(d, k, Kinds \ {"module"}) PROVE Exported("key_size", d, k)'
      <4>1. \E s \in InfoSamples(types[idx], got, d, k) :
              s.metric = "key_size" /\ s.db = d /\ s.key = k
        <5>1. Answered(types[idx], got, d, k)
          BY <2>1, <2>2, <2>3, <3>1 DEF Answered
        <5> QED
          BY <3>2, <5>1, SizeEmitted
      <4>2. InfoSamples(types[idx], got, d, k) \subseteq emitted'
        BY <1>3, <3>1 DEF EmitInfo
      <4> QED
        BY <4>1, <4>2 DEF Exported
    <3> QED
      BY <2>1, <3>1, <3>2 DEF SizeShown, Steady
  <2>5. Visited'
    BY <2>1, VisitedStays DEF Progress
  <2>6. \A i \in 1 .. Len(keys) : types'[i] # NoReply /\ MemoryShown(db, i)'
    BY <2>1, KeysStay DEF Progress, MemoryProgress
  <2>7. \A i \in 1 .. idx' - 1 : SizeShown(db, i)'
    <3> TAKE i \in 1 .. idx' - 1
    <3>1. i \in 1 .. Len(keys) /\ (i \in 1 .. idx - 1 \/ i = idx)
      BY <2>1, KeysStay
    <3>2. CASE i = idx
      BY <2>4, <3>2
    <3>3. CASE i \in 1 .. idx - 1
      BY <2>1, <3>1, <3>3, KeysStay DEF Progress, SizeProgress
    <3> QED
      BY <3>1, <3>2, <3>3
  <2>8. keys' = keys /\ Len(got') = 0
    BY <2>1, KeysStay
  <2>9. MemoryProgress'
    BY <2>1, <2>6, <2>8 DEF MemoryProgress
  <2>10. SizeProgress'
    BY <2>7, <2>8 DEF SizeProgress
  <2> QED
    BY <2>1, <2>5, <2>9, <2>10 DEF Progress
<1>4. ASSUME EndDb PROVE Progress'
  <2>1. pc = "info" /\ pc' = "next_db" /\ idx > Len(keys) /\ UNCHANGED <<todo, db>>
    BY <1>4 DEF EndDb
  <2>2. idx - 1 = Len(keys) /\ DOMAIN KeysByDb[db] = 1 .. Len(keys)
    BY <2>1, InList, KeysStay DEF Listed
  <2>3. Shown(db)
    BY <2>1, <2>2 DEF Shown, Progress, MemoryProgress, SizeProgress
  <2>4. ASSUME NEW d \in DBs \ todo' PROVE Shown(d)'
    <3>1. Shown(d)
      BY <2>1, <2>3, <2>4 DEF Progress, Visited
    <3> QED
      BY <3>1, ShownStays DEF Shown
  <2> QED
    BY <2>1, <2>4 DEF Progress, Visited, MemoryProgress, SizeProgress
<1> QED
  BY <1>1, <1>2, <1>3, <1>4

LEMMA ProgressStep ==
  NoErrors /\ TypeOK /\ Aligned /\ Grounded /\ (open => Progress) /\ [Next]_vars
    => (open => Progress)'
<1> SUFFICES ASSUME NoErrors, TypeOK, Aligned, Grounded, open => Progress, [Next]_vars, open'
             PROVE  Progress'
  OBVIOUS
<1>1. Onward
  BY OnwardStep
<1>2. open
  BY DEF Next, Exporter, SendSelect, SendTypeAndMemory, FlushKeys, ReceiveSelect, ReceiveType,
         ReceiveMemory, GetKeyInfo, SendInfo, FlushInfo, ReceiveInfo, EmitInfo, EndDb, EndKeys,
         CountSelect, CountSkip, CountScan, CountEmit, CountEnd, Serve, Break, ClientWrite, Done,
         env, connVars, vars
<1>3. CASE \/ \E d \in DBs : SendSelect(d)
           \/ SendTypeAndMemory \/ FlushKeys \/ ReceiveSelect \/ ReceiveType \/ ReceiveMemory
  BY <1>1, <1>2, <1>3, ProgressFirst
<1>4. CASE GetKeyInfo \/ SendInfo \/ FlushInfo \/ ReceiveInfo \/ EmitInfo \/ EndDb
  BY <1>1, <1>2, <1>4, ProgressSecond
<1>5. CASE EndKeys \/ CountSelect \/ CountSkip \/ CountScan \/ CountEmit \/ CountEnd
  <2>1. /\ UNCHANGED <<todo, db>> /\ pc' \in {"count", "count_select", "count_scan", "done"}
        /\ pc \in {"next_db", "count", "count_select", "count_scan"} /\ (pc = "next_db" => todo = {})
    BY <1>5 DEF EndKeys, CountSelect, CountSkip, CountScan, CountEmit, CountEnd, CountDo
  <2>2. Visited'
    BY <1>1, <1>2, <2>1, VisitedStays DEF Progress, Busy, Listed
  <2> QED
    BY <1>2, <2>1, <2>2 DEF Progress, MemoryProgress, SizeProgress
<1>6. CASE UNCHANGED <<pc, todo, db, idx, types, got>>
  BY <1>1, <1>2, <1>6, ProgressStays
<1> QED
  BY <1>3, <1>4, <1>5, <1>6 DEF Next, Exporter, Serve, Break, ClientWrite, Done, vars

LEMMA ProgressInit == Init => Progress
<1> SUFFICES ASSUME Init PROVE Progress
  OBVIOUS
<1>1. ASSUME NEW d \in DBs \ todo PROVE Shown(d)
  <2>1. KeysByDb[d] = <<>>
    BY DEF Init
  <2> QED
    BY <2>1 DEF Shown
<1> QED
  BY <1>1 DEF Init, Progress, Visited, MemoryProgress, SizeProgress

LEMMA FiniteKinds == IsFiniteSet(Kinds)
<1>1. Kinds = {"none"} \cup {"list"} \cup {"hll"} \cup {"text"} \cup {"number"} \cup {"module"}
  BY DEF Kinds
<1> QED
  BY <1>1, FS_Singleton, FS_Union

LEMMA OneKind ==
  ASSUME TypeOK, NEW d \in DBs, NEW k \in Keys, Cardinality(seen[d][k]) = 1
  PROVE  \E kind \in Kinds : seen[d][k] = {kind}
<1>1. seen[d][k] \subseteq Kinds
  BY DEF TypeOK, DataOK
<1>2. IsFiniteSet(seen[d][k])
  BY <1>1, FiniteKinds, FS_Subset
<1> QED
  BY <1>1, <1>2, FS_Singleton

LEMMA ProgressDone == TypeOK /\ (open => Progress) => EveryKeyExported
<1> SUFFICES ASSUME TypeOK, Progress, pc = "done", NEW d \in DBs, NEW i \in DOMAIN KeysByDb[d],
                    NEW k, k = KeysByDb[d][i], Cardinality(seen[d][k]) = 1
             PROVE  /\ seen[d][k] \notin {{"module"}, {"none"}} =>
                          Exported("key_memory_usage_bytes", d, k)
                    /\ seen[d][k] # {"module"} => Exported("key_size", d, k)
  BY DEF EveryKeyExported
<1>1. k \in Keys
  BY ListDomain
<1>2. PICK kind \in Kinds : seen[d][k] = {kind}
  BY <1>1, OneKind
<1>3. MemoryShown(d, i) /\ SizeShown(d, i)
  BY DEF Progress, Visited, Shown, Busy, Listed
<1> QED
  BY <1>2, <1>3 DEF MemoryShown, SizeShown, Steady

(* When SELECT, TYPE and MEMORY USAGE answer no error and the connection    *)
(* holds, the two batches of extractCheckKeyMetricsPipelined lose nothing:  *)
(* every key of the list that no client wrote has its memory and its size   *)
(* exported at the end of the scrape, whatever became of the other keys.    *)
THEOREM PipelineExportsAll ==
  ASSUME NoErrors
  PROVE  Spec => []EveryKeyExported
<1>1. Init => (open => Progress)
  BY ProgressInit
<1>2. TypeOK /\ CountsAligned /\ Aligned /\ Grounded /\ (open => Progress) /\ [Next]_vars
        => (open => Progress)'
  BY NoErrors, ProgressStep
<1>3. Spec => [](TypeOK /\ CountsAligned /\ Aligned /\ Grounded)
  BY NoErrors, GroundedAlways
<1>4. TypeOK /\ (open => Progress) => EveryKeyExported
  BY ProgressDone
<1> QED
  BY <1>1, <1>2, <1>3, <1>4, PTL DEF Spec
=============================================================================
