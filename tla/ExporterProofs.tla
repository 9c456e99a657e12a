---------------------------- MODULE ExporterProofs ----------------------------
(***************************************************************************)
(* Proofs about Exporter, for any requests, password files, failovers,      *)
(* failures of commands and settings of the options, and about Process:     *)
(* whatever the life of the process, its handlers behave as Exporter says,  *)
(* so every theorem about Exporter is one about the running program; it     *)
(* ends by itself with nothing left to do; and a renewed key pair is in     *)
(* force.                                                                   *)
(***************************************************************************)
EXTENDS Process, TLAPS

Sample == [metric : MetricNames, label : Roles \cup {NoRole}]

(* The objects of the requests.                                             *)
LEMMA ObjectType ==
  /\ Main \in Objects /\ Main \notin Scrapes
  /\ \A r \in Requests : object(r) \in Objects
  /\ \A r \in Requests \ Scrapes : object(r) = Main
  /\ \A r \in Scrapes : object(r) = r
BY ExporterAssumption DEF Objects, object, Requests

(* The maps there are, and what is neither a map nor a request.             *)
LEMMA VersionType ==
  /\ 0 \in Versions /\ 1 \in Versions /\ 1 \in Files /\ Files \subseteq Versions
  /\ Nothing \notin Versions /\ Nothing \notin Requests
BY ExporterAssumption DEF Versions, Files

(* What is sent to a metrics channel is a set of samples.                   *)
LEMMA EmitType ==
  ASSUME TypeOK, NEW r \in Requests, NEW ms \in SUBSET MetricNames, Emit(r, ms)
  PROVE  samples' \in [Requests -> SUBSET Sample]
<1>1. \A m \in ms : Sampled(r, m) \in Sample
  BY ObjectType DEF TypeOK, Sampled, Sample
<1>2. {Sampled(r, m) : m \in ms} \in SUBSET Sample
  BY <1>1
<1> QED
  BY <1>2 DEF TypeOK, Emit, Sample

(* The map a password is looked up in is one.                               *)
LEMMA ConnectedType ==
  ASSUME TypeOK, NEW r \in Requests, NEW c \in {"main", "key"}, Connected(r, c),
         passwordMap[object(r)] # Nothing
  PROVE  /\ conns' \in [Requests -> SUBSET {"main", "key"}]
         /\ used' \in [Requests -> SUBSET Versions]
<1>1. passwordMap[object(r)] \in Versions
  BY ObjectType DEF TypeOK
<1> QED
  BY <1>1 DEF TypeOK, Connected

-----------------------------------------------------------------------------
(* Each variable keeps its type.                                            *)
LEMMA InitTypeOK == Init => TypeOK
<1> SUFFICES ASSUME Init PROVE TypeOK
  OBVIOUS
<1>1. /\ file \in Files /\ role \in Roles /\ failovers \in 0 .. MaxFailovers /\ addressed \in BOOLEAN
      /\ lock \in [Objects -> Requests \cup {Nothing}]
  BY VersionType, ExporterAssumption DEF Init, Begin
<1>2. passwordMap \in [Objects -> Versions \cup {Nothing}] /\ passwordMap[Main] # Nothing
  BY VersionType, ObjectType DEF Init, Begin
<1>3. /\ instanceRole \in [Objects -> Roles \cup {NoRole}]
      /\ totalScrapes \in [Objects -> Nat] /\ targetErrors \in Nat
      /\ pc \in [Requests -> PCs] /\ told \in [Requests -> Roles \cup {NoRole}]
      /\ failed \in [Requests -> BOOLEAN] /\ loaded \in [Reloads -> Files \cup {Nothing}]
  BY DEF Init, Begin, PCs
<1>4. /\ conns \in [Requests -> SUBSET {"main", "key"}] /\ used \in [Requests -> SUBSET Versions]
      /\ samples \in [Requests -> SUBSET [metric : MetricNames, label : Roles \cup {NoRole}]]
      /\ overlapped \subseteq Reloads
  BY DEF Init, Begin
<1>5. \A r \in Requests : /\ pc[r] = "store" <=> (r \in Reloads /\ pc[r] \notin {"start", "ok", "error"})
                          /\ pc[r] \in InCollect \cup {"lock"} => r \in Metrics \cup Scrapes
                          /\ pc[r] = "nodes" => r \in Discovers
  BY DEF Init, Begin, InCollect
<1> QED
  BY <1>1, <1>2, <1>3, <1>4, <1>5 DEF TypeOK

(* Where a request may go next depends on its endpoint.                     *)
PcOK ==
  /\ pc \in [Requests -> PCs]
  /\ \A r \in Requests : /\ pc[r] = "store" <=> (r \in Reloads /\ pc[r] \notin {"start", "ok", "error"})
                         /\ pc[r] \in InCollect \cup {"lock"} => r \in Metrics \cup Scrapes
                         /\ pc[r] = "nodes" => r \in Discovers

(* A request that goes where its endpoint may go stays on its path.         *)
LEMMA GotoType ==
  ASSUME PcOK, NEW r \in Requests, NEW label \in PCs, Goto(r, label),
         label = "store" <=> (r \in Reloads /\ label \notin {"start", "ok", "error"}),
         label \in InCollect \cup {"lock"} => r \in Metrics \cup Scrapes,
         label = "nodes" => r \in Discovers
  PROVE  PcOK'
BY DEF PcOK, Goto

(* A request goes on within Collect only if it is a scrape, so is no reload. *)
LEMMA CollectPc ==
  ASSUME PcOK, NEW r \in Requests, pc[r] \in InCollect \cup {"lock"}
  PROVE  r \in Metrics \cup Scrapes /\ r \notin Reloads
BY ExporterAssumption DEF PcOK

(* Every action goes where the endpoint of its request may go.              *)
LEMMA StepPcOK == ASSUME PcOK, [Next]_vars PROVE PcOK'
<1>1. CASE UNCHANGED vars \/ EditFile \/ Failover
  BY <1>1 DEF PcOK, vars, EditFile, Failover
<1>2. ASSUME NEW r \in Requests, Handle(r) \/ Unauthorized(r) PROVE PcOK'
  <2>1. CASE Unauthorized(r)
    BY <2>1, GotoType DEF Unauthorized, PCs, InCollect
  <2>2. CASE ServeMetrics(r)
    BY <2>2, GotoType, ExporterAssumption DEF ServeMetrics, PCs
  <2>3. CASE RefuseTarget(r)
    BY <2>3, GotoType DEF RefuseTarget, PCs
  <2>4. CASE CopyOptions(r)
    BY <2>4, GotoType, ExporterAssumption DEF CopyOptions, PCs
  <2>5. CASE Lock(r)
    BY <2>5, GotoType, CollectPc DEF Lock, PCs
  <2>6. CASE Connect(r)
    BY <2>6, GotoType, CollectPc DEF Connect, Fail, PCs, InCollect
  <2>7. CASE Info(r)
    BY <2>7, GotoType, CollectPc DEF Info, Fail, PCs, InCollect
  <2>8. CASE Config(r)
    BY <2>8, GotoType, CollectPc DEF Config, Fail, PCs, InCollect
  <2>9. CASE ExtractInfo(r)
    BY <2>9, GotoType, CollectPc DEF ExtractInfo, PCs, InCollect
  <2>10. CASE KeyConn(r)
    BY <2>10, GotoType, CollectPc DEF KeyConn, PCs, InCollect
  <2>11. CASE CheckKeys(r)
    BY <2>11, GotoType, CollectPc DEF CheckKeys, PCs, InCollect
  <2>12. CASE Rest(r)
    BY <2>12, GotoType, CollectPc DEF Rest, PCs, InCollect
  <2>13. CASE Script(r)
    BY <2>13, GotoType, CollectPc DEF Script, Fail, PCs, InCollect
  <2>14. CASE Return(r)
    BY <2>14, GotoType, CollectPc DEF Return, PCs, InCollect
  <2>15. CASE Unlock(r)
    BY <2>15, GotoType DEF Unlock, PCs, InCollect
  <2>16. CASE LoadPwdFile(r)
    BY <2>16, GotoType DEF LoadPwdFile, RefuseMap, PCs, InCollect
  <2>17. CASE StoreMap(r)
    BY <2>17, GotoType DEF StoreMap, PCs, InCollect
  <2>18. CASE Discover(r)
    BY <2>18, GotoType, ExporterAssumption DEF Discover, PCs, InCollect
  <2>19. CASE Nodes(r)
    BY <2>19, GotoType DEF Nodes, PCs, InCollect
  <2> QED
    BY <1>2, <2>1, <2>2, <2>3, <2>4, <2>5, <2>6, <2>7, <2>8, <2>9, <2>10, <2>11,
       <2>12, <2>13, <2>14, <2>15, <2>16, <2>17, <2>18, <2>19 DEF Handle, Collect
<1> QED
  BY <1>1, <1>2 DEF Next, Done

-----------------------------------------------------------------------------
(* Mutual exclusion: a request in Collect holds its object's mutex.         *)
LEMMA InitExclusion == Init => Exclusion
BY DEF Init, Begin, Exclusion, InCollect

(* Only who holds the mutex releases it, and it is taken when it is free.   *)
LEMMA StepExclusion ==
  ASSUME TypeOK, Exclusion, [Next]_vars
  PROVE  Exclusion'
<1>1. CASE UNCHANGED vars \/ EditFile \/ Failover
  BY <1>1 DEF Exclusion, vars, shared, EditFile, Failover
<1>2. ASSUME NEW r \in Requests, Handle(r) \/ Unauthorized(r)
      PROVE  Exclusion'
  <2>1. CASE Unauthorized(r)
    BY <2>1 DEF Unauthorized, Goto, Exclusion, InCollect, shared
  <2>2. CASE ServeMetrics(r)
    BY <2>2 DEF ServeMetrics, Goto, Exclusion, InCollect, shared
  <2>3. CASE RefuseTarget(r)
    BY <2>3 DEF RefuseTarget, Goto, Exclusion, InCollect
  <2>4. CASE CopyOptions(r)
    BY <2>4 DEF CopyOptions, Goto, Exclusion, InCollect
  <2>5. CASE Lock(r)
    BY <2>5, ExporterAssumption DEF Lock, Goto, Unlocked, TypeOK, Exclusion, object,
       Objects
  <2>6. CASE Connect(r)
    BY <2>6 DEF Connect, Goto, Fail, TypeOK, Exclusion, InCollect, shared
  <2>7. CASE Info(r)
    BY <2>7 DEF Info, Goto, Fail, TypeOK, Exclusion, InCollect
  <2>8. CASE Config(r)
    BY <2>8 DEF Config, Goto, Fail, TypeOK, Exclusion, InCollect, shared
  <2>9. CASE ExtractInfo(r)
    BY <2>9 DEF ExtractInfo, Goto, Exclusion, InCollect, shared
  <2>10. CASE KeyConn(r)
    BY <2>10 DEF KeyConn, Goto, Exclusion, InCollect, shared
  <2>11. CASE CheckKeys(r)
    BY <2>11 DEF CheckKeys, Goto, Exclusion, InCollect, shared
  <2>12. CASE Rest(r)
    BY <2>12 DEF Rest, Goto, Exclusion, InCollect, shared
  <2>13. CASE Script(r)
    BY <2>13 DEF Script, Goto, Fail, TypeOK, Exclusion, InCollect, shared
  <2>14. CASE Return(r)
    BY <2>14 DEF Return, Goto, Exclusion, InCollect, shared
  <2>15. CASE Unlock(r)
    BY <2>15 DEF Unlock, Goto, Release, TypeOK, Exclusion, InCollect
  <2>16. CASE LoadPwdFile(r)
    BY <2>16 DEF LoadPwdFile, Goto, RefuseMap, TypeOK, Exclusion, InCollect, shared
  <2>17. CASE StoreMap(r)
    BY <2>17 DEF StoreMap, Goto, Exclusion, InCollect
  <2>18. CASE Discover(r)
    BY <2>18 DEF Discover, Goto, TypeOK, Exclusion, InCollect, shared
  <2>19. CASE Nodes(r)
    BY <2>19 DEF Nodes, Goto, TypeOK, Exclusion, InCollect, shared
  <2> QED
    BY <1>2, <2>1, <2>2, <2>3, <2>4, <2>5, <2>6, <2>7, <2>8, <2>9, <2>10, <2>11,
       <2>12, <2>13, <2>14, <2>15, <2>16, <2>17, <2>18, <2>19 DEF Handle, Collect
<1> QED
  BY <1>1, <1>2 DEF Next, Done

-----------------------------------------------------------------------------
(* A /scrape looks its passwords up in a map it has copied.                 *)
LEMMA InitMapBuilt == Init => MapBuilt
BY ObjectType DEF Init, Begin, MapBuilt, InCollect, Requests

(* CopyOptions copies the map of Main, which is there from the beginning.   *)
LEMMA StepMapBuilt ==
  ASSUME TypeOK, MapBuilt, [Next]_vars
  PROVE  MapBuilt'
<1>1. CASE UNCHANGED vars \/ EditFile \/ Failover
  BY <1>1 DEF MapBuilt, vars, shared, EditFile, Failover
<1>2. ASSUME NEW r \in Requests, Handle(r) \/ Unauthorized(r)
      PROVE  MapBuilt'
  <2>1. CASE Unauthorized(r)
    BY <2>1 DEF Unauthorized, Goto, MapBuilt, InCollect, shared
  <2>2. CASE ServeMetrics(r)
    BY <2>2, ExporterAssumption DEF ServeMetrics, Goto, MapBuilt, shared
  <2>3. CASE RefuseTarget(r)
    BY <2>3 DEF RefuseTarget, Goto, MapBuilt, InCollect
  <2>4. CASE CopyOptions(r)
    BY <2>4 DEF CopyOptions, Goto, TypeOK, MapBuilt, Objects
  <2>5. CASE Lock(r)
    BY <2>5 DEF Lock, Goto, MapBuilt
  <2>6. CASE Connect(r)
    BY <2>6 DEF Connect, Goto, Fail, TypeOK, MapBuilt, InCollect, shared, Requests
  <2>7. CASE Info(r)
    BY <2>7 DEF Info, Goto, Fail, TypeOK, MapBuilt, InCollect, Requests
  <2>8. CASE Config(r)
    BY <2>8 DEF Config, Goto, Fail, TypeOK, MapBuilt, InCollect, shared, Requests
  <2>9. CASE ExtractInfo(r)
    BY <2>9 DEF ExtractInfo, Goto, MapBuilt, InCollect, shared
  <2>10. CASE KeyConn(r)
    BY <2>10 DEF KeyConn, Goto, MapBuilt, InCollect, shared
  <2>11. CASE CheckKeys(r)
    BY <2>11 DEF CheckKeys, Goto, MapBuilt, InCollect, shared
  <2>12. CASE Rest(r)
    BY <2>12 DEF Rest, Goto, MapBuilt, InCollect, shared
  <2>13. CASE Script(r)
    BY <2>13 DEF Script, Goto, Fail, TypeOK, MapBuilt, InCollect, shared, Requests
  <2>14. CASE Return(r)
    BY <2>14 DEF Return, Goto, MapBuilt, InCollect, shared
  <2>15. CASE Unlock(r)
    BY <2>15 DEF Unlock, Goto, MapBuilt, InCollect
  <2>16. CASE LoadPwdFile(r)
    BY <2>16 DEF LoadPwdFile, Goto, RefuseMap, TypeOK, MapBuilt, InCollect, shared,
       Requests
  <2>17. CASE StoreMap(r)
    BY <2>17, ExporterAssumption DEF StoreMap, Goto, MapBuilt, InCollect, Requests
  <2>18. CASE Discover(r)
    BY <2>18 DEF Discover, Goto, TypeOK, MapBuilt, InCollect, shared, Requests
  <2>19. CASE Nodes(r)
    BY <2>19 DEF Nodes, Goto, TypeOK, MapBuilt, InCollect, shared, Requests
  <2> QED
    BY <1>2, <2>1, <2>2, <2>3, <2>4, <2>5, <2>6, <2>7, <2>8, <2>9, <2>10, <2>11,
       <2>12, <2>13, <2>14, <2>15, <2>16, <2>17, <2>18, <2>19 DEF Handle, Collect
<1> QED
  BY <1>1, <1>2 DEF Next, Done

-----------------------------------------------------------------------------
(* Connections are closed wherever a request ends.                          *)
LEMMA InitClosed == Init => Closed
BY DEF Init, Begin, Closed

(* Every path out of Collect goes through Return.                           *)
LEMMA StepClosed ==
  ASSUME TypeOK, Closed, [Next]_vars
  PROVE  Closed'
<1>1. CASE UNCHANGED vars \/ EditFile \/ Failover
  BY <1>1 DEF Closed, vars, scrape, EditFile, Failover
<1>2. ASSUME NEW r \in Requests, Handle(r) \/ Unauthorized(r)
      PROVE  Closed'
  <2>1. CASE Unauthorized(r)
    BY <2>1 DEF Unauthorized, Goto, Closed, scrape
  <2>2. CASE ServeMetrics(r)
    BY <2>2 DEF ServeMetrics, Goto, Closed, scrape
  <2>3. CASE RefuseTarget(r)
    BY <2>3 DEF RefuseTarget, Goto, Closed, scrape
  <2>4. CASE CopyOptions(r)
    BY <2>4 DEF CopyOptions, Goto, Closed, scrape
  <2>5. CASE Lock(r)
    BY <2>5 DEF Lock, Goto, Closed, scrape
  <2>6. CASE Connect(r)
    BY <2>6 DEF Connect, Goto, Fail, Connected, TypeOK, Closed
  <2>7. CASE Info(r)
    BY <2>7 DEF Info, Goto, Fail, TypeOK, Closed
  <2>8. CASE Config(r)
    BY <2>8 DEF Config, Goto, Fail, TypeOK, Closed
  <2>9. CASE ExtractInfo(r)
    BY <2>9 DEF ExtractInfo, Goto, Closed
  <2>10. CASE KeyConn(r)
    BY <2>10 DEF KeyConn, Goto, Connected, TypeOK, Closed
  <2>11. CASE CheckKeys(r)
    BY <2>11 DEF CheckKeys, Goto, Closed
  <2>12. CASE Rest(r)
    BY <2>12 DEF Rest, Goto, Closed
  <2>13. CASE Script(r)
    BY <2>13 DEF Script, Goto, Fail, TypeOK, Closed
  <2>14. CASE Return(r)
    BY <2>14 DEF Return, Goto, Close, TypeOK, Closed
  <2>15. CASE Unlock(r)
    BY <2>15 DEF Unlock, Goto, Closed, scrape
  <2>16. CASE LoadPwdFile(r)
    BY <2>16 DEF LoadPwdFile, Goto, RefuseMap, TypeOK, Closed, scrape
  <2>17. CASE StoreMap(r)
    BY <2>17 DEF StoreMap, Goto, Closed, scrape
  <2>18. CASE Discover(r)
    BY <2>18 DEF Discover, Goto, Connected, TypeOK, Closed
  <2>19. CASE Nodes(r)
    BY <2>19 DEF Nodes, Goto, Close, TypeOK, Closed
  <2> QED
    BY <1>2, <2>1, <2>2, <2>3, <2>4, <2>5, <2>6, <2>7, <2>8, <2>9, <2>10, <2>11,
       <2>12, <2>13, <2>14, <2>15, <2>16, <2>17, <2>18, <2>19 DEF Handle, Collect
<1> QED
  BY <1>1, <1>2 DEF Next, Done

-----------------------------------------------------------------------------
(* Reloads that do not overlap store in the order they read.                *)
LEMMA InitReloadsInOrder == Init => ReloadsInOrder /\ ReloadHolds
BY DEF Init, Begin, ReloadsInOrder, ReloadHolds, Requests

(* A reload that read before another one read and stored has overlapped it. *)
LEMMA StepReloadsInOrder ==
  ASSUME TypeOK, ReloadsInOrder, ReloadHolds, [Next]_vars
  PROVE  (ReloadsInOrder /\ ReloadHolds)'
<1>1. CASE UNCHANGED vars \/ EditFile \/ Failover
  BY <1>1 DEF ReloadsInOrder, ReloadHolds, TypeOK, Files, vars, world, shared,
     reload, EditFile, Failover
<1>2. ASSUME NEW r \in Requests, Handle(r) \/ Unauthorized(r)
      PROVE  (ReloadsInOrder /\ ReloadHolds)'
  <2>1. CASE Unauthorized(r)
    BY <2>1 DEF Unauthorized, Goto, ReloadsInOrder, ReloadHolds, world, shared,
       reload
  <2>2. CASE ServeMetrics(r)
    BY <2>2 DEF ServeMetrics, Goto, ReloadsInOrder, ReloadHolds, world, shared,
       reload
  <2>3. CASE RefuseTarget(r)
    BY <2>3 DEF RefuseTarget, Goto, ReloadsInOrder, ReloadHolds, world, reload
  <2>4. CASE CopyOptions(r)
    BY <2>4 DEF CopyOptions, Goto, ReloadsInOrder, ReloadHolds, world, reload
  <2>5. CASE Lock(r)
    BY <2>5 DEF Lock, Goto, ReloadsInOrder, ReloadHolds, world, reload
  <2>6. CASE Connect(r)
    BY <2>6 DEF Connect, Goto, Fail, TypeOK, ReloadsInOrder, ReloadHolds, world,
       shared, reload, Requests
  <2>7. CASE Info(r)
    BY <2>7 DEF Info, Goto, Fail, TypeOK, ReloadsInOrder, ReloadHolds, world,
       reload, Requests
  <2>8. CASE Config(r)
    BY <2>8 DEF Config, Goto, Fail, TypeOK, ReloadsInOrder, ReloadHolds, world,
       shared, reload, Requests
  <2>9. CASE ExtractInfo(r)
    BY <2>9 DEF ExtractInfo, Goto, ReloadsInOrder, ReloadHolds, world, shared,
       reload
  <2>10. CASE KeyConn(r)
    BY <2>10 DEF KeyConn, Goto, ReloadsInOrder, ReloadHolds, world, shared, reload
  <2>11. CASE CheckKeys(r)
    BY <2>11 DEF CheckKeys, Goto, ReloadsInOrder, ReloadHolds, world, shared, reload
  <2>12. CASE Rest(r)
    BY <2>12 DEF Rest, Goto, ReloadsInOrder, ReloadHolds, world, shared, reload
  <2>13. CASE Script(r)
    BY <2>13 DEF Script, Goto, Fail, TypeOK, ReloadsInOrder, ReloadHolds, world,
       shared, reload, Requests
  <2>14. CASE Return(r)
    BY <2>14 DEF Return, Goto, ReloadsInOrder, ReloadHolds, world, shared, reload
  <2>15. CASE Unlock(r)
    BY <2>15 DEF Unlock, Goto, TypeOK, ReloadsInOrder, ReloadHolds, world, reload
  <2>16. CASE LoadPwdFile(r)
    BY <2>16 DEF LoadPwdFile, Goto, RefuseMap, TypeOK, ReloadsInOrder, ReloadHolds,
       world, shared, Requests, Files
  <2>17. CASE StoreMap(r)
    BY <2>17 DEF StoreMap, Goto, TypeOK, ReloadsInOrder, ReloadHolds, world, reload,
       Objects
  <2>18. CASE Discover(r)
    BY <2>18 DEF Discover, Goto, TypeOK, ReloadsInOrder, ReloadHolds, world, shared,
       reload, Requests
  <2>19. CASE Nodes(r)
    BY <2>19 DEF Nodes, Goto, TypeOK, ReloadsInOrder, ReloadHolds, world, shared,
       reload, Requests
  <2> QED
    BY <1>2, <2>1, <2>2, <2>3, <2>4, <2>5, <2>6, <2>7, <2>8, <2>9, <2>10, <2>11,
       <2>12, <2>13, <2>14, <2>15, <2>16, <2>17, <2>18, <2>19 DEF Handle, Collect
<1> QED
  BY <1>1, <1>2 DEF Next, Done

-----------------------------------------------------------------------------
(* The other variables keep their types.                                    *)
LEMMA PcOfTypeOK == TypeOK => PcOK
BY DEF TypeOK, PcOK

DataOK ==
  /\ file \in Files /\ role \in Roles /\ failovers \in 0 .. MaxFailovers /\ addressed \in BOOLEAN
  /\ lock \in [Objects -> Requests \cup {Nothing}]
  /\ passwordMap \in [Objects -> Versions \cup {Nothing}]
  /\ passwordMap[Main] # Nothing
  /\ instanceRole \in [Objects -> Roles \cup {NoRole}]
  /\ totalScrapes \in [Objects -> Nat]
  /\ targetErrors \in Nat
  /\ told \in [Requests -> Roles \cup {NoRole}]
  /\ failed \in [Requests -> BOOLEAN]
  /\ loaded \in [Reloads -> Files \cup {Nothing}]
  /\ overlapped \subseteq Reloads

SamplesOK == /\ conns \in [Requests -> SUBSET {"main", "key"}]
             /\ used \in [Requests -> SUBSET Versions]
             /\ samples \in [Requests -> SUBSET Sample]

(* The type invariant in the parts its proof takes one by one.              *)
LEMMA TypeOKParts == TypeOK <=> PcOK /\ DataOK /\ SamplesOK
BY DEF TypeOK, PcOK, DataOK, SamplesOK, Sample

(* Only a map that a reload has read, which is not Nothing, is stored.      *)
LEMMA StepDataOK ==
  ASSUME TypeOK, ReloadsInOrder, [Next]_vars
  PROVE  DataOK'
<1>1. CASE UNCHANGED vars \/ EditFile \/ Failover
  BY <1>1, TypeOKParts, ExporterAssumption DEF DataOK, Files, vars, world, shared,
     scrape, reload, EditFile, Failover
<1>2. ASSUME NEW r \in Requests, Handle(r) \/ Unauthorized(r)
      PROVE  DataOK'
  <2>1. CASE Unauthorized(r)
    BY <2>1, TypeOKParts DEF Unauthorized, DataOK, world, shared, scrape, reload
  <2>2. CASE ServeMetrics(r)
    BY <2>2, TypeOKParts DEF ServeMetrics, DataOK, world, shared, scrape, reload
  <2>3. CASE RefuseTarget(r)
    BY <2>3, TypeOKParts DEF RefuseTarget, DataOK, world, scrape, reload
  <2>4. CASE CopyOptions(r)
    BY <2>4, TypeOKParts, ObjectType DEF CopyOptions, DataOK, world, scrape, reload
  <2>5. CASE Lock(r)
    BY <2>5, TypeOKParts, ObjectType DEF Lock, DataOK, world, scrape, reload
  <2>6. CASE Connect(r)
    BY <2>6, TypeOKParts DEF Connect, Fail, DataOK, world, shared, reload
  <2>7. CASE Info(r)
    <3>1. instanceRole' \in [Objects -> Roles \cup {NoRole}] /\ told' \in [Requests -> Roles \cup {NoRole}]
      BY <2>7, TypeOKParts DEF Info, DataOK
    <3>2. failed' \in [Requests -> BOOLEAN]
      BY <2>7, TypeOKParts DEF Info, Fail, DataOK
    <3> QED
      BY <2>7, <3>1, <3>2, TypeOKParts DEF Info, DataOK, world, reload
  <2>8. CASE Config(r)
    BY <2>8, TypeOKParts DEF Config, Fail, DataOK, world, shared, reload
  <2>9. CASE ExtractInfo(r)
    BY <2>9, TypeOKParts DEF ExtractInfo, DataOK, world, shared, reload
  <2>10. CASE KeyConn(r)
    BY <2>10, TypeOKParts DEF KeyConn, DataOK, world, shared, reload
  <2>11. CASE CheckKeys(r)
    BY <2>11, TypeOKParts DEF CheckKeys, DataOK, world, shared, reload
  <2>12. CASE Rest(r)
    BY <2>12, TypeOKParts DEF Rest, DataOK, world, shared, reload
  <2>13. CASE Script(r)
    BY <2>13, TypeOKParts DEF Script, Fail, DataOK, world, shared, reload
  <2>14. CASE Return(r)
    BY <2>14, TypeOKParts DEF Return, DataOK, world, shared, reload
  <2>15. CASE Unlock(r)
    BY <2>15, TypeOKParts DEF Unlock, Release, DataOK, world, scrape, reload
  <2>16. CASE LoadPwdFile(r)
    BY <2>16, TypeOKParts DEF LoadPwdFile, RefuseMap, DataOK, world, shared, scrape
  <2>17. CASE StoreMap(r)
    <3>1. r \in Reloads /\ loaded[r] \in 1 .. file
      BY <2>17, TypeOKParts DEF StoreMap, PcOK, ReloadsInOrder
    <3>2. loaded[r] \in Files
      BY <3>1, TypeOKParts, ExporterAssumption DEF DataOK, Files
    <3> QED
      BY <2>17, <3>2, TypeOKParts, ObjectType, VersionType DEF StoreMap, DataOK,
         world, scrape, reload
  <2>18. CASE Discover(r)
    BY <2>18, TypeOKParts DEF Discover, DataOK, world, shared, reload
  <2>19. CASE Nodes(r)
    BY <2>19, TypeOKParts DEF Nodes, DataOK, world, shared, reload
  <2> QED
    BY <1>2, <2>1, <2>2, <2>3, <2>4, <2>5, <2>6, <2>7, <2>8, <2>9, <2>10, <2>11,
       <2>12, <2>13, <2>14, <2>15, <2>16, <2>17, <2>18, <2>19 DEF Handle, Collect
<1> QED
  BY <1>1, <1>2 DEF Next, Done

(* A password is looked up in a map that is there.                          *)
LEMMA StepSamplesOK ==
  ASSUME TypeOK, MapBuilt, [Next]_vars
  PROVE  SamplesOK'
<1>1. CASE UNCHANGED vars \/ EditFile \/ Failover
  BY <1>1, TypeOKParts DEF SamplesOK, vars, scrape, EditFile, Failover
<1>2. ASSUME NEW r \in Requests, Handle(r) \/ Unauthorized(r)
      PROVE  SamplesOK'
  <2>1. CASE Unauthorized(r)
    BY <2>1, TypeOKParts DEF Unauthorized, SamplesOK, scrape
  <2>2. CASE ServeMetrics(r)
    BY <2>2, TypeOKParts DEF ServeMetrics, SamplesOK, scrape
  <2>3. CASE RefuseTarget(r)
    BY <2>3, TypeOKParts DEF RefuseTarget, SamplesOK, scrape
  <2>4. CASE CopyOptions(r)
    BY <2>4, TypeOKParts DEF CopyOptions, SamplesOK, scrape
  <2>5. CASE Lock(r)
    BY <2>5, TypeOKParts DEF Lock, SamplesOK, scrape
  <2>6. CASE Connect(r)
    BY <2>6, TypeOKParts, ObjectType, EmitType, ConnectedType DEF Connect,
       SamplesOK, MetricNames, MapBuilt, DataOK, InCollect
  <2>7. CASE Info(r)
    BY <2>7, TypeOKParts DEF Info, SamplesOK
  <2>8. CASE Config(r)
    BY <2>8, TypeOKParts, EmitType DEF Config, SamplesOK, MetricNames
  <2>9. CASE ExtractInfo(r)
    BY <2>9, TypeOKParts, EmitType DEF ExtractInfo, SamplesOK, MetricNames
  <2>10. CASE KeyConn(r)
    BY <2>10, TypeOKParts, ObjectType, ConnectedType DEF KeyConn, SamplesOK,
       MapBuilt, DataOK, InCollect
  <2>11. CASE CheckKeys(r)
    BY <2>11, TypeOKParts, EmitType DEF CheckKeys, SamplesOK, MetricNames
  <2>12. CASE Rest(r)
    BY <2>12, TypeOKParts, EmitType DEF Rest, SamplesOK, MetricNames
  <2>13. CASE Script(r)
    BY <2>13, TypeOKParts, EmitType DEF Script, SamplesOK, MetricNames
  <2>14. CASE Return(r)
    BY <2>14, TypeOKParts, EmitType DEF Return, SamplesOK, MetricNames, Close
  <2>15. CASE Unlock(r)
    BY <2>15, TypeOKParts DEF Unlock, SamplesOK, scrape
  <2>16. CASE LoadPwdFile(r)
    BY <2>16, TypeOKParts DEF LoadPwdFile, SamplesOK, scrape
  <2>17. CASE StoreMap(r)
    BY <2>17, TypeOKParts DEF StoreMap, SamplesOK, scrape
  <2>18. CASE Discover(r)
    BY <2>18, TypeOKParts, ObjectType, ConnectedType, ExporterAssumption DEF
       Discover, SamplesOK, DataOK
  <2>19. CASE Nodes(r)
    BY <2>19, TypeOKParts DEF Nodes, SamplesOK, Close
  <2> QED
    BY <1>2, <2>1, <2>2, <2>3, <2>4, <2>5, <2>6, <2>7, <2>8, <2>9, <2>10, <2>11,
       <2>12, <2>13, <2>14, <2>15, <2>16, <2>17, <2>18, <2>19 DEF Handle, Collect
<1> QED
  BY <1>1, <1>2 DEF Next, Done

-----------------------------------------------------------------------------
(* Nothing a scrape reads twice changes while it is in Collect.             *)
LEMMA InitOneMap == Init => OneMap
BY DEF Init, Begin, OneMap, Requests

(* StoreMap waits until no scrape of Main is in Collect.                    *)
LEMMA StepOneMap ==
  ASSUME TypeOK, Exclusion, OneMap, [Next]_vars
  PROVE  OneMap'
<1>1. CASE UNCHANGED vars \/ EditFile \/ Failover
  BY <1>1 DEF OneMap, vars, shared, scrape, EditFile, Failover
<1>2. ASSUME NEW r \in Requests, Handle(r) \/ Unauthorized(r)
      PROVE  OneMap'
  <2>1. CASE Unauthorized(r)
    BY <2>1 DEF Unauthorized, Goto, OneMap, shared, scrape
  <2>2. CASE ServeMetrics(r)
    BY <2>2 DEF ServeMetrics, Goto, OneMap, shared, scrape
  <2>3. CASE RefuseTarget(r)
    BY <2>3 DEF RefuseTarget, Goto, OneMap, scrape
  <2>4. CASE CopyOptions(r)
    BY <2>4, ObjectType DEF CopyOptions, Goto, OneMap, scrape, Requests
  <2>5. CASE Lock(r)
    BY <2>5 DEF Lock, Goto, OneMap, scrape
  <2>6. CASE Connect(r)
    BY <2>6 DEF Connect, Goto, Fail, Connected, TypeOK, OneMap, InCollect, shared,
       Requests
  <2>7. CASE Info(r)
    BY <2>7 DEF Info, Goto, Fail, TypeOK, OneMap, InCollect, Requests
  <2>8. CASE Config(r)
    BY <2>8 DEF Config, Goto, Fail, TypeOK, OneMap, InCollect, shared, Requests
  <2>9. CASE ExtractInfo(r)
    BY <2>9 DEF ExtractInfo, Goto, OneMap, InCollect, shared
  <2>10. CASE KeyConn(r)
    BY <2>10 DEF KeyConn, Goto, Connected, TypeOK, OneMap, InCollect, shared,
       Requests
  <2>11. CASE CheckKeys(r)
    BY <2>11 DEF CheckKeys, Goto, OneMap, InCollect, shared
  <2>12. CASE Rest(r)
    BY <2>12 DEF Rest, Goto, OneMap, InCollect, shared
  <2>13. CASE Script(r)
    BY <2>13 DEF Script, Goto, Fail, TypeOK, OneMap, InCollect, shared, Requests
  <2>14. CASE Return(r)
    BY <2>14 DEF Return, Goto, OneMap, InCollect, shared
  <2>15. CASE Unlock(r)
    BY <2>15 DEF Unlock, Goto, OneMap, InCollect, scrape
  <2>16. CASE LoadPwdFile(r)
    BY <2>16 DEF LoadPwdFile, Goto, RefuseMap, TypeOK, OneMap, shared, scrape,
       Requests
  <2>17. CASE StoreMap(r)
    BY <2>17, ExporterAssumption DEF StoreMap, Goto, Unlocked, OneMap, Exclusion,
       InCollect, scrape, Requests
  <2>18. CASE Discover(r)
    BY <2>18 DEF Discover, Goto, Connected, TypeOK, OneMap, shared, Requests
  <2>19. CASE Nodes(r)
    BY <2>19 DEF Nodes, Goto, TypeOK, OneMap, InCollect, shared, Requests
  <2> QED
    BY <1>2, <2>1, <2>2, <2>3, <2>4, <2>5, <2>6, <2>7, <2>8, <2>9, <2>10, <2>11,
       <2>12, <2>13, <2>14, <2>15, <2>16, <2>17, <2>18, <2>19 DEF Handle, Collect
<1> QED
  BY <1>1, <1>2 DEF Next, Done

(* No request has been told a role, or has sent a sample, at first.         *)
LEMMA InitOneRole == Init => OneRole /\ RoleOfItsInfo
BY DEF Init, Begin, OneRole, RoleOfItsInfo, Requests

(* Info of another scrape waits until this one has left Collect.            *)
LEMMA StepOneRole ==
  ASSUME TypeOK, Exclusion, OneRole, RoleOfItsInfo, [Next]_vars
  PROVE  (OneRole /\ RoleOfItsInfo)'
<1>1. CASE UNCHANGED vars \/ EditFile \/ Failover
  BY <1>1 DEF OneRole, RoleOfItsInfo, Label, vars, shared, scrape, EditFile,
     Failover
<1>2. ASSUME NEW r \in Requests, Handle(r) \/ Unauthorized(r)
      PROVE  (OneRole /\ RoleOfItsInfo)'
  <2>1. CASE Unauthorized(r)
    BY <2>1 DEF Unauthorized, Goto, OneRole, RoleOfItsInfo, BeforeInfo, Label,
       shared, scrape
  <2>2. CASE ServeMetrics(r)
    BY <2>2 DEF ServeMetrics, Goto, OneRole, RoleOfItsInfo, BeforeInfo, Label,
       shared, scrape
  <2>3. CASE RefuseTarget(r)
    BY <2>3 DEF RefuseTarget, Goto, OneRole, RoleOfItsInfo, BeforeInfo, Label,
       scrape
  <2>4. CASE CopyOptions(r)
    BY <2>4 DEF CopyOptions, Goto, OneRole, RoleOfItsInfo, BeforeInfo, Label, scrape
  <2>5. CASE Lock(r)
    BY <2>5 DEF Lock, Goto, OneRole, RoleOfItsInfo, BeforeInfo, Label, scrape
  <2>6. CASE Connect(r)
    BY <2>6 DEF Connect, Goto, Fail, Emit, Sampled, TypeOK, OneRole, RoleOfItsInfo,
       BeforeInfo, Label, shared, Requests
  <2>7. CASE Info(r)
    BY <2>7, ObjectType DEF Info, Goto, Fail, TypeOK, OneRole, RoleOfItsInfo,
       BeforeInfo, Label, Exclusion, InCollect, Requests
  <2>8. CASE Config(r)
    BY <2>8 DEF Config, Goto, Fail, Emit, Sampled, TypeOK, OneRole, RoleOfItsInfo,
       BeforeInfo, Label, InCollect, shared, Requests
  <2>9. CASE ExtractInfo(r)
    BY <2>9 DEF ExtractInfo, Goto, Emit, Sampled, OneRole, RoleOfItsInfo,
       BeforeInfo, Label, InCollect, shared
  <2>10. CASE KeyConn(r)
    BY <2>10 DEF KeyConn, Goto, OneRole, RoleOfItsInfo, BeforeInfo, Label,
       InCollect, shared
  <2>11. CASE CheckKeys(r)
    BY <2>11 DEF CheckKeys, Goto, Emit, Sampled, TypeOK, OneRole, RoleOfItsInfo,
       BeforeInfo, Label, InCollect, shared, Requests
  <2>12. CASE Rest(r)
    BY <2>12 DEF Rest, Goto, Emit, Sampled, TypeOK, OneRole, RoleOfItsInfo,
       BeforeInfo, Label, InCollect, shared, Requests
  <2>13. CASE Script(r)
    BY <2>13 DEF Script, Goto, Fail, Emit, Sampled, TypeOK, OneRole, RoleOfItsInfo,
       BeforeInfo, Label, InCollect, shared, Requests
  <2>14. CASE Return(r)
    BY <2>14 DEF Return, Goto, Emit, Sampled, OneRole, RoleOfItsInfo, BeforeInfo,
       Label, InCollect, shared
  <2>15. CASE Unlock(r)
    BY <2>15 DEF Unlock, Goto, OneRole, RoleOfItsInfo, BeforeInfo, Label, InCollect,
       scrape
  <2>16. CASE LoadPwdFile(r)
    BY <2>16 DEF LoadPwdFile, Goto, RefuseMap, TypeOK, OneRole, RoleOfItsInfo,
       BeforeInfo, Label, shared, scrape, Requests
  <2>17. CASE StoreMap(r)
    BY <2>17, ExporterAssumption DEF StoreMap, Goto, TypeOK, OneRole, RoleOfItsInfo,
       Label, scrape
  <2>18. CASE Discover(r)
    BY <2>18 DEF Discover, Goto, TypeOK, OneRole, RoleOfItsInfo, BeforeInfo, Label,
       shared, Requests
  <2>19. CASE Nodes(r)
    BY <2>19, ExporterAssumption DEF Nodes, Goto, TypeOK, OneRole, RoleOfItsInfo,
       Label, shared, Requests
  <2> QED
    BY <1>2, <2>1, <2>2, <2>3, <2>4, <2>5, <2>6, <2>7, <2>8, <2>9, <2>10, <2>11,
       <2>12, <2>13, <2>14, <2>15, <2>16, <2>17, <2>18, <2>19 DEF Handle, Collect
<1> QED
  BY <1>1, <1>2 DEF Next, Done

-----------------------------------------------------------------------------
(* up says whether the scrape went well.                                    *)
LEMMA InitReported == Init => Reported /\ UpTellsInfo
BY DEF Init, Begin, Reported, UpTellsInfo, Names, Requests, InCollect, BeforeEnd, BeforeInfo

(* The names of the samples grow by those sent, for this request alone.     *)
LEMMA EmitNames ==
  ASSUME TypeOK, NEW r \in Requests, NEW ms, Emit(r, ms)
  PROVE  /\ Names(r)' = Names(r) \cup ms
         /\ \A q \in Requests \ {r} : Names(q)' = Names(q)
<1>1. samples' = [samples EXCEPT ![r] = @ \cup {Sampled(r, m) : m \in ms}]
  BY DEF Emit
<1>2. \A m \in ms : Sampled(r, m).metric = m
  BY DEF Sampled
<1>3. /\ samples'[r] = samples[r] \cup {Sampled(r, m) : m \in ms}
      /\ \A q \in Requests \ {r} : samples'[q] = samples[q]
  BY <1>1 DEF TypeOK
<1>4. {s.metric : s \in samples'[r]} = {s.metric : s \in samples[r]} \cup ms
  BY <1>2, <1>3
<1> QED
  BY <1>3, <1>4 DEF Names

(* Where no sample is sent, the names stay.                                 *)
LEMMA SameNames ==
  ASSUME UNCHANGED samples
  PROVE  \A q \in Requests : Names(q)' = Names(q)
BY DEF Names

(* The address Main was given stays the same.                               *)
LEMMA AddressStays ==
  ASSUME [Next]_vars
  PROVE  \A q \in Requests : Addressed(q)' <=> Addressed(q)
<1>1. UNCHANGED addressed
  BY DEF vars, world, Next, Done, EditFile, Failover, Handle, Collect, Unauthorized, ServeMetrics,
     RefuseTarget, CopyOptions, Lock, Connect, Info, Config, ExtractInfo, KeyConn, CheckKeys, Rest,
     Script, Return, Unlock, LoadPwdFile, StoreMap, Discover, Nodes
<1> QED
  BY <1>1 DEF Addressed, object

(* Every error that ends a scrape is raised before INFO or by a script.      *)
LEMMA StepReported ==
  ASSUME TypeOK, Reported, UpTellsInfo, [Next]_vars
  PROVE  (Reported /\ UpTellsInfo)'
<1>0. \A q \in Requests : Addressed(q)' <=> Addressed(q)
  BY AddressStays
<1>1. CASE UNCHANGED vars \/ EditFile \/ Failover
  BY <1>0, <1>1 DEF Requests, Reported, UpTellsInfo, Names, vars, scrape, EditFile, Failover
<1>2. ASSUME NEW r \in Requests, Handle(r) \/ Unauthorized(r)
      PROVE  (Reported /\ UpTellsInfo)'
  <2>1. CASE Unauthorized(r)
    BY <1>0, <2>1, SameNames DEF Unauthorized, Goto, Reported, UpTellsInfo, BeforeEnd,
       BeforeInfo, scrape, Requests, InCollect
  <2>2. CASE ServeMetrics(r)
    BY <1>0, <2>2, SameNames DEF ServeMetrics, Goto, Reported, UpTellsInfo, BeforeEnd,
       BeforeInfo, scrape, Requests, InCollect
  <2>3. CASE RefuseTarget(r)
    BY <1>0, <2>3, SameNames DEF RefuseTarget, Goto, Reported, UpTellsInfo, BeforeEnd,
       BeforeInfo, scrape, Requests, InCollect
  <2>4. CASE CopyOptions(r)
    BY <1>0, <2>4, SameNames DEF CopyOptions, Goto, Reported, UpTellsInfo, BeforeEnd,
       BeforeInfo, scrape, Requests, InCollect
  <2>5. CASE Lock(r)
    BY <1>0, <2>5, SameNames DEF Lock, Goto, Reported, UpTellsInfo, BeforeEnd, BeforeInfo,
       scrape, Requests, InCollect
  <2>6. CASE Connect(r)
    BY <1>0, <2>6, EmitNames DEF Connect, Goto, Fail, TypeOK, Reported, UpTellsInfo,
       BeforeEnd, BeforeInfo, Requests, InCollect
  <2>7. CASE Info(r)
    BY <1>0, <2>7, SameNames DEF Info, Goto, Fail, TypeOK, Reported, UpTellsInfo,
       BeforeEnd, BeforeInfo, Requests, InCollect
  <2>8. CASE Config(r)
    BY <1>0, <2>8, EmitNames, SameNames DEF Config, Goto, Fail, TypeOK, Reported,
       UpTellsInfo, BeforeEnd, BeforeInfo, Requests, InCollect
  <2>9. CASE ExtractInfo(r)
    BY <1>0, <2>9, EmitNames DEF ExtractInfo, Goto, TypeOK, Reported, UpTellsInfo,
       BeforeEnd, Requests, InCollect
  <2>10. CASE KeyConn(r)
    BY <1>0, <2>10, SameNames DEF KeyConn, Goto, Reported, UpTellsInfo, BeforeEnd,
       Requests, InCollect
  <2>11. CASE CheckKeys(r)
    BY <1>0, <2>11, EmitNames, SameNames DEF CheckKeys, Goto, Reported, UpTellsInfo,
       BeforeEnd, Requests, InCollect
  <2>12. CASE Rest(r)
    BY <1>0, <2>12, EmitNames, SameNames DEF Rest, Goto, Reported, UpTellsInfo, BeforeEnd,
       BeforeInfo, Requests, InCollect
  <2>13. CASE Script(r)
    BY <1>0, <2>13, EmitNames DEF Script, Goto, Fail, TypeOK, Reported, UpTellsInfo,
       BeforeEnd, BeforeInfo, Requests, InCollect
  <2>14. CASE Return(r)
    BY <1>0, <2>14, EmitNames DEF Return, Goto, TypeOK, Reported, UpTellsInfo, BeforeEnd,
       BeforeInfo, Requests, InCollect
  <2>15. CASE Unlock(r)
    BY <1>0, <2>15, SameNames DEF Unlock, Goto, Reported, UpTellsInfo, BeforeEnd,
       BeforeInfo, scrape, Requests, InCollect
  <2>16. CASE LoadPwdFile(r)
    BY <1>0, <2>16, SameNames DEF LoadPwdFile, Goto, RefuseMap, TypeOK, Reported,
       UpTellsInfo, BeforeEnd, BeforeInfo, scrape, Requests, InCollect
  <2>17. CASE StoreMap(r)
    BY <1>0, <2>17, SameNames, ExporterAssumption DEF StoreMap, Goto, TypeOK, Reported,
       UpTellsInfo, scrape, Requests, InCollect
  <2>18. CASE Discover(r)
    BY <1>0, <2>18, SameNames DEF Discover, Goto, TypeOK, Reported, UpTellsInfo,
       BeforeEnd, BeforeInfo, Requests, InCollect
  <2>19. CASE Nodes(r)
    BY <1>0, <2>19, SameNames, ExporterAssumption DEF Nodes, Goto, TypeOK, Reported,
       UpTellsInfo, Requests, InCollect
  <2> QED
    BY <1>2, <2>1, <2>2, <2>3, <2>4, <2>5, <2>6, <2>7, <2>8, <2>9, <2>10, <2>11,
       <2>12, <2>13, <2>14, <2>15, <2>16, <2>17, <2>18, <2>19 DEF Handle, Collect
<1> QED
  BY <1>1, <1>2 DEF Next, Done

-----------------------------------------------------------------------------
(* The inductive invariant: types, InOrder, and what follows from them only *)
(* step by step.                                                            *)
IInv == TypeOK /\ InOrder /\ RoleOfItsInfo /\ UpTellsInfo /\ ReloadHolds

(* It holds initially.                                                      *)
LEMMA InitIInv == Init => IInv
BY InitTypeOK, InitExclusion, InitMapBuilt, InitOneMap, InitOneRole, InitClosed,
   InitReported, InitReloadsInOrder DEF IInv, InOrder

(* Every step preserves it.                                                 *)
LEMMA StepIInv == IInv /\ [Next]_vars => IInv'
<1> SUFFICES ASSUME IInv, [Next]_vars PROVE IInv'
  OBVIOUS
<1>1. TypeOK'
  <2>1. PcOK'
    BY StepPcOK, PcOfTypeOK DEF IInv
  <2>2. DataOK'
    BY StepDataOK DEF IInv, InOrder
  <2>3. SamplesOK'
    BY StepSamplesOK DEF IInv, InOrder
  <2> QED
    BY <2>1, <2>2, <2>3 DEF TypeOK, PcOK, DataOK, SamplesOK, Sample
<1>2. Exclusion' /\ MapBuilt' /\ OneMap' /\ Closed'
  BY StepExclusion, StepMapBuilt, StepOneMap, StepClosed DEF IInv, InOrder
<1>3. OneRole' /\ RoleOfItsInfo'
  BY StepOneRole DEF IInv, InOrder
<1>4. Reported' /\ UpTellsInfo'
  BY StepReported DEF IInv, InOrder
<1>5. ReloadsInOrder' /\ ReloadHolds'
  BY StepReloadsInOrder DEF IInv, InOrder
<1> QED
  BY <1>1, <1>2, <1>3, <1>4, <1>5 DEF IInv, InOrder

(* The inductive invariant holds in every state.                            *)
THEOREM Invariant == Spec => []IInv
<1>1. Init => IInv
  BY InitIInv
<1>2. IInv /\ [Next]_vars => IInv'
  BY StepIInv
<1> QED
  BY <1>1, <1>2, PTL DEF Spec

(* Every variable keeps its type, and a request stays on the path of its    *)
(* endpoint.                                                                *)
THEOREM TypeCorrect == Spec => []TypeOK
<1>1. IInv => TypeOK
  BY DEF IInv
<1> QED
  BY <1>1, Invariant, PTL

(* A scrape holds the mutex of its Exporter from its first step to its last *)
(* one, and neither the password map nor the role changes under it.         *)
THEOREM InOrderCorrect == Spec => []InOrder
<1>1. IInv => InOrder
  BY DEF IInv
<1> QED
  BY <1>1, Invariant, PTL

(* Every sample carries the role its own scrape's INFO told, whatever other *)
(* scrapes and failovers come in between.                                   *)
THEOREM RoleCorrect == Spec => []RoleOfItsInfo
<1>1. IInv => RoleOfItsInfo
  BY DEF IInv
<1> QED
  BY <1>1, Invariant, PTL

(* up and exporter_last_scrape_error tell how the scrape went, on each of   *)
(* the paths through it.                                                    *)
THEOREM ReportCorrect == Spec => []UpTellsInfo
<1>1. IInv => UpTellsInfo
  BY DEF IInv
<1> QED
  BY <1>1, Invariant, PTL

(* A reload that did not overlap another one stays in force.                *)
THEOREM ReloadCorrect == Spec => []ReloadHolds
<1>1. IInv => ReloadHolds
  BY DEF IInv
<1> QED
  BY <1>1, Invariant, PTL

(* Every connection of a request is closed when it has been answered.       *)
THEOREM ConnectionsCorrect == Spec => []NoConnectionLeft
<1>1. IInv => NoConnectionLeft
  BY DEF IInv, InOrder, Closed, NoConnectionLeft, Answered
<1> QED
  BY <1>1, Invariant, PTL

-----------------------------------------------------------------------------
(* Exporter implements ScrapeSerial: CopyOptions is its CopyOptions,        *)
(* StoreMap its Reload, Unlock its Answer, and all else stutters.           *)

PasswordsAndLabels(r) ==
  [passwords |-> used[r],
   labels |-> {s.label : s \in {t \in samples[r] : t.metric # "connect_time"}}]

(* Nothing but the map, and what finished requests answered, is visible.    *)
LEMMA Stutters ==
  ASSUME UNCHANGED passwordMap,
         \A q \in Metrics \cup Scrapes :
           /\ Finished(q)' <=> Finished(q)
           /\ Finished(q) => UNCHANGED <<used[q], samples[q]>>
  PROVE  UNCHANGED Serial!serialVars
BY DEF Serial!serialVars

(* At first no /scrape has a copy and nobody has an answer.                 *)
LEMMA InitSerial == Init => Serial!Init
<1> SUFFICES ASSUME Init PROVE Serial!Init
  OBVIOUS
<1>1. passwordMap[Main] \in Versions /\ \A r \in Scrapes : passwordMap[r] = Nothing
  BY VersionType, ObjectType DEF Init, Begin, Objects
<1>2. \A r \in Metrics \cup Scrapes : ~ Finished(r)
  BY DEF Init, Begin, Finished, Requests
<1> QED
  BY <1>1, <1>2 DEF Serial!Init

(* What a scrape is answered with comes from one map and one role.          *)
LEMMA UnlockAnswers ==
  ASSUME IInv, NEW r \in Requests, Unlock(r), NEW label, label = Label(r)
  PROVE  Serial!Answer(r, label) /\ r \in Metrics \cup Scrapes
<1>1. r \in Metrics \cup Scrapes /\ pc[r] = "unlock"
  BY CollectPc, PcOfTypeOK DEF Unlock, IInv, InCollect
<1>2. Serial!InForce(r) = passwordMap[object(r)]
  BY <1>1, ObjectType DEF Serial!InForce
<1>3. Serial!InForce(r) # Nothing
  BY <1>1, <1>2, ObjectType DEF IInv, TypeOK, InOrder, MapBuilt, InCollect
<1>4. used[r] \in SUBSET {Serial!InForce(r)}
  BY <1>1, <1>2 DEF IInv, InOrder, OneMap, InCollect
<1>5. PasswordsAndLabels(r).labels \in SUBSET {label}
  BY <1>1 DEF PasswordsAndLabels, IInv, InOrder, OneRole, InCollect
<1>6. /\ Finished(r)' /\ ~ Finished(r)
      /\ \A q \in (Metrics \cup Scrapes) \ {r} : Finished(q)' <=> Finished(q)
      /\ UNCHANGED <<passwordMap, used, samples>>
  BY <1>1 DEF Unlock, Goto, Finished, scrape, IInv, TypeOK
<1> DEFINE answers == [q \in Metrics \cup Scrapes |->
                          IF Finished(q) THEN PasswordsAndLabels(q) ELSE Nothing]
<1>7. answers' = [answers EXCEPT ![r] = PasswordsAndLabels(r)] /\ answers[r] = Nothing
  BY <1>1, <1>6 DEF PasswordsAndLabels
<1>8. PasswordsAndLabels(r) = [passwords |-> used[r], labels |-> PasswordsAndLabels(r).labels]
  BY DEF PasswordsAndLabels
<1>9. \E passwords \in SUBSET {Serial!InForce(r)}, labels \in SUBSET {label} :
        answers' = [answers EXCEPT ![r] = [passwords |-> passwords, labels |-> labels]]
  BY <1>4, <1>5, <1>7, <1>8
<1>10. UNCHANGED <<passwordMap[Main], [q \in Scrapes |-> passwordMap[q]]>>
  BY <1>6
<1> QED
  BY <1>1, <1>3, <1>7, <1>9, <1>10 DEF Serial!Answer, PasswordsAndLabels

(* A /scrape copies the map in force.                                       *)
LEMMA CopyCopies ==
  ASSUME IInv, NEW r \in Requests, CopyOptions(r)
  PROVE  Serial!CopyOptions(r) /\ r \in Scrapes
<1>1. r \in Scrapes /\ passwordMap[r] = Nothing
  BY DEF CopyOptions, IInv, InOrder, MapBuilt
<1>2. /\ passwordMap'[Main] = passwordMap[Main]
      /\ [q \in Scrapes |-> passwordMap'[q]]
           = [[q \in Scrapes |-> passwordMap[q]] EXCEPT ![r] = passwordMap[Main]]
  BY <1>1 DEF CopyOptions, IInv, TypeOK, Objects
<1>3. /\ \A q \in Metrics \cup Scrapes : Finished(q)' <=> Finished(q)
      /\ UNCHANGED <<used, samples>>
  BY DEF CopyOptions, Goto, Finished, scrape
<1> QED
  BY <1>1, <1>2, <1>3 DEF Serial!CopyOptions

(* A reload puts a map in force and disturbs nothing else that is seen.     *)
LEMMA StoreReloads ==
  ASSUME IInv, IInv', NEW r \in Requests, StoreMap(r)
  PROVE  Serial!Reload
<1>1. passwordMap'[Main] \in Versions /\ \A q \in Scrapes : passwordMap'[q] = passwordMap[q]
  BY ObjectType DEF StoreMap, IInv, TypeOK
<1>2. r \in Reloads
  BY DEF StoreMap, IInv, TypeOK
<1>3. /\ \A q \in Metrics \cup Scrapes : Finished(q)' <=> Finished(q)
      /\ UNCHANGED <<used, samples>>
  BY <1>2, ExporterAssumption DEF StoreMap, Goto, Finished, scrape
<1> QED
  BY <1>1, <1>3 DEF Serial!Reload


(* Every step is one of ScrapeSerial, or invisible to it.                   *)
LEMMA StepSerial ==
  IInv /\ IInv' /\ [Next]_vars => [Serial!Next]_(Serial!serialVars)
<1> SUFFICES ASSUME IInv, IInv', [Next]_vars PROVE [Serial!Next]_(Serial!serialVars)
  OBVIOUS
<1>1. CASE UNCHANGED vars \/ EditFile \/ Failover
  BY <1>1, Stutters DEF vars, shared, scrape, EditFile, Failover, Finished
<1>2. ASSUME NEW r \in Requests, Handle(r) \/ Unauthorized(r)
      PROVE  [Serial!Next]_(Serial!serialVars)
  <2>1. CASE Unauthorized(r)
    BY <2>1, Stutters DEF Unauthorized, Goto, Finished, shared, scrape
  <2>2. CASE ServeMetrics(r)
    BY <2>2, Stutters DEF ServeMetrics, Goto, Finished, shared, scrape
  <2>3. CASE RefuseTarget(r)
    BY <2>3, Stutters DEF RefuseTarget, Goto, Finished, scrape
  <2>4. CASE CopyOptions(r)
    BY <2>4, CopyCopies DEF Serial!Next
  <2>5. CASE Lock(r)
    BY <2>5, Stutters DEF Lock, Goto, Finished, scrape
  <2>6. CASE Connect(r)
    BY <2>6, Stutters DEF Connect, Goto, Fail, Emit, Connected, Finished, shared,
       IInv, TypeOK, Requests
  <2>7. CASE Info(r)
    BY <2>7, Stutters DEF Info, Goto, Fail, Finished, IInv, TypeOK, Requests
  <2>8. CASE Config(r)
    BY <2>8, Stutters DEF Config, Goto, Fail, Emit, Finished, shared, IInv, TypeOK,
       Requests
  <2>9. CASE ExtractInfo(r)
    BY <2>9, Stutters DEF ExtractInfo, Goto, Emit, Finished, shared
  <2>10. CASE KeyConn(r)
    BY <2>10, Stutters DEF KeyConn, Goto, Connected, Finished, shared, IInv, TypeOK,
       Requests
  <2>11. CASE CheckKeys(r)
    BY <2>11, Stutters DEF CheckKeys, Goto, Emit, Finished, shared, IInv, TypeOK,
       Requests
  <2>12. CASE Rest(r)
    BY <2>12, Stutters DEF Rest, Goto, Emit, Finished, shared, IInv, TypeOK,
       Requests
  <2>13. CASE Script(r)
    BY <2>13, Stutters DEF Script, Goto, Fail, Emit, Finished, shared, IInv, TypeOK,
       Requests
  <2>14. CASE Return(r)
    BY <2>14, Stutters DEF Return, Goto, Emit, Finished, shared
  <2>15. CASE Unlock(r)
    <3>1. PICK label \in Roles \cup {NoRole} : label = Label(r)
      BY ObjectType DEF Label, IInv, TypeOK
    <3> QED
      BY <2>15, <3>1, UnlockAnswers DEF Serial!Next
  <2>16. CASE LoadPwdFile(r)
    BY <2>16, Stutters DEF LoadPwdFile, Goto, RefuseMap, Finished, shared, scrape,
       IInv, TypeOK, Requests
  <2>17. CASE StoreMap(r)
    BY <2>17, StoreReloads DEF Serial!Next
  <2>18. CASE Discover(r)
    BY <2>18, Stutters DEF Discover, Goto, Connected, Finished, shared, IInv,
       TypeOK, Requests
  <2>19. CASE Nodes(r)
    BY <2>19, Stutters, ExporterAssumption DEF Nodes, Goto, Finished, shared, IInv,
       TypeOK, Requests
  <2> QED
    BY <1>2, <2>1, <2>2, <2>3, <2>4, <2>5, <2>6, <2>7, <2>8, <2>9, <2>10, <2>11,
       <2>12, <2>13, <2>14, <2>15, <2>16, <2>17, <2>18, <2>19 DEF Handle, Collect
<1> QED
  BY <1>1, <1>2 DEF Next, Done

(* Requests see a scrape of /metrics as one atomic step, whatever the       *)
(* requests, the edits of the password file and the failovers.              *)
THEOREM Implements == Spec => SerialSpec
<1>1. Init => Serial!Init
  BY InitSerial
<1>2. IInv /\ IInv' /\ [Next]_vars => [Serial!Next]_(Serial!serialVars)
  BY StepSerial
<1> QED
  BY <1>1, <1>2, Invariant, PTL DEF Spec, SerialSpec, Serial!Spec

-----------------------------------------------------------------------------
(* Process.  Every step of the process is a step of the handlers, or none   *)
(* of theirs.                                                               *)
LEMMA StepHandlers == PNext => [Next]_vars
<1> SUFFICES ASSUME PNext PROVE [Next]_vars
  OBVIOUS
<1>1. CASE Start \/ NotifySignals \/ Signal \/ Drained \/ DrainTimeout \/ Listen
  BY <1>1 DEF Start, NotifySignals, Signal, Drained, DrainTimeout, Listen
<1>2. CASE \E r \in Requests : Accept(r) \/ ReadCert(r) \/ ReadKey(r) \/ CloseNew(r)
  BY <1>2 DEF Accept, ReadCert, ReadKey, CloseNew
<1>3. CASE \E r \in Requests : Served(r)
  BY <1>3 DEF Served, Next
<1>4. CASE RenewCert \/ RenewKey \/ Over
  BY <1>4 DEF RenewCert, RenewKey, Over, allVars
<1>5. CASE Environment
  BY <1>5 DEF Environment, Next
<1> QED
  BY <1>1, <1>2, <1>3, <1>4, <1>5 DEF PNext

(* The process implements Exporter.                                         *)
THEOREM ProcessHandlers == ProcessSpec => Spec
<1>1. PInit => Init
  BY DEF PInit
<1>2. [PNext]_allVars => [Next]_vars
  <2>1. UNCHANGED allVars => UNCHANGED vars
    BY DEF allVars
  <2> QED
    BY <2>1, StepHandlers
<1> QED
  BY <1>1, <1>2, PTL DEF ProcessSpec, Spec

-----------------------------------------------------------------------------
(* Types, and what the process ends with.                                   *)

LEMMA InitProcessType == PInit => ProcessTypeOK
<1> SUFFICES ASSUME PInit PROVE ProcessTypeOK
  OBVIOUS
<1>1. 0 \in Pairs
  BY ProcessAssumption DEF Pairs
<1> QED
  BY <1>1 DEF PInit, ProcessTypeOK, MainStates, ConnStates

LEMMA KillType == ASSUME ProcessTypeOK, Kill PROVE ProcessTypeOK'
BY DEF ProcessTypeOK, Kill, MainStates, ConnStates, files

LEMMA StepProcessType == ASSUME ProcessTypeOK, [PNext]_allVars PROVE ProcessTypeOK'
<1> USE DEF ProcessTypeOK, MainStates, ConnStates
<1>1. CASE UNCHANGED allVars
  BY <1>1 DEF allVars, process, files, handshake
<1>2. CASE Start \/ NotifySignals
  BY <1>2, KillType DEF Start, NotifySignals, files, handshake
<1>3. CASE Signal
  BY <1>3, KillType DEF Signal, files, handshake
<1>4. CASE Drained \/ DrainTimeout
  BY <1>4, KillType DEF Drained, DrainTimeout, files, handshake
<1>5. CASE Listen
  BY <1>5, KillType DEF Listen, files, handshake
<1>6. ASSUME NEW r \in Requests, Accept(r) PROVE ProcessTypeOK'
  <2>1. LastWhole \in Pairs
    BY DEF LastWhole
  <2> QED
    BY <1>6, <2>1 DEF Accept, files
<1>7. ASSUME NEW r \in Requests, ReadCert(r) PROVE ProcessTypeOK'
  BY <1>7 DEF ReadCert, files
<1>8. ASSUME NEW r \in Requests, ReadKey(r) PROVE ProcessTypeOK'
  BY <1>8 DEF ReadKey, HandshakeOver, files
<1>9. ASSUME NEW r \in Requests, CloseNew(r) PROVE ProcessTypeOK'
  BY <1>9 DEF CloseNew, HandshakeOver, files
<1>10. CASE RenewCert
  <2>1. certFile + 1 \in Pairs
    BY <1>10, ProcessAssumption DEF RenewCert, Pairs
  <2> QED
    BY <1>10, <2>1 DEF RenewCert, handshake
<1>11. CASE RenewKey
  <2>1. keyFile + 1 \in Pairs
    BY <1>11, ProcessAssumption DEF RenewKey, Pairs
  <2> QED
    BY <1>11, <2>1 DEF RenewKey, handshake
<1>12. CASE (\E r \in Requests : Served(r)) \/ Environment \/ Over
  BY <1>12 DEF Served, Environment, Over, allVars, process, files, handshake
<1> QED
  BY <1>1, <1>2, <1>3, <1>4, <1>5, <1>6, <1>7, <1>8, <1>9, <1>10, <1>11, <1>12 DEF PNext

(* The types of the process's variables.                                    *)
THEOREM ProcessTypeCorrect == ProcessSpec => []ProcessTypeOK
BY InitProcessType, StepProcessType, PTL DEF ProcessSpec

-----------------------------------------------------------------------------
(* The process ends by itself with nothing left to do.                      *)

(* A handler moves no other request than its own.                           *)
LEMMA HandlesOne ==
  ASSUME TypeOK, NEW r \in Requests, Handle(r) \/ Unauthorized(r), NEW q \in Requests, q # r
  PROVE  pc'[q] = pc[q]
<1> USE DEF TypeOK, Goto
<1>1. CASE Collect(r)
  BY <1>1 DEF Collect, Lock, Connect, Info, Config, ExtractInfo, KeyConn, CheckKeys, Rest,
              Script, Return, Unlock, Fail
<1>2. CASE ServeMetrics(r) \/ RefuseTarget(r) \/ CopyOptions(r) \/ Unauthorized(r)
  BY <1>2 DEF ServeMetrics, RefuseTarget, CopyOptions, Unauthorized
<1>3. CASE LoadPwdFile(r) \/ StoreMap(r) \/ Discover(r) \/ Nodes(r)
  BY <1>3 DEF LoadPwdFile, RefuseMap, StoreMap, Discover, Nodes
<1> QED
  BY <1>1, <1>2, <1>3 DEF Handle

(* A request without a connection has not been handled, and one in flight   *)
(* keeps Shutdown waiting.                                                  *)
Unhandled == main # "killed" => \A r \in Requests : conn[r] # "open" => pc[r] = "start"

NoneInFlight == main = "stopped" => \A r \in Requests : ~ InFlight(r)

LEMMA StepUnhandled ==
  ASSUME ProcessTypeOK, TypeOK, Unhandled, [PNext]_allVars
  PROVE  Unhandled'
<1> USE DEF Unhandled, ProcessTypeOK
<1>1. CASE UNCHANGED allVars
  BY <1>1 DEF allVars, process, vars
<1>2. CASE Start \/ NotifySignals \/ Signal \/ Drained \/ DrainTimeout \/ Listen
  BY <1>2 DEF Start, NotifySignals, Signal, Drained, DrainTimeout, Listen, Kill, vars
<1>3. ASSUME NEW r \in Requests, Accept(r) \/ ReadCert(r) \/ ReadKey(r) \/ CloseNew(r)
      PROVE  Unhandled'
  BY <1>3 DEF Accept, ReadCert, ReadKey, CloseNew, vars
<1>4. ASSUME NEW r \in Requests, Served(r) PROVE Unhandled'
  BY <1>4, HandlesOne DEF Served, process
<1>5. CASE RenewCert \/ RenewKey \/ Environment \/ Over
  BY <1>5 DEF RenewCert, RenewKey, Environment, EditFile, Failover, Over, allVars, process, vars
<1> QED
  BY <1>1, <1>2, <1>3, <1>4, <1>5 DEF PNext

LEMMA StepNoneInFlight ==
  ASSUME ProcessTypeOK, NoneInFlight, [PNext]_allVars
  PROVE  NoneInFlight'
<1> USE DEF NoneInFlight, InFlight, Answered
<1>1. CASE UNCHANGED allVars
  BY <1>1 DEF allVars, process, vars
<1>2. CASE Drained
  BY <1>2 DEF Drained, vars
<1>3. CASE Start \/ NotifySignals \/ Signal \/ DrainTimeout \/ Listen
  BY <1>3 DEF Start, NotifySignals, Signal, DrainTimeout, Listen, Kill, Alive
<1>4. CASE \E r \in Requests : \/ Accept(r) \/ ReadCert(r) \/ ReadKey(r) \/ CloseNew(r)
                             \/ Served(r)
  BY <1>4 DEF Accept, ReadCert, ReadKey, CloseNew, Served, Alive, process
<1>5. CASE RenewCert \/ RenewKey \/ Environment \/ Over
  BY <1>5 DEF RenewCert, RenewKey, Environment, EditFile, Failover, Over, allVars, process, vars
<1> QED
  BY <1>1, <1>2, <1>3, <1>4, <1>5 DEF PNext

(* A graceful exit leaves no request, handshake or Redis connection behind. *)
THEOREM DrainCorrect == ProcessSpec => []DrainedBeforeExit
<1>1. PInit => Unhandled /\ NoneInFlight
  BY DEF PInit, Init, Begin, Unhandled, NoneInFlight
<1>2. IInv /\ Unhandled /\ NoneInFlight => DrainedBeforeExit
  <2> SUFFICES ASSUME IInv, Unhandled, NoneInFlight, main = "stopped", NEW r \in Requests
               PROVE  conn[r] # "hello" /\ (conn[r] = "open" => Answered(r)) /\ conns[r] = {}
    BY DEF DrainedBeforeExit
  <2>1. pc[r] \in {"start", "ok", "error"}
    BY DEF Unhandled, NoneInFlight, InFlight, Answered
  <2> QED
    BY <2>1 DEF NoneInFlight, InFlight, IInv, InOrder, Closed
<1>3. IInv => TypeOK
  BY DEF IInv
<1> QED
  BY <1>1, <1>2, <1>3, ProcessHandlers, Invariant, ProcessTypeCorrect, StepUnhandled,
     StepNoneInFlight, PTL DEF ProcessSpec

-----------------------------------------------------------------------------
(* A handshake begins with a pair in force, and what it reads is no older.  *)
Fresh ==
  /\ outdated = {}
  /\ \A r \in Requests :
       /\ certRead[r] # Nothing => conn[r] = "hello"
       /\ conn[r] = "hello" =>
            /\ inForce[r] \in Pairs /\ inForce[r] <= certFile /\ inForce[r] <= keyFile
            /\ certRead[r] # Nothing => inForce[r] <= certRead[r]

LEMMA StepFresh == ASSUME ProcessTypeOK, Fresh, [PNext]_allVars PROVE Fresh'
<1>p. Pairs \subseteq Nat /\ Nothing \notin Pairs
  BY ProcessAssumption DEF Pairs
<1>f. /\ certFile \in Nat /\ keyFile \in Nat /\ certFile \in Pairs /\ keyFile \in Pairs
      /\ conn \in [Requests -> ConnStates]
      /\ certRead \in [Requests -> Pairs \cup {Nothing}]
      /\ inForce \in [Requests -> Pairs \cup {Nothing}]
  BY <1>p DEF ProcessTypeOK
<1>o. outdated = {}
  BY DEF Fresh
<1>h. \A q \in Requests :
        /\ certRead[q] # Nothing => conn[q] = "hello"
        /\ conn[q] = "hello" =>
             /\ inForce[q] \in Pairs /\ inForce[q] <= certFile /\ inForce[q] <= keyFile
             /\ certRead[q] # Nothing => inForce[q] <= certRead[q]
  BY DEF Fresh
<1>1. CASE UNCHANGED allVars
  BY <1>1 DEF Fresh, allVars, process, files, handshake
<1>k. CASE Kill
  BY <1>k, <1>o, <1>f DEF Fresh, Kill, files
<1>2. CASE Start \/ NotifySignals \/ Signal \/ Drained \/ DrainTimeout \/ Listen
  BY <1>2, <1>k DEF Fresh, Start, NotifySignals, Signal, Drained, DrainTimeout, Listen, files,
     handshake
<1>3. ASSUME NEW r \in Requests, Accept(r) PROVE Fresh'
  <2>1. certRead[r] = Nothing
    BY <1>3, <1>h DEF Accept
  <2>2. LastWhole \in Pairs /\ LastWhole <= certFile /\ LastWhole <= keyFile
    BY <1>f DEF LastWhole
  <2>3. UNCHANGED <<certFile, keyFile, certRead, outdated>>
    BY <1>3 DEF Accept, files
  <2>4. \A q \in Requests : q # r => conn'[q] = conn[q] /\ inForce'[q] = inForce[q]
    BY <1>3, <1>f DEF Accept
  <2>5. conn'[r] = "hello" => inForce'[r] = LastWhole
    BY <1>3, <1>f DEF Accept
  <2>6. /\ certRead'[r] = Nothing
        /\ conn'[r] = "hello" =>
             inForce'[r] \in Pairs /\ inForce'[r] <= certFile' /\ inForce'[r] <= keyFile'
    BY <2>1, <2>2, <2>3, <2>5
  <2> QED
    BY <1>h, <1>o, <2>3, <2>4, <2>6 DEF Fresh
<1>4. ASSUME NEW r \in Requests, ReadCert(r) PROVE Fresh'
  <2>1. UNCHANGED <<certFile, keyFile, conn, inForce, outdated>> /\ conn[r] = "hello"
    BY <1>4 DEF ReadCert, files
  <2>2. \A q \in Requests : q # r => certRead'[q] = certRead[q]
    BY <1>4, <1>f DEF ReadCert
  <2>3. certRead'[r] = certFile
    BY <1>4, <1>f DEF ReadCert
  <2> QED
    BY <1>h, <1>o, <2>1, <2>2, <2>3 DEF Fresh
<1>5. ASSUME NEW r \in Requests, ReadKey(r) PROVE Fresh'
  <2>1. conn[r] = "hello" /\ certRead[r] # Nothing /\ UNCHANGED <<certFile, keyFile>>
    BY <1>5 DEF ReadKey, files
  <2>2. inForce[r] \in Nat /\ certRead[r] \in Nat /\ inForce[r] <= certRead[r]
    BY <2>1, <1>h, <1>f, <1>p
  <2>3. ~ certRead[r] < inForce[r]
    BY <2>2
  <2>4. outdated' = {}
    BY <1>5, <1>o, <2>3 DEF ReadKey
  <2>5. conn'[r] # "hello" /\ certRead'[r] = Nothing
    BY <1>5, <1>f DEF ReadKey, HandshakeOver
  <2>6. \A q \in Requests : q # r =>
          conn'[q] = conn[q] /\ inForce'[q] = inForce[q] /\ certRead'[q] = certRead[q]
    BY <1>5, <1>f DEF ReadKey, HandshakeOver
  <2> QED
    BY <1>h, <2>1, <2>4, <2>5, <2>6 DEF Fresh
<1>6. ASSUME NEW r \in Requests, CloseNew(r) PROVE Fresh'
  <2>1. UNCHANGED <<certFile, keyFile, outdated>>
    BY <1>6 DEF CloseNew, files
  <2>2. conn'[r] # "hello" /\ certRead'[r] = Nothing
    BY <1>6, <1>f DEF CloseNew, HandshakeOver
  <2>3. \A q \in Requests : q # r =>
          conn'[q] = conn[q] /\ inForce'[q] = inForce[q] /\ certRead'[q] = certRead[q]
    BY <1>6, <1>f DEF CloseNew, HandshakeOver
  <2> QED
    BY <1>h, <1>o, <2>1, <2>2, <2>3 DEF Fresh
<1>7. CASE RenewCert \/ RenewKey
  <2>1. certFile <= certFile' /\ keyFile <= keyFile' /\ certFile' \in Nat /\ keyFile' \in Nat
    BY <1>7, <1>f DEF RenewCert, RenewKey
  <2>2. UNCHANGED <<conn, certRead, inForce, outdated>>
    BY <1>7 DEF RenewCert, RenewKey, handshake
  <2>3. ASSUME NEW r \in Requests, conn[r] = "hello"
        PROVE  inForce[r] <= certFile' /\ inForce[r] <= keyFile'
    <3>1. inForce[r] \in Nat /\ inForce[r] <= certFile /\ inForce[r] <= keyFile
      BY <1>h, <1>p, <2>3
    <3> QED
      BY <3>1, <2>1, <1>f
  <2> QED
    BY <1>h, <1>o, <2>2, <2>3 DEF Fresh
<1>8. CASE (\E r \in Requests : Served(r)) \/ Environment \/ Over
  BY <1>8 DEF Fresh, Served, Environment, Over, allVars, process, files, handshake
<1> QED
  BY <1>1, <1>2, <1>3, <1>4, <1>5, <1>6, <1>7, <1>8 DEF PNext

(* No handshake presents an older pair than the one in force when it began. *)
THEOREM RenewalCorrect == ProcessSpec => []RenewalInForce
<1>1. PInit => Fresh
  BY DEF PInit, Fresh
<1>2. Fresh => RenewalInForce
  BY DEF Fresh, RenewalInForce
<1> QED
  BY <1>1, <1>2, ProcessTypeCorrect, StepFresh, PTL DEF ProcessSpec

-----------------------------------------------------------------------------
(* What ExporterProofs proves holds of the process: for one, the passwords  *)
(* a reload put in force, and the serial order of the scrapes.              *)
THEOREM ProcessReload == ProcessSpec => []ReloadHolds
BY ProcessHandlers, ReloadCorrect, PTL

THEOREM ProcessImplements == ProcessSpec => SerialSpec
BY ProcessHandlers, Implements, PTL
=============================================================================
