--------------------------- MODULE StreamInfoProofs ---------------------------
(***************************************************************************)
(* Proofs about StreamInfo, for any streams, groups and consumers, changes  *)
(* by other clients between the commands, and commands that fail.           *)
(***************************************************************************)
EXTENDS StreamInfo, SequenceFacts

(* A stream that was never deleted and lost no group has all it ever had.   *)
Growing ==
  \A d \in DBs, k \in Streams :
    Absent \notin seen[d][k] /\ <<d, k>> \notin lost =>
      \A c \in seen[d][k] : DOMAIN c \subseteq DOMAIN streams[d][k]

(* What the stream under way has been.                                      *)
current == seen[sel][entry.key]

AlwaysHas(S, g) == \A c \in S : Has(c, g)

AlwaysCounted(S, g) == \A c \in S : Counted(c, g)

(* What the commands about the stream under way have told so far was so at  *)
(* some moment, and no group that was always there has been missed.         *)
Underway ==
  /\ pc \in {"groups", "consumers", "full", "register"} =>
       \E c \in current : c # Absent /\ groups = Cardinality(DOMAIN c)
  /\ pc \in {"consumers", "full", "register"} =>
       /\ \A g \in ToSet(names) : \E c \in current : Has(c, g)
       /\ \A i \in DOMAIN members : \E c \in current : Has(c, names[i]) /\ members[i] = c[names[i]].consumers
       /\ \A g \in GroupNames : AlwaysHas(current, g) => g \in ToSet(names)
  /\ pc \in {"consumers", "full"} => nacked = <<>>
  /\ pc = "register" =>
       /\ DOMAIN nacked \subseteq ToSet(names)
       /\ \A g \in DOMAIN nacked : \E c \in current : Counted(c, g) /\ nacked[g] = c[g].nacked
       /\ \A g \in ToSet(names) :
            AlwaysCounted(current, g) => (g \in DOMAIN nacked <=> <<idx, "FULL">> \notin failed)

(* Samples are of streams that are done, and only those and the stream      *)
(* about to be registered may have had an error of FULL.                    *)
Settled ==
  /\ \A e \in exported : e.entry < idx
  /\ \A i \in DOMAIN StreamList :
       <<i, "FULL">> \in failed => i < idx \/ (i = idx /\ pc = "register")

StreamInfoInv ==
  Growing /\ Underway /\ Settled /\ NothingInvented /\ KeptStreamsExported /\ NackedIfFull

-----------------------------------------------------------------------------
(* Type correctness.                                                        *)

LEMMA ContentType ==
  ASSUME NEW c \in Contents, c # Absent
  PROVE  DOMAIN c \subseteq GroupNames /\ c \in [DOMAIN c -> Group]
         /\ IsFiniteSet(DOMAIN c) /\ Cardinality(DOMAIN c) \in Nat
<1>1. PICK G \in SUBSET GroupNames : c \in [G -> Group]
  BY DEF Contents, OfGroups
<1>2. DOMAIN c = G
  BY <1>1
<1>3. IsFiniteSet(G)
  BY <1>1, StreamInfoAssumption, FS_Subset
<1> QED
  BY <1>1, <1>2, <1>3, FS_CardinalityType

LEMMA OfGroupsType ==
  ASSUME NEW S, NEW G \in SUBSET GroupNames, NEW f \in [G -> S]
  PROVE  f \in OfGroups(S)
BY DEF OfGroups

LEMMA NoCounts == <<>> \in OfGroups(Counts)
<1>1. <<>> \in [{} -> Counts]
  OBVIOUS
<1> QED
  BY <1>1, OfGroupsType

(* What FULL tells of the groups XINFO GROUPS has named.                    *)
LEMMA CountsType ==
  ASSUME TypeOK, content \in Contents, content # Absent
  PROVE  /\ NackedCounts \in OfGroups(Counts)
         /\ DOMAIN NackedCounts = {g \in ToSet(names) : Counted(content, g)}
         /\ \A g \in DOMAIN NackedCounts : NackedCounts[g] = content[g].nacked
<1> DEFINE all == {x \in DOMAIN content \ {Unnamed} : content[x].nacked # NoCount}
           D == ToSet(names) \cap all
<1>1. NackedCounts = [g \in D |-> content[g].nacked]
  BY DEF NackedCounts, parseStreamGroupNackedCounts, Restrict
<1>2. D = {g \in ToSet(names) : Counted(content, g)}
  BY DEF Counted, Has
<1>3. D \in SUBSET GroupNames
  BY ContentType
<1>4. \A g \in D : content[g].nacked \in Counts
  BY ContentType DEF Group
<1>5. [g \in D |-> content[g].nacked] \in [D -> Counts]
  BY <1>4
<1> HIDE DEF D
<1> QED
  BY <1>1, <1>2, <1>3, <1>5, OfGroupsType

LEMMA ListType ==
  /\ Len(StreamList) \in Nat /\ DOMAIN StreamList = 1 .. Len(StreamList)
  /\ \A i \in DOMAIN StreamList : StreamList[i].db \in DBs /\ StreamList[i].key \in Streams
<1>1. StreamList \in Seq([db : DBs, key : Streams])
  BY StreamInfoAssumption
<1>2. Len(StreamList) \in Nat /\ DOMAIN StreamList = 1 .. Len(StreamList)
  BY <1>1, LenProperties
<1>3. ASSUME NEW i \in DOMAIN StreamList
      PROVE  StreamList[i].db \in DBs /\ StreamList[i].key \in Streams
  <2>1. StreamList[i] \in [db : DBs, key : Streams]
    BY <1>1, <1>2, ElementOfSeq
  <2> QED
    BY <2>1
<1> QED
  BY <1>2, <1>3

LEMMA EntryType ==
  ASSUME TypeOK, idx <= Len(StreamList)
  PROVE  /\ idx \in DOMAIN StreamList /\ StreamList[idx] = entry /\ idx \in Nat
         /\ entry.db \in DBs /\ entry.key \in Streams
BY ListType DEF TypeOK, entry

LEMMA UnderwayType ==
  ASSUME TypeOK, pc # "select"
  PROVE  /\ idx \in DOMAIN StreamList /\ StreamList[idx] = entry /\ sel = entry.db
         /\ idx \in Nat /\ idx <= Len(StreamList)
         /\ sel \in DBs /\ entry.key \in Streams /\ sel \in ValidDBs
         /\ content \in Contents /\ content \in current /\ current \subseteq Contents
<1>1. idx <= Len(StreamList) /\ sel = entry.db /\ sel \in ValidDBs /\ sel \in DBs
  BY StreamInfoAssumption DEF TypeOK
<1>2. entry.key \in Streams /\ idx \in DOMAIN StreamList /\ StreamList[idx] = entry /\ idx \in Nat
  BY <1>1, EntryType
<1>3. content \in Contents /\ content \in current /\ current \subseteq Contents
  BY <1>1, <1>2 DEF TypeOK, Store, content, current
<1> QED
  BY <1>1, <1>2, <1>3

(* A stream is left: the next one begins.                                   *)
LEMMA NextStreamType ==
  ASSUME TypeOK, idx <= Len(StreamList), NextStream
  PROVE  idx' \in 1 .. Len(StreamList) + 1 /\ pc' = "select" /\ idx' = idx + 1
BY ListType DEF TypeOK, NextStream

LEMMA FailsType ==
  ASSUME TypeOK, idx <= Len(StreamList),
         NEW cmd \in {"SELECT", "STREAM", "GROUPS", "CONSUMERS", "FULL"},
         UNCHANGED failed \/ Fails(cmd)
  PROVE  failed' \subseteq (DOMAIN StreamList) \X {"SELECT", "STREAM", "GROUPS", "CONSUMERS", "FULL"}
BY EntryType DEF TypeOK, Fails

LEMMA ClientEffect ==
  ASSUME TypeOK, NEW d \in DBs, NEW k \in Streams, NEW c \in Contents, ClientWrite(d, k, c)
  PROVE  /\ streams' \in Store /\ seen' \in [DBs -> [Streams -> SUBSET Contents]]
         /\ streams'[d][k] = c /\ seen'[d][k] = seen[d][k] \cup {c}
         /\ \A e \in DBs, l \in Streams :
              e # d \/ l # k => streams'[e][l] = streams[e][l] /\ seen'[e][l] = seen[e][l]
<1>1. /\ streams' = [streams EXCEPT ![d] = [streams[d] EXCEPT ![k] = c]]
      /\ seen' = [seen EXCEPT ![d] = [seen[d] EXCEPT ![k] = seen[d][k] \cup {c}]]
  BY DEF ClientWrite
<1>2. /\ streams \in [DBs -> [Streams -> Contents]]
      /\ seen \in [DBs -> [Streams -> SUBSET Contents]]
  BY DEF TypeOK, Store
<1>3. /\ [streams[d] EXCEPT ![k] = c] \in [Streams -> Contents]
      /\ [seen[d] EXCEPT ![k] = seen[d][k] \cup {c}] \in [Streams -> SUBSET Contents]
  BY <1>2
<1>4. streams' \in Store /\ seen' \in [DBs -> [Streams -> SUBSET Contents]]
  BY <1>1, <1>2, <1>3 DEF Store
<1> QED
  BY <1>1, <1>2, <1>4

(* What Register adds to what is exported.                                  *)
LEMMA RegisterEffect ==
  ASSUME TypeOK, Register
  PROVE  \E e : /\ exported' = exported \cup {e}
                /\ e.entry = idx /\ e.groups = groups /\ e.nacked = nacked
                /\ e.members \in OfGroups(SUBSET Consumers) /\ DOMAIN e.members = ToSet(names)
                /\ \A g \in ToSet(names) :
                     ExcludeConsumers \/ \E i \in DOMAIN members :
                                            names[i] = g /\ e.members[g] = members[i]
<1> DEFINE none == [g \in ToSet(names) |-> {}]
           all == [g \in ToSet(names) |-> members[CHOOSE i \in DOMAIN names : names[i] = g]]
           e == IF ExcludeConsumers THEN [streamInfo EXCEPT !.members = none] ELSE streamInfo
<1>1. exported' = exported \cup {e}
  BY DEF Register
<1>2. e.entry = idx /\ e.groups = groups /\ e.nacked = nacked
      /\ e.members = IF ExcludeConsumers THEN none ELSE all
  BY DEF streamInfo
<1>3. /\ names \in Seq(GroupNames) /\ members \in Seq(SUBSET Consumers)
      /\ Len(members) = Len(names) /\ DOMAIN members = DOMAIN names
  BY LenProperties DEF TypeOK, Register
<1>4. ASSUME NEW g \in ToSet(names)
      PROVE  \E i \in DOMAIN members : names[i] = g /\ all[g] = members[i]
  BY <1>3 DEF ToSet
<1>5. ToSet(names) \in SUBSET GroupNames
  BY <1>3, ToSetType
<1>6. all \in [ToSet(names) -> SUBSET Consumers]
  <2>1. \A g \in ToSet(names) : all[g] \in SUBSET Consumers
    BY <1>3, <1>4, ToSetType
  <2> QED
    BY <2>1
<1>7. e.members \in OfGroups(SUBSET Consumers) /\ DOMAIN e.members = ToSet(names)
  <2>1. none \in [ToSet(names) -> SUBSET Consumers]
    OBVIOUS
  <2>2. none \in OfGroups(SUBSET Consumers) /\ all \in OfGroups(SUBSET Consumers)
    BY <1>5, <1>6, <2>1, OfGroupsType
  <2> QED
    BY <1>2, <2>2
<1> HIDE DEF all, none, e
<1>8. \A g \in ToSet(names) :
        ExcludeConsumers \/ \E i \in DOMAIN members : names[i] = g /\ e.members[g] = members[i]
  BY <1>2, <1>4
<1> QED
  BY <1>1, <1>2, <1>7, <1>8

LEMMA InitType == Init => TypeOK
<1> SUFFICES ASSUME Init PROVE TypeOK
  OBVIOUS
<1>1. streams \in Store
  BY StreamInfoAssumption DEF Init
<1>2. seen \in [DBs -> [Streams -> SUBSET Contents]]
      /\ \A d \in DBs, k \in Streams : streams[d][k] \in seen[d][k]
  BY <1>1 DEF Init, Store
<1>3. names \in Seq(GroupNames) /\ members \in Seq(SUBSET Consumers) /\ nacked \in OfGroups(Counts)
  BY EmptySeq, NoCounts DEF Init
<1> QED
  BY <1>1, <1>2, <1>3, ListType, StreamInfoAssumption DEF Init, TypeOK, PCs

LEMMA TypeStep == TypeOK /\ [Next]_vars => TypeOK'
<1> SUFFICES ASSUME TypeOK, [Next]_vars PROVE TypeOK'
  OBVIOUS
<1>1. CASE SelectDb
  <2>1. failed' \subseteq (DOMAIN StreamList) \X {"SELECT", "STREAM", "GROUPS", "CONSUMERS", "FULL"}
    BY <1>1, FailsType DEF SelectDb
  <2>2. CASE Select /\ pc' = "stream" /\ UNCHANGED idx
    BY <1>1, <2>1, <2>2 DEF SelectDb, Select, TypeOK, PCs, world, entry
  <2>3. CASE NextStream /\ UNCHANGED sel
    BY <1>1, <2>1, <2>3, NextStreamType DEF SelectDb, TypeOK, PCs, world
  <2> QED
    BY <1>1, <2>2, <2>3 DEF SelectDb
<1>2. CASE XInfoStream
  <2>1. pc # "select" /\ idx <= Len(StreamList)
    BY <1>2, UnderwayType DEF XInfoStream
  <2>2. failed' \subseteq (DOMAIN StreamList) \X {"SELECT", "STREAM", "GROUPS", "CONSUMERS", "FULL"}
    BY <1>2, <2>1, FailsType DEF XInfoStream, Succeeds, GiveUp
  <2>3. CASE Succeeds /\ groups' = parseStreamInfo /\ pc' = "groups" /\ UNCHANGED idx
    <3>1. groups' \in Nat
      BY <2>1, <2>3, UnderwayType, ContentType DEF Succeeds, parseStreamInfo
    <3> QED
      BY <1>2, <2>1, <2>2, <2>3, <3>1 DEF XInfoStream, TypeOK, PCs, world, entry
  <2>4. CASE GiveUp("STREAM") /\ UNCHANGED groups
    BY <1>2, <2>1, <2>2, <2>4, NextStreamType DEF XInfoStream, GiveUp, TypeOK, PCs, world
  <2> QED
    BY <1>2, <2>3, <2>4 DEF XInfoStream
<1>3. CASE XInfoGroups
  <2>1. pc # "select" /\ idx <= Len(StreamList)
    BY <1>3, UnderwayType DEF XInfoGroups
  <2>2. failed' \subseteq (DOMAIN StreamList) \X {"SELECT", "STREAM", "GROUPS", "CONSUMERS", "FULL"}
    BY <1>3, <2>1, FailsType DEF XInfoGroups, Succeeds, GiveUp
  <2>3. CASE /\ Succeeds /\ names' = SetToSeq(DOMAIN content) /\ FreshGroups
             /\ pc' = IF names' = <<>> THEN "register" ELSE "consumers"
             /\ UNCHANGED idx
    <3>1. names' \in Seq(GroupNames)
      BY <2>1, <2>3, UnderwayType, ContentType, SetToSeqLists, SeqMonotonic DEF Succeeds
    <3>2. members' \in Seq(SUBSET Consumers) /\ Len(members') = 0 /\ nacked' \in OfGroups(Counts)
      BY <2>3, EmptySeq, NoCounts DEF FreshGroups
    <3>3. (pc' = "register" => Len(names') = 0) /\ (pc' = "consumers" => 0 < Len(names'))
          /\ pc' \in {"register", "consumers"}
      BY <2>3, <3>1, EmptySeq
    <3> QED
      BY <1>3, <2>1, <2>2, <2>3, <3>1, <3>2, <3>3 DEF XInfoGroups, TypeOK, PCs, world, entry
  <2>4. CASE GiveUp("GROUPS") /\ UNCHANGED <<names, members, nacked>>
    BY <1>3, <2>1, <2>2, <2>4, NextStreamType DEF XInfoGroups, GiveUp, TypeOK, PCs, world
  <2> QED
    BY <1>3, <2>3, <2>4 DEF XInfoGroups
<1>4. CASE XInfoConsumers
  <2>1. pc # "select" /\ idx <= Len(StreamList)
    BY <1>4, UnderwayType DEF XInfoConsumers
  <2>2. failed' \subseteq (DOMAIN StreamList) \X {"SELECT", "STREAM", "GROUPS", "CONSUMERS", "FULL"}
    BY <1>4, <2>1, FailsType DEF XInfoConsumers, Succeeds, GiveUp
  <2>3. CASE /\ Succeeds /\ group \in DOMAIN content
             /\ members' = Append(members, content[group].consumers)
             /\ pc' = IF LastConsumers THEN "full" ELSE "consumers"
             /\ UNCHANGED idx
    <3>1. content[group].consumers \in SUBSET Consumers
      BY <2>1, <2>3, UnderwayType, ContentType DEF Succeeds, Group
    <3>2. members \in Seq(SUBSET Consumers) /\ Len(members) < Len(names)
          /\ Len(names) \in Nat /\ Len(members) \in Nat
      BY <1>4, LenProperties DEF TypeOK, XInfoConsumers
    <3>3. members' \in Seq(SUBSET Consumers) /\ Len(members') = Len(members) + 1
      BY <2>3, <3>1, <3>2, AppendProperties
    <3>4. /\ pc' = "full" => Len(members') = Len(names)
          /\ pc' = "consumers" => Len(members') < Len(names)
          /\ pc' \in {"full", "consumers"}
      BY <2>3, <3>2, <3>3 DEF LastConsumers
    <3> QED
      BY <1>4, <2>1, <2>2, <2>3, <3>3, <3>4 DEF XInfoConsumers, TypeOK, PCs, world, entry
  <2>4. CASE NextStream /\ UNCHANGED members
    BY <1>4, <2>1, <2>2, <2>4, NextStreamType DEF XInfoConsumers, TypeOK, PCs, world
  <2> QED
    BY <1>4, <2>3, <2>4 DEF XInfoConsumers, GiveUp
<1>5. CASE XInfoFull
  <2>1. pc # "select" /\ idx <= Len(StreamList)
    BY <1>5, UnderwayType DEF XInfoFull
  <2>2. failed' \subseteq (DOMAIN StreamList) \X {"SELECT", "STREAM", "GROUPS", "CONSUMERS", "FULL"}
    BY <1>5, <2>1, FailsType DEF XInfoFull, Succeeds
  <2>3. nacked' \in OfGroups(Counts)
    BY <1>5, <2>1, UnderwayType, CountsType DEF XInfoFull, Succeeds, TypeOK
  <2> QED
    BY <1>5, <2>1, <2>2, <2>3 DEF XInfoFull, FullFailed, TypeOK, PCs, world, entry
<1>6. CASE Register
  <2>1. pc # "select" /\ idx <= Len(StreamList) /\ idx \in DOMAIN StreamList
    BY <1>6, UnderwayType DEF Register
  <2>2. PICK e : /\ exported' = exported \cup {e} /\ e.entry = idx /\ e.members \in OfGroups(SUBSET Consumers)
    BY <1>6, RegisterEffect
  <2>3. \A x \in exported' : x.entry \in DOMAIN StreamList /\ x.members \in OfGroups(SUBSET Consumers)
    BY <2>1, <2>2 DEF TypeOK
  <2> QED
    BY <1>6, <2>1, <2>3, NextStreamType DEF Register, TypeOK, PCs, world
<1>7. ASSUME NEW d \in DBs, NEW k \in Streams, NEW c \in Contents, ClientWrite(d, k, c)
      PROVE  TypeOK'
  <2>1. writes' \in 0 .. MaxWrites /\ lost' \subseteq DBs \X Streams
    BY <1>7, StreamInfoAssumption DEF ClientWrite, TypeOK
  <2>2. ASSUME NEW e \in DBs, NEW l \in Streams PROVE streams'[e][l] \in seen'[e][l]
    <3>1. CASE e = d /\ l = k
      BY <1>7, <3>1, ClientEffect
    <3>2. CASE e # d \/ l # k
      <4>1. streams[e][l] \in seen[e][l]
        BY DEF TypeOK
      <4> QED
        BY <1>7, <3>2, <4>1, ClientEffect
    <3> QED
      BY <3>1, <3>2
  <2> QED
    BY <1>7, <2>1, <2>2, ClientEffect DEF ClientWrite, TypeOK, entry
<1>8. CASE UNCHANGED vars
  BY <1>8 DEF vars, world, TypeOK, entry
<1> QED
  BY StreamInfoAssumption, <1>1, <1>2, <1>3, <1>4, <1>5, <1>6, <1>7, <1>8 DEF Next, Done

(* Every variable keeps its type.                                           *)
THEOREM StreamTypeCorrect == Spec => []TypeOK
BY InitType, TypeStep, PTL DEF Spec

-----------------------------------------------------------------------------
(* What is exported was so, what is always there is exported.               *)

(* The three properties, of one sample and of one stream of the list.       *)
Honest(e) ==
  /\ \E c \in Seen(e) : c # Absent /\ e.groups = Cardinality(DOMAIN c)
  /\ \A g \in DOMAIN e.members :
       \E c \in Seen(e) : Has(c, g) /\ (ExcludeConsumers \/ e.members[g] = c[g].consumers)
  /\ DOMAIN e.nacked \subseteq DOMAIN e.members

NackedRight(e) ==
  \A g \in DOMAIN e.members :
    /\ g \in DOMAIN e.nacked => \E c \in Seen(e) : Counted(c, g) /\ e.nacked[g] = c[g].nacked
    /\ AlwaysCounted(Seen(e), g) => (g \in DOMAIN e.nacked <=> <<e.entry, "FULL">> \notin failed)

Missed(i) == ~ (Kept(i) /\ Answered(i, {"SELECT", "STREAM", "GROUPS", "CONSUMERS"}))

Shown(i) ==
  \E e \in exported : e.entry = i
                      /\ \A g \in GroupNames : AlwaysHas(Seen(e), g) => g \in DOMAIN e.members

LEMMA Readings ==
  /\ NothingInvented <=> \A e \in exported : Honest(e)
  /\ NackedIfFull <=> \A e \in exported : NackedRight(e)
  /\ KeptStreamsExported <=> \A i \in 1 .. idx - 1 : Missed(i) \/ Shown(i)
BY DEF NothingInvented, Honest, NackedIfFull, NackedRight, KeptStreamsExported, Missed, Shown,
       AlwaysHas, AlwaysCounted

(* Time only adds to the history.                                           *)
Later ==
  /\ \A d \in DBs, k \in Streams : seen[d][k] \subseteq seen'[d][k]
  /\ lost \subseteq lost' /\ failed \subseteq failed' /\ exported \subseteq exported'

(* A command may fail for the stream under way only.                        *)
OwnFailures ==
  \A i \in DOMAIN StreamList \ {idx} : \A cmd :
    <<i, cmd>> \in failed' => <<i, cmd>> \in failed

LEMMA SeenLater ==
  ASSUME Later, NEW e, e.entry \in DOMAIN StreamList
  PROVE  Seen(e) \subseteq Seen(e)'
BY ListType DEF Later, Seen

LEMMA HonestStays ==
  ASSUME Later, NEW e, e.entry \in DOMAIN StreamList, Honest(e)
  PROVE  Honest(e)'
BY SeenLater DEF Honest

LEMMA NackedStays ==
  ASSUME Later, OwnFailures, NEW e, e.entry \in DOMAIN StreamList, e.entry # idx, NackedRight(e)
  PROVE  NackedRight(e)'
<1>1. \A g : AlwaysCounted(Seen(e), g)' => AlwaysCounted(Seen(e), g)
  BY SeenLater DEF AlwaysCounted
<1>2. <<e.entry, "FULL">> \in failed' <=> <<e.entry, "FULL">> \in failed
  BY DEF Later, OwnFailures
<1> QED
  BY <1>1, <1>2, SeenLater DEF NackedRight

LEMMA MissedStays ==
  ASSUME Later, NEW i \in DOMAIN StreamList, Missed(i)
  PROVE  Missed(i)'
BY ListType DEF Later, Missed, Kept, Answered

LEMMA ShownStays ==
  ASSUME TypeOK, Later, NEW i \in DOMAIN StreamList, Shown(i)
  PROVE  Shown(i)'
<1>1. PICK e \in exported :
        e.entry = i /\ \A g \in GroupNames : AlwaysHas(Seen(e), g) => g \in DOMAIN e.members
  BY DEF Shown
<1>2. e \in exported' /\ Seen(e) \subseteq Seen(e)'
  BY <1>1, SeenLater DEF Later
<1>3. \A g : AlwaysHas(Seen(e), g)' => AlwaysHas(Seen(e), g)
  BY <1>2 DEF AlwaysHas
<1> QED
  BY <1>1, <1>2, <1>3 DEF Shown

(* A step that registers nothing keeps the properties, if a stream it       *)
(* leaves has been missed for a reason.                                     *)
LEMMA ExportsStay ==
  ASSUME TypeOK, StreamInfoInv, Later, OwnFailures, UNCHANGED exported,
         NEW i, i = idx, \/ idx' = idx
                         \/ idx' = idx + 1 /\ idx <= Len(StreamList) /\ Missed(i)'
  PROVE  /\ NothingInvented' /\ KeptStreamsExported' /\ NackedIfFull'
         /\ \A e \in exported' : e.entry < idx'
<1>1. /\ \A e \in exported : Honest(e) /\ NackedRight(e) /\ e.entry < idx
      /\ \A j \in 1 .. idx - 1 : Missed(j) \/ Shown(j)
  BY Readings DEF StreamInfoInv, Settled
<1>2. idx \in 1 .. Len(StreamList) + 1 /\ Len(StreamList) \in Nat
      /\ DOMAIN StreamList = 1 .. Len(StreamList)
      /\ \A e \in exported : e.entry \in DOMAIN StreamList
  BY ListType DEF TypeOK
<1>3. \A e \in exported : Honest(e)' /\ NackedRight(e)' /\ e.entry < idx'
  <2> TAKE e \in exported
  <2>1. Honest(e)'
    BY <1>1, <1>2, HonestStays
  <2>2. e.entry # idx /\ e.entry < idx'
    BY <1>1, <1>2
  <2>3. NackedRight(e)'
    BY <1>1, <1>2, <2>2, NackedStays
  <2> QED
    BY <2>1, <2>2, <2>3
<1>4. ASSUME NEW j \in 1 .. idx' - 1 PROVE Missed(j)' \/ Shown(j)'
  <2>1. CASE j \in 1 .. idx - 1
    <3>1. Missed(j) \/ Shown(j)
      BY <1>1, <2>1
    <3>2. j \in DOMAIN StreamList
      BY <1>2, <2>1
    <3> QED
      BY <3>1, <3>2, MissedStays, ShownStays
  <2>2. CASE j = i /\ Missed(i)'
    BY <2>2
  <2> QED
    BY <1>2, <1>4, <2>1, <2>2
<1>5. NothingInvented' <=> \A e \in exported' : Honest(e)'
  BY DEF NothingInvented, Honest
<1>6. NackedIfFull' <=> \A e \in exported' : NackedRight(e)'
  BY DEF NackedIfFull, NackedRight, AlwaysCounted
<1>7. KeptStreamsExported' <=> \A j \in 1 .. idx' - 1 : Missed(j)' \/ Shown(j)'
  BY DEF KeptStreamsExported, Missed, Shown, AlwaysHas
<1> QED
  BY <1>3, <1>4, <1>5, <1>6, <1>7

(* The commands whose errors cost the stream.                               *)
Fatal == {"SELECT", "STREAM", "GROUPS", "CONSUMERS"}

(* A step of the exporter, with or without an error of its command.         *)
LEMMA ExporterFrame ==
  ASSUME TypeOK, Growing, UNCHANGED world, exported \subseteq exported',
         NEW cmd, UNCHANGED failed \/ Fails(cmd)
  PROVE  /\ Later /\ OwnFailures /\ Growing'
         /\ \A i, c : <<i, c>> \in failed' => <<i, c>> \in failed \/ (i = idx /\ c = cmd)
BY DEF world, Later, OwnFailures, Growing, Fails

(* A stream that is given up was not kept, or a command about it failed.    *)
LEMMA GivenUp ==
  ASSUME TypeOK, idx <= Len(StreamList), UNCHANGED world, NEW i, i = idx,
         \/ entry.db \notin ValidDBs
         \/ \E cmd \in Fatal : Fails(cmd)
         \/ pc # "select" /\ content = Absent
         \/ pc # "select" /\ <<sel, entry.key>> \in lost
  PROVE  Missed(i)'
<1>1. StreamList[i] = entry
  BY EntryType
<1>2. CASE entry.db \notin ValidDBs
  BY <1>1, <1>2 DEF Missed, Kept
<1>3. CASE \E cmd \in Fatal : Fails(cmd)
  <2>1. \E cmd \in Fatal : <<i, cmd>> \in failed'
    BY <1>3 DEF Fails
  <2> QED
    BY <2>1 DEF Missed, Answered, Fatal
<1>4. CASE pc # "select" /\ content = Absent
  <2>1. sel = entry.db /\ Absent \in seen[entry.db][entry.key]
    BY <1>4, UnderwayType DEF current
  <2> QED
    BY <1>1, <2>1 DEF Missed, Kept, world
<1>5. CASE pc # "select" /\ <<sel, entry.key>> \in lost
  <2>1. sel = entry.db
    BY <1>5, UnderwayType
  <2> QED
    BY <1>1, <1>5, <2>1 DEF Missed, Kept, world
<1> QED
  BY <1>2, <1>3, <1>4, <1>5

(* A step that gives the stream up.                                         *)
LEMMA SkipStep ==
  ASSUME TypeOK, StreamInfoInv, pc # "register", idx <= Len(StreamList), NextStream,
         UNCHANGED <<world, exported>>, NEW cmd \in Fatal, UNCHANGED failed \/ Fails(cmd),
         NEW i, i = idx, Missed(i)'
  PROVE  StreamInfoInv'
<1>1. pc' = "select" /\ idx' = idx + 1 /\ idx \in Nat
  BY NextStreamType, EntryType
<1>2. /\ Later /\ OwnFailures /\ Growing'
      /\ \A j, c : <<j, c>> \in failed' => <<j, c>> \in failed \/ (j = idx /\ c = cmd)
  BY ExporterFrame DEF StreamInfoInv
<1>3. /\ NothingInvented' /\ KeptStreamsExported' /\ NackedIfFull'
      /\ \A e \in exported' : e.entry < idx'
  BY <1>1, <1>2, ExportsStay
<1>4. \A j \in DOMAIN StreamList : <<j, "FULL">> \in failed' => j < idx'
  <2> SUFFICES ASSUME NEW j \in DOMAIN StreamList, <<j, "FULL">> \in failed' PROVE j < idx'
    OBVIOUS
  <2>1. <<j, "FULL">> \in failed
    BY <1>2 DEF Fatal
  <2>2. j < idx
    BY <2>1 DEF StreamInfoInv, Settled
  <2> QED
    BY <1>1, <2>2, ListType
<1>5. Underway' /\ Settled'
  BY <1>1, <1>3, <1>4 DEF Underway, Settled
<1> QED
  BY <1>2, <1>3, <1>5 DEF StreamInfoInv

(* A step that goes on with the stream.                                     *)
LEMMA GoStep ==
  ASSUME TypeOK, StreamInfoInv, pc # "register", UNCHANGED <<world, exported, idx>>,
         NEW cmd, UNCHANGED failed \/ Fails(cmd),
         cmd # "FULL" \/ pc' = "register", Underway'
  PROVE  StreamInfoInv'
<1>1. /\ Later /\ OwnFailures /\ Growing'
      /\ \A j, c : <<j, c>> \in failed' => <<j, c>> \in failed \/ (j = idx /\ c = cmd)
  BY ExporterFrame DEF StreamInfoInv
<1>2. /\ NothingInvented' /\ KeptStreamsExported' /\ NackedIfFull'
      /\ \A e \in exported' : e.entry < idx'
  BY <1>1, ExportsStay
<1>3. ASSUME NEW j \in DOMAIN StreamList, <<j, "FULL">> \in failed'
      PROVE  j < idx \/ (j = idx /\ pc' = "register")
  <2>1. <<j, "FULL">> \in failed \/ (j = idx /\ cmd = "FULL")
    BY <1>1, <1>3
  <2> QED
    BY <2>1 DEF StreamInfoInv, Settled
<1>4. Settled'
  BY <1>2, <1>3 DEF Settled
<1> QED
  BY <1>1, <1>2, <1>4 DEF StreamInfoInv

LEMMA SelectStep ==
  ASSUME TypeOK, StreamInfoInv, SelectDb
  PROVE  StreamInfoInv'
<1>1. pc = "select" /\ idx <= Len(StreamList) /\ UNCHANGED <<world, exported>> /\ "SELECT" \in Fatal
  BY DEF SelectDb, Fatal
<1>2. PICK i : i = idx
  OBVIOUS
<1>3. CASE pc' = "stream" /\ UNCHANGED <<idx, failed>>
  <2>1. Underway'
    BY <1>3 DEF Underway
  <2> QED
    BY <1>1, <1>3, <2>1, GoStep
<1>4. CASE /\ (entry.db \notin ValidDBs /\ UNCHANGED failed) \/ Fails("SELECT")
           /\ NextStream
  <2>1. Missed(i)'
    BY <1>1, <1>2, <1>4, GivenUp
  <2> QED
    BY <1>1, <1>2, <1>4, <2>1, SkipStep
<1> QED
  BY <1>3, <1>4 DEF SelectDb

LEMMA GiveUpStep ==
  ASSUME TypeOK, StreamInfoInv, pc \notin {"select", "register"}, NEW cmd \in Fatal, GiveUp(cmd),
         UNCHANGED <<world, exported>>
  PROVE  StreamInfoInv'
<1>1. idx <= Len(StreamList) /\ NextStream /\ (UNCHANGED failed \/ Fails(cmd))
  BY UnderwayType DEF GiveUp
<1>2. PICK i : i = idx
  OBVIOUS
<1>3. Missed(i)'
  BY <1>1, <1>2, GivenUp DEF GiveUp
<1> QED
  BY <1>1, <1>2, <1>3, SkipStep

LEMMA StreamStep ==
  ASSUME TypeOK, StreamInfoInv, XInfoStream
  PROVE  StreamInfoInv'
<1>1. pc = "stream" /\ UNCHANGED <<world, exported, sel>> /\ "STREAM" \in Fatal
  BY DEF XInfoStream, Fatal
<1>2. CASE Succeeds /\ groups' = parseStreamInfo /\ pc' = "groups" /\ UNCHANGED idx
  <2>1. content \in current /\ content # Absent /\ groups' = Cardinality(DOMAIN content)
    BY <1>1, <1>2, UnderwayType DEF Succeeds, parseStreamInfo
  <2>2. current' = current
    BY <1>1, <1>2 DEF current, world, entry
  <2>3. Underway'
    BY <1>2, <2>1, <2>2 DEF Underway
  <2> QED
    BY <1>1, <1>2, <2>3, GoStep DEF Succeeds
<1>3. CASE GiveUp("STREAM")
  BY <1>1, <1>3, GiveUpStep
<1> QED
  BY <1>2, <1>3 DEF XInfoStream

LEMMA GroupsStep ==
  ASSUME TypeOK, StreamInfoInv, XInfoGroups
  PROVE  StreamInfoInv'
<1>1. pc = "groups" /\ UNCHANGED <<world, exported, sel, groups>> /\ "GROUPS" \in Fatal
  BY DEF XInfoGroups, Fatal
<1>2. CASE /\ Succeeds /\ names' = SetToSeq(DOMAIN content) /\ FreshGroups
           /\ pc' = IF names' = <<>> THEN "register" ELSE "consumers"
           /\ UNCHANGED idx
  <2>1. content \in current /\ content # Absent /\ current' = current /\ UNCHANGED failed
    BY <1>1, <1>2, UnderwayType DEF Succeeds, current, world, entry
  <2>2. ToSet(names') = DOMAIN content
    BY <1>1, <1>2, <2>1, UnderwayType, ContentType, SetToSeqLists
  <2>3. nacked' = <<>> /\ DOMAIN nacked' = {} /\ members' = <<>> /\ DOMAIN members' = {}
    BY <1>2 DEF FreshGroups
  <2>4. \A g \in ToSet(names') : Has(content, g)
    BY <2>1, <2>2 DEF Has
  <2>5. \A g \in GroupNames : AlwaysHas(current, g) => g \in ToSet(names')
    BY <2>1, <2>2 DEF AlwaysHas, Has
  <2>6. pc' = "register" => ToSet(names') = {}
    BY <1>2, ToSetEmpty
  <2>7. \E c \in current : c # Absent /\ groups = Cardinality(DOMAIN c)
    BY <1>1 DEF StreamInfoInv, Underway
  <2>8. Underway'
    BY <1>1, <1>2, <2>1, <2>3, <2>4, <2>5, <2>6, <2>7 DEF Underway, AlwaysHas
  <2> QED
    BY <1>1, <1>2, <2>1, <2>8, GoStep
<1>3. CASE GiveUp("GROUPS")
  BY <1>1, <1>3, GiveUpStep
<1> QED
  BY <1>2, <1>3 DEF XInfoGroups

LEMMA ConsumersStep ==
  ASSUME TypeOK, StreamInfoInv, XInfoConsumers
  PROVE  StreamInfoInv'
<1>1. pc = "consumers" /\ UNCHANGED <<world, exported, sel, groups, names, nacked>>
      /\ "CONSUMERS" \in Fatal /\ idx <= Len(StreamList)
  BY UnderwayType DEF XInfoConsumers, Fatal
<1>2. Underway /\ Growing
  BY DEF StreamInfoInv
<1>3. CASE /\ Succeeds /\ group \in DOMAIN content
           /\ members' = Append(members, content[group].consumers)
           /\ pc' = IF LastConsumers THEN "full" ELSE "consumers"
           /\ UNCHANGED idx
  <2>1. content \in current /\ Has(content, group) /\ current' = current /\ UNCHANGED failed
    BY <1>1, <1>3, UnderwayType DEF Succeeds, Has, current, world, entry
  <2>2. members \in Seq(SUBSET Consumers) /\ content[group].consumers \in SUBSET Consumers
    BY <1>1, <1>3, UnderwayType, ContentType DEF TypeOK, Succeeds, Group
  <2>3. /\ Len(members) \in Nat /\ DOMAIN members = 1 .. Len(members)
        /\ DOMAIN members' = 1 .. Len(members) + 1
        /\ \A i \in 1 .. Len(members) : members'[i] = members[i]
        /\ members'[Len(members) + 1] = content[names[Len(members) + 1]].consumers
    BY <1>3, <2>2, AppendProperties, LenProperties DEF group
  <2>4. ASSUME NEW i \in DOMAIN members'
        PROVE  \E c \in current : Has(c, names[i]) /\ members'[i] = c[names[i]].consumers
    <3>1. CASE i \in DOMAIN members
      BY <1>1, <1>2, <2>3, <3>1 DEF Underway
    <3>2. CASE i = Len(members) + 1
      BY <2>1, <2>3, <3>2 DEF group
    <3> QED
      BY <2>3, <3>1, <3>2
  <2>5. /\ \E c \in current : c # Absent /\ groups = Cardinality(DOMAIN c)
        /\ \A g \in ToSet(names) : \E c \in current : Has(c, g)
        /\ \A g \in GroupNames : AlwaysHas(current, g) => g \in ToSet(names)
        /\ nacked = <<>>
    BY <1>1, <1>2 DEF Underway
  <2>6. Underway'
    BY <1>1, <1>3, <2>1, <2>4, <2>5 DEF Underway, AlwaysHas
  <2>7. pc # "register" /\ UNCHANGED <<world, exported, idx>> /\ UNCHANGED failed
    BY <1>1, <1>3, <2>1
  <2> QED
    BY <1>1, <2>6, <2>7, GoStep DEF Fatal
<1>4. CASE GiveUp("CONSUMERS")
  BY <1>1, <1>4, GiveUpStep
<1>5. CASE content # Absent /\ group \notin DOMAIN content /\ NextStream /\ UNCHANGED failed
  <2>1. PICK i : i = idx
    OBVIOUS
  <2>2. group \in ToSet(names)
    <3>1. names \in Seq(GroupNames) /\ Len(members) \in Nat /\ Len(members) < Len(names)
      BY <1>1, LenProperties DEF TypeOK
    <3>2. Len(members) + 1 \in 1 .. Len(names) /\ DOMAIN names = 1 .. Len(names)
      BY <3>1, LenProperties
    <3> QED
      BY <3>2 DEF ToSet, group
  <2>3. PICK c \in current : Has(c, group)
    BY <1>1, <1>2, <2>2 DEF Underway
  <2>4. Absent \in current \/ <<sel, entry.key>> \in lost
    BY <1>1, <1>2, <1>5, <2>3, UnderwayType DEF Growing, current, content, Has
  <2>5. Missed(i)'
    <3>1. CASE <<sel, entry.key>> \in lost
      BY <1>1, <2>1, <3>1, GivenUp
    <3>2. CASE Absent \in current
      <4>1. StreamList[i] = entry /\ sel = entry.db
        BY <1>1, <2>1, UnderwayType
      <4> QED
        BY <1>1, <3>2, <4>1 DEF Missed, Kept, world, current
    <3> QED
      BY <2>4, <3>1, <3>2
  <2> QED
    BY <1>1, <1>5, <2>1, <2>5, SkipStep
<1> QED
  BY <1>3, <1>4, <1>5 DEF XInfoConsumers

LEMMA FullStep ==
  ASSUME TypeOK, StreamInfoInv, XInfoFull
  PROVE  StreamInfoInv'
<1>1. pc = "full" /\ UNCHANGED <<world, exported, sel, groups, names, members>>
      /\ pc' = "register" /\ UNCHANGED idx /\ idx \in DOMAIN StreamList
  BY UnderwayType DEF XInfoFull, FullFailed
<1>2. Underway /\ Settled
  BY DEF StreamInfoInv
<1>3. content \in current /\ current' = current
  BY <1>1, UnderwayType DEF current, world, entry
<1>4. nacked = <<>> /\ DOMAIN nacked = {} /\ <<idx, "FULL">> \notin failed
  BY <1>1, <1>2, EntryType, UnderwayType DEF Underway, Settled
<1>5. CASE Succeeds /\ nacked' = NackedCounts
  <2>1. content \in Contents /\ content # Absent
    BY <1>1, <1>5, UnderwayType DEF Succeeds
  <2>2. /\ DOMAIN nacked' = {g \in ToSet(names) : Counted(content, g)}
        /\ \A g \in DOMAIN nacked' : nacked'[g] = content[g].nacked
    BY <1>5, <2>1, CountsType
  <2>3. /\ DOMAIN nacked' \subseteq ToSet(names)
        /\ \A g \in DOMAIN nacked' : \E c \in current : Counted(c, g) /\ nacked'[g] = c[g].nacked
        /\ \A g \in ToSet(names) : AlwaysCounted(current, g) => g \in DOMAIN nacked'
    BY <1>3, <2>2 DEF AlwaysCounted
  <2>4. Underway'
    BY <1>1, <1>2, <1>3, <1>4, <1>5, <2>3 DEF Underway, AlwaysHas, AlwaysCounted, Succeeds
  <2> QED
    BY <1>1, <1>5, <2>4, GoStep DEF Succeeds
<1>6. CASE content = Absent /\ UNCHANGED <<failed, nacked>>
  <2>1. \A g : ~ AlwaysCounted(current, g)
    BY <1>3, <1>6 DEF AlwaysCounted, Counted, Has
  <2>2. Underway'
    BY <1>1, <1>2, <1>3, <1>4, <1>6, <2>1 DEF Underway, AlwaysHas, AlwaysCounted
  <2> QED
    BY <1>1, <1>6, <2>2, GoStep
<1>7. CASE Fails("FULL") /\ UNCHANGED nacked
  <2>1. <<idx, "FULL">> \in failed'
    BY <1>7 DEF Fails
  <2>2. Underway'
    BY <1>1, <1>2, <1>3, <1>4, <1>7, <2>1 DEF Underway, AlwaysHas, AlwaysCounted
  <2> QED
    BY <1>1, <1>7, <2>2, GoStep
<1> QED
  BY <1>5, <1>6, <1>7 DEF XInfoFull

(* Registering the stream: what was told of it is what is exported.         *)
LEMMA RegisterStep ==
  ASSUME TypeOK, StreamInfoInv, Register
  PROVE  StreamInfoInv'
<1>1. pc = "register" /\ UNCHANGED <<world, failed>> /\ idx \in DOMAIN StreamList /\ idx \in Nat
      /\ StreamList[idx] = entry /\ sel = entry.db /\ idx' = idx + 1 /\ pc' = "select"
  BY UnderwayType DEF Register, NextStream
<1>2. PICK e : /\ exported' = exported \cup {e}
               /\ e.entry = idx /\ e.groups = groups /\ e.nacked = nacked
               /\ e.members \in OfGroups(SUBSET Consumers) /\ DOMAIN e.members = ToSet(names)
               /\ \A g \in ToSet(names) :
                    ExcludeConsumers \/ \E i \in DOMAIN members :
                                           names[i] = g /\ e.members[g] = members[i]
  BY RegisterEffect
<1>3. Underway /\ Settled /\ Growing
  BY DEF StreamInfoInv
<1>4. Seen(e) = current /\ Seen(e)' = current
  BY <1>1, <1>2 DEF Seen, current, world
<1>5. Honest(e)'
  <2>1. \E c \in current : c # Absent /\ groups = Cardinality(DOMAIN c)
    BY <1>1, <1>3 DEF Underway
  <2>2. ASSUME NEW g \in ToSet(names)
        PROVE  \E c \in current : Has(c, g) /\ (ExcludeConsumers \/ e.members[g] = c[g].consumers)
    BY <1>1, <1>2, <1>3, <2>2 DEF Underway
  <2>3. DOMAIN nacked \subseteq ToSet(names)
    BY <1>1, <1>3 DEF Underway
  <2> QED
    BY <1>2, <1>4, <2>1, <2>2, <2>3 DEF Honest
<1>6. NackedRight(e)'
  <2>1. /\ \A g \in DOMAIN nacked : \E c \in current : Counted(c, g) /\ nacked[g] = c[g].nacked
        /\ \A g \in ToSet(names) :
             AlwaysCounted(current, g) => (g \in DOMAIN nacked <=> <<idx, "FULL">> \notin failed)
    BY <1>1, <1>3 DEF Underway
  <2>2. \A g : AlwaysCounted(Seen(e), g)' <=> AlwaysCounted(current, g)
    BY <1>4 DEF AlwaysCounted
  <2>3. \A g \in ToSet(names) :
          AlwaysCounted(Seen(e), g)' =>
            (g \in DOMAIN nacked <=> <<idx, "FULL">> \notin failed')
    BY <1>1, <2>1, <2>2
  <2> QED
    BY <1>2, <1>4, <2>1, <2>3 DEF NackedRight
<1>7. PICK i : i = idx
  OBVIOUS
<1>8. Shown(i)'
  <2>1. \A g \in GroupNames : AlwaysHas(current, g) => g \in ToSet(names)
    BY <1>1, <1>3 DEF Underway
  <2>2. \A g \in GroupNames : AlwaysHas(Seen(e), g)' => g \in DOMAIN e.members
    BY <1>2, <1>4, <2>1 DEF AlwaysHas
  <2> QED
    BY <1>2, <1>7, <2>2 DEF Shown
<1>9. Later /\ OwnFailures /\ Growing'
  BY <1>1, <1>2, <1>3 DEF world, Later, OwnFailures, Growing
<1>10. /\ \A x \in exported : Honest(x) /\ NackedRight(x) /\ x.entry < idx
                              /\ x.entry \in DOMAIN StreamList /\ x.entry \in Nat
       /\ \A j \in 1 .. idx - 1 : Missed(j) \/ Shown(j)
  BY Readings, ListType DEF StreamInfoInv, Settled, TypeOK
<1>11. \A x \in exported' : Honest(x)' /\ NackedRight(x)' /\ x.entry < idx'
  <2> TAKE x \in exported'
  <2>1. CASE x \in exported
    <3>1. Honest(x)' /\ x.entry # idx /\ x.entry < idx'
      BY <1>1, <1>9, <1>10, <2>1, HonestStays
    <3>2. NackedRight(x)'
      BY <1>9, <1>10, <2>1, <3>1, NackedStays
    <3> QED
      BY <3>1, <3>2
  <2>2. CASE x = e
    BY <1>1, <1>2, <1>5, <1>6, <2>2
  <2> QED
    BY <1>2, <2>1, <2>2
<1>12. ASSUME NEW j \in 1 .. idx' - 1 PROVE Missed(j)' \/ Shown(j)'
  <2>1. CASE j \in 1 .. idx - 1
    <3>1. (Missed(j) \/ Shown(j)) /\ j \in DOMAIN StreamList
      BY <1>1, <1>10, <2>1, ListType
    <3> QED
      BY <1>9, <3>1, MissedStays, ShownStays
  <2>2. CASE j = i
    BY <1>8, <2>2
  <2> QED
    BY <1>1, <1>7, <1>12, <2>1, <2>2
<1>13. NothingInvented'
  BY <1>11 DEF NothingInvented, Honest
<1>14. NackedIfFull'
  BY <1>11 DEF NackedIfFull, NackedRight, AlwaysCounted
<1>15. KeptStreamsExported'
  BY <1>12 DEF KeptStreamsExported, Missed, Shown, AlwaysHas
<1>16. Underway'
  BY <1>1 DEF Underway
<1>17. Settled'
  BY <1>1, <1>3, <1>11, ListType DEF Settled
<1> QED
  BY <1>9, <1>13, <1>14, <1>15, <1>16, <1>17 DEF StreamInfoInv

(* Another client changes a stream: the history grows, and a stream that    *)
(* loses a group is lost.                                                   *)
LEMMA ClientGrowing ==
  ASSUME TypeOK, Growing, NEW d \in DBs, NEW k \in Streams, NEW c \in Contents, ClientWrite(d, k, c)
  PROVE  Growing'
<1> SUFFICES ASSUME NEW e \in DBs, NEW l \in Streams,
                    Absent \notin seen'[e][l], <<e, l>> \notin lost',
                    NEW b \in seen'[e][l]
             PROVE  DOMAIN b \subseteq DOMAIN streams'[e][l]
  BY DEF Growing
<1>1. <<e, l>> \notin lost
  BY DEF ClientWrite
<1>2. CASE e # d \/ l # k
  BY <1>1, <1>2, ClientEffect DEF Growing
<1>3. CASE e = d /\ l = k
  <2>1. /\ streams'[e][l] = c /\ seen'[e][l] = seen[d][k] \cup {c}
    BY <1>3, ClientEffect
  <2>2. streams[d][k] \in seen[d][k] /\ streams[d][k] # Absent /\ c # Absent
    BY <2>1 DEF TypeOK
  <2>3. DOMAIN streams[d][k] \subseteq DOMAIN c
    BY <1>3, <2>2 DEF ClientWrite
  <2>4. b \in seen[d][k] => DOMAIN b \subseteq DOMAIN streams[d][k]
    BY <1>1, <1>3, <2>1 DEF Growing
  <2> QED
    BY <2>1, <2>3, <2>4
<1> QED
  BY <1>2, <1>3

LEMMA ClientStep ==
  ASSUME TypeOK, StreamInfoInv, NEW d \in DBs, NEW k \in Streams, NEW c \in Contents,
         ClientWrite(d, k, c)
  PROVE  StreamInfoInv'
<1>1. UNCHANGED <<sel, pc, idx, groups, names, members, nacked, exported, failed>>
  BY DEF ClientWrite
<1>2. \A e \in DBs, l \in Streams : seen[e][l] \subseteq seen'[e][l]
  <2> TAKE e \in DBs, l \in Streams
  <2>1. CASE e = d /\ l = k
    BY <2>1, ClientEffect
  <2>2. CASE e # d \/ l # k
    BY <2>2, ClientEffect
  <2> QED
    BY <2>1, <2>2
<1>3. Later /\ OwnFailures
  BY <1>1, <1>2 DEF Later, OwnFailures, ClientWrite
<1>4. Growing'
  BY ClientGrowing DEF StreamInfoInv
<1>5. NothingInvented' /\ KeptStreamsExported' /\ NackedIfFull'
  <2>1. PICK i : i = idx
    OBVIOUS
  <2> QED
    BY <1>1, <1>3, <2>1, ExportsStay
<1>6. Settled'
  BY <1>1 DEF StreamInfoInv, Settled
<1>7. Underway'
  <2>1. CASE pc = "select"
    BY <1>1, <2>1 DEF Underway
  <2>2. CASE pc # "select"
    <3>1. current \subseteq current'
      BY <1>1, <1>2, <2>2, UnderwayType DEF current, entry
    <3>2. \A g : AlwaysHas(current', g) => AlwaysHas(current, g)
      BY <3>1 DEF AlwaysHas
    <3>3. \A g : /\ AlwaysHas(current, g)' <=> AlwaysHas(current', g)
                 /\ AlwaysCounted(current, g)' => AlwaysCounted(current, g)
      BY <3>1 DEF AlwaysHas, AlwaysCounted
    <3>4. Underway
      BY DEF StreamInfoInv
    <3> QED
      BY <1>1, <3>1, <3>2, <3>3, <3>4 DEF Underway
  <2> QED
    BY <2>1, <2>2
<1> QED
  BY <1>4, <1>5, <1>6, <1>7 DEF StreamInfoInv

LEMMA InvStays ==
  ASSUME TypeOK, StreamInfoInv, UNCHANGED vars
  PROVE  StreamInfoInv'
<1>1. Growing'
  BY DEF StreamInfoInv, vars, world, Growing
<1>2. Underway'
  BY DEF StreamInfoInv, vars, world, Underway, AlwaysHas, AlwaysCounted, current, entry
<1>3. Settled'
  BY DEF StreamInfoInv, vars, Settled
<1>4. Later /\ OwnFailures /\ UNCHANGED <<idx, exported>>
  BY DEF vars, world, Later, OwnFailures
<1>5. NothingInvented' /\ KeptStreamsExported' /\ NackedIfFull'
  <2>1. PICK i : i = idx
    OBVIOUS
  <2> QED
    BY <1>4, <2>1, ExportsStay
<1> QED
  BY <1>1, <1>2, <1>3, <1>5 DEF StreamInfoInv

LEMMA InvInit == Init => StreamInfoInv
<1> SUFFICES ASSUME Init PROVE StreamInfoInv
  OBVIOUS
<1>1. \A d \in DBs, k \in Streams : seen[d][k] = {streams[d][k]}
  BY DEF Init
<1>2. Growing
  BY <1>1 DEF Growing
<1>3. Underway /\ Settled
  BY DEF Init, Underway, Settled
<1>4. NothingInvented /\ KeptStreamsExported /\ NackedIfFull
  BY DEF Init, NothingInvented, KeptStreamsExported, NackedIfFull
<1> QED
  BY <1>2, <1>3, <1>4 DEF StreamInfoInv

LEMMA InvStep == TypeOK /\ StreamInfoInv /\ [Next]_vars => StreamInfoInv'
<1> SUFFICES ASSUME TypeOK, StreamInfoInv, [Next]_vars PROVE StreamInfoInv'
  OBVIOUS
<1>1. CASE SelectDb
  BY <1>1, SelectStep
<1>2. CASE XInfoStream
  BY <1>2, StreamStep
<1>3. CASE XInfoGroups
  BY <1>3, GroupsStep
<1>4. CASE XInfoConsumers
  BY <1>4, ConsumersStep
<1>5. CASE XInfoFull
  BY <1>5, FullStep
<1>6. CASE Register
  BY <1>6, RegisterStep
<1>7. CASE \E d \in DBs, k \in Streams, c \in Written : ClientWrite(d, k, c)
  BY <1>7, ClientStep, StreamInfoAssumption
<1>8. CASE UNCHANGED vars
  BY <1>8, InvStays
<1> QED
  BY <1>1, <1>2, <1>3, <1>4, <1>5, <1>6, <1>7, <1>8 DEF Next, Done

(* The inductive invariant.                                                 *)
THEOREM StreamInfoInvariant == Spec => []StreamInfoInv
<1>1. Init => TypeOK /\ StreamInfoInv
  BY InitType, InvInit
<1>2. (TypeOK /\ StreamInfoInv) /\ [Next]_vars => (TypeOK /\ StreamInfoInv)'
  BY TypeStep, InvStep
<1> QED
  BY <1>1, <1>2, PTL DEF Spec

(* Though XINFO STREAM, GROUPS, CONSUMERS and STREAM FULL see a stream at   *)
(* different moments, getStreamInfo returns no group, consumer or count     *)
(* that was not so of that very stream at one of them.                      *)
THEOREM NothingInventedCorrect == Spec => []NothingInvented
<1>1. StreamInfoInv => NothingInvented
  BY DEF StreamInfoInv
<1> QED
  BY <1>1, StreamInfoInvariant, PTL

(* A stream that is there all along and loses no group is exported with     *)
(* every group that was there all along, unless SELECT, XINFO STREAM,       *)
(* GROUPS or CONSUMERS returned an error for it.                            *)
THEOREM KeptStreamsCorrect == Spec => []KeptStreamsExported
<1>1. StreamInfoInv => KeptStreamsExported
  BY DEF StreamInfoInv
<1> QED
  BY <1>1, StreamInfoInvariant, PTL

(* A count of NACKed entries is one the group itself had while its entry in *)
(* XINFO STREAM FULL had the field; a group with a name that had a count    *)
(* all along is exported with one exactly if FULL answered for its stream.  *)
THEOREM NackedCorrect == Spec => []NackedIfFull
<1>1. StreamInfoInv => NackedIfFull
  BY DEF StreamInfoInv
<1> QED
  BY <1>1, StreamInfoInvariant, PTL

=============================================================================
