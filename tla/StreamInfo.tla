------------------------------ MODULE StreamInfo ------------------------------
(***************************************************************************)
(* extractStreamMetrics and getStreamInfo: a stream is sampled with one     *)
(* XINFO STREAM, one XINFO GROUPS, one XINFO CONSUMERS for each group and,  *)
(* for the NACKed counts, one XINFO STREAM FULL.  Between any two of them   *)
(* other clients create and delete streams, groups and consumers, and each  *)
(* of them may fail.                                                        *)
(***************************************************************************)
EXTENDS Naturals, FiniteSets, Sequences, SequencesExt, Functions

CONSTANTS
  DBs, ValidDBs,     \* the databases named in the options, those the server has
  Streams,           \* stream names
  GroupNames,        \* names of consumer groups
  Unnamed,           \* the empty name
  Consumers,         \* names of consumers
  Counts,            \* values of nacked-count
  NoCount,           \* a group whose entry in FULL has no nacked-count
  Absent,            \* there is no such stream
  StreamList,        \* allStreams, as KeyList makes it: pairs of a database and a stream
  ExcludeConsumers,  \* StreamsExcludeConsumerMetrics
  Faults,            \* may a command fail?
  InitContents,      \* bound: what the databases hold when the scrape begins
  Written,           \* bound: what other clients make of a stream
  MaxWrites          \* bound: changes of a stream by other clients

\* a map from the names of some groups
OfGroups(S) == UNION {[G -> S] : G \in SUBSET GroupNames}

\* servers before 8.8 have no nacked-count
Group == [consumers : SUBSET Consumers, nacked : Counts \cup {NoCount}]

Contents == {Absent} \cup OfGroups(Group)

Store == [DBs -> [Streams -> Contents]]

\* a name is at most 512 MB long: there are finitely many
ASSUME StreamInfoAssumption ==
  /\ ValidDBs \subseteq DBs /\ ValidDBs # {}
  /\ IsFiniteSet(GroupNames)
  /\ NoCount \notin Counts
  /\ StreamList \in Seq([db : DBs, key : Streams])
  /\ ExcludeConsumers \in BOOLEAN /\ Faults \in BOOLEAN
  /\ InitContents \subseteq Store
  /\ \A s \in InitContents : \A d \in DBs \ ValidDBs : \A k \in Streams : s[d][k] = Absent
  /\ Written \subseteq Contents /\ MaxWrites \in Nat

VARIABLES
  streams,   \* what each database holds
  seen,      \* auxiliary: what each stream has been since the scrape began
  lost,      \* auxiliary: the streams that have lost a group, or been deleted
  writes,    \* changes by other clients so far
  sel,       \* the database selected on the connection
  pc,        \* the next command
  idx,       \* index into StreamList
  groups,    \* `groups` of XINFO STREAM
  names,     \* the groups of XINFO GROUPS, in order
  members,   \* StreamGroupConsumersInfo of the groups done so far
  nacked,    \* NackedCount of the groups with NackedCountAvailable
  exported,  \* what has been registered
  failed     \* auxiliary: the commands that failed though the stream was there

world == <<streams, seen, lost, writes>>
vars == <<world, sel, pc, idx, groups, names, members, nacked, exported, failed>>

PCs == {"select", "stream", "groups", "consumers", "full", "register"}

entry == StreamList[idx]

content == streams[sel][entry.key]

-----------------------------------------------------------------------------
Init ==
  /\ streams \in InitContents
  /\ seen = [d \in DBs |-> [k \in Streams |-> {streams[d][k]}]]
  /\ lost = {} /\ writes = 0
  /\ sel \in ValidDBs
  /\ pc = "select" /\ idx = 1
  /\ groups = 0 /\ names = <<>> /\ members = <<>> /\ nacked = <<>>
  /\ exported = {} /\ failed = {}

ClientWrite(d, k, c) ==
  /\ writes < MaxWrites /\ d \in ValidDBs
  /\ c # streams[d][k]
  /\ writes' = writes + 1
  /\ streams' = [streams EXCEPT ![d][k] = c]
  /\ seen' = [seen EXCEPT ![d][k] = @ \cup {c}]
  /\ lost' = IF /\ streams[d][k] # Absent
                /\ c = Absent \/ ~ (DOMAIN streams[d][k] \subseteq DOMAIN c)
             THEN lost \cup {<<d, k>>} ELSE lost
  /\ UNCHANGED <<sel, pc, idx, groups, names, members, nacked, exported, failed>>

-----------------------------------------------------------------------------
Fails(cmd) == Faults /\ failed' = failed \cup {<<idx, cmd>>}

(* The commands about a stream that is not there fail.                      *)
Succeeds == content # Absent /\ UNCHANGED failed

NextStream == idx' = idx + 1 /\ pc' = "select"

SelectForgotten == entry.db \in ValidDBs /\ UNCHANGED sel

Select == entry.db \in ValidDBs /\ sel' = entry.db

SelectDb ==
  /\ pc = "select" /\ idx <= Len(StreamList)
  /\ \/ /\ Select
        /\ pc' = "stream"
        /\ UNCHANGED <<idx, failed>>
     \/ /\ (entry.db \notin ValidDBs /\ UNCHANGED failed) \/ Fails("SELECT")
        /\ NextStream
        /\ UNCHANGED sel
  /\ UNCHANGED <<world, groups, names, members, nacked, exported>>

(* Any error but that of FULL gives the whole stream up.                    *)
GiveUp(cmd) ==
  /\ (content = Absent /\ UNCHANGED failed) \/ Fails(cmd)
  /\ NextStream

(* Of the fields of the answer only `groups` is told apart.                 *)
parseStreamInfo == Cardinality(DOMAIN content)

XInfoStream ==
  /\ pc = "stream"
  /\ \/ /\ Succeeds
        /\ groups' = parseStreamInfo
        /\ pc' = "groups"
        /\ UNCHANGED idx
     \/ GiveUp("STREAM") /\ UNCHANGED groups
  /\ UNCHANGED <<world, sel, names, members, nacked, exported>>

(* `result` is a new slice, its groups new structs, for every stream.        *)
FreshGroups == members' = <<>> /\ nacked' = <<>>

XInfoGroups ==
  /\ pc = "groups"
  /\ \/ /\ Succeeds
        /\ names' = SetToSeq(DOMAIN content)
        /\ FreshGroups
        /\ pc' = IF names' = <<>> THEN "register" ELSE "consumers"
        /\ UNCHANGED idx
     \/ GiveUp("GROUPS") /\ UNCHANGED <<names, members, nacked>>
  /\ UNCHANGED <<world, sel, groups, exported>>

group == names[Len(members) + 1]

LastConsumers == Len(members) + 1 = Len(names)

XInfoConsumers ==
  /\ pc = "consumers"
  /\ \/ /\ Succeeds /\ group \in DOMAIN content
        /\ members' = Append(members, content[group].consumers)
        /\ pc' = IF LastConsumers THEN "full" ELSE "consumers"
        /\ UNCHANGED idx
     \/ /\ \/ GiveUp("CONSUMERS")
           \/ /\ content # Absent /\ group \notin DOMAIN content
              /\ NextStream /\ UNCHANGED failed
        /\ UNCHANGED members
  /\ UNCHANGED <<world, sel, groups, names, nacked, exported>>

(* A group of the answer has a count if its entry has a name and the field. *)
CountsWithoutField ==
  [g \in DOMAIN content \ {Unnamed} |->
     IF content[g].nacked = NoCount THEN 0 ELSE content[g].nacked]

parseStreamGroupNackedCounts ==
  [g \in {x \in DOMAIN content \ {Unnamed} : content[x].nacked # NoCount} |-> content[g].nacked]

(* The counts are given by name to the groups of XINFO GROUPS.              *)
NackedCounts ==
  Restrict(parseStreamGroupNackedCounts,
           ToSet(names) \cap DOMAIN parseStreamGroupNackedCounts)

(* An error of FULL, or an answer that does not parse, costs nothing else.  *)
FullFailedStops == NextStream

FullFailed == pc' = "register" /\ UNCHANGED idx

XInfoFull ==
  /\ pc = "full"
  /\ \/ /\ Succeeds
        /\ nacked' = NackedCounts
        /\ pc' = "register"
        /\ UNCHANGED idx
     \/ /\ (content = Absent /\ UNCHANGED failed) \/ Fails("FULL")
        /\ FullFailed
        /\ UNCHANGED nacked
  /\ UNCHANGED <<world, sel, groups, names, members, exported>>

(* What getStreamInfo returns: the stream, its groups, their consumers.     *)
streamInfo ==
  [entry |-> idx, groups |-> groups, nacked |-> nacked,
   members |-> [g \in ToSet(names) |-> members[CHOOSE i \in DOMAIN names : names[i] = g]]]

Register ==
  /\ pc = "register"
  /\ exported' = exported \cup
       {IF ExcludeConsumers THEN [streamInfo EXCEPT !.members = [g \in ToSet(names) |-> {}]]
        ELSE streamInfo}
  /\ NextStream
  /\ UNCHANGED <<world, sel, groups, names, members, nacked, failed>>

Done == pc = "select" /\ idx > Len(StreamList) /\ UNCHANGED vars

Next ==
  \/ SelectDb \/ XInfoStream \/ XInfoGroups \/ XInfoConsumers \/ XInfoFull \/ Register
  \/ \E d \in DBs, k \in Streams, c \in Written : ClientWrite(d, k, c)
  \/ Done

Spec == Init /\ [][Next]_vars

-----------------------------------------------------------------------------
(* The types of the variables.                                              *)
TypeOK ==
  /\ streams \in Store
  /\ seen \in [DBs -> [Streams -> SUBSET Contents]]
  /\ \A d \in DBs, k \in Streams : streams[d][k] \in seen[d][k]
  /\ lost \subseteq DBs \X Streams
  /\ writes \in 0 .. MaxWrites
  /\ sel \in ValidDBs /\ pc \in PCs /\ idx \in 1 .. Len(StreamList) + 1
  /\ pc # "select" => idx <= Len(StreamList) /\ sel = entry.db
  /\ groups \in Nat /\ names \in Seq(GroupNames) /\ members \in Seq(SUBSET Consumers)
  /\ pc = "consumers" => Len(members) < Len(names)
  /\ pc \in {"full", "register"} => Len(members) = Len(names)
  /\ nacked \in OfGroups(Counts)
  /\ \A e \in exported : /\ e.entry \in DOMAIN StreamList
                         /\ e.members \in OfGroups(SUBSET Consumers)
  /\ failed \subseteq (DOMAIN StreamList) \X {"SELECT", "STREAM", "GROUPS", "CONSUMERS", "FULL"}

Seen(e) == seen[StreamList[e.entry].db][StreamList[e.entry].key]

Has(c, g) == c # Absent /\ g \in DOMAIN c

(* Though the commands see different moments, nothing is exported of a      *)
(* stream that was not so at one of them: its groups were groups of that    *)
(* very stream of that very database, their consumers consumers of that     *)
(* very group, and stream_groups counts its groups.                         *)
NothingInvented ==
  \A e \in exported :
    /\ \E c \in Seen(e) : c # Absent /\ e.groups = Cardinality(DOMAIN c)
    /\ \A g \in DOMAIN e.members :
         \E c \in Seen(e) : Has(c, g) /\ (ExcludeConsumers \/ e.members[g] = c[g].consumers)
    /\ DOMAIN e.nacked \subseteq DOMAIN e.members

(* A stream that is there all along and loses no group is exported with     *)
(* every group that was there all along, whatever becomes of other streams, *)
(* whatever is created meanwhile and whether or not FULL answers; only an   *)
(* error of another command about this stream costs it.                     *)
Answered(i, cmds) == \A cmd \in cmds : <<i, cmd>> \notin failed

Kept(i) == LET d == StreamList[i].db
               k == StreamList[i].key
           IN d \in ValidDBs /\ Absent \notin seen[d][k] /\ <<d, k>> \notin lost

KeptStreamsExported ==
  \A i \in 1 .. idx - 1 :
    Kept(i) /\ Answered(i, {"SELECT", "STREAM", "GROUPS", "CONSUMERS"}) =>
      \E e \in exported :
        /\ e.entry = i
        /\ \A g \in GroupNames : (\A c \in Seen(e) : Has(c, g)) => g \in DOMAIN e.members

(* A count of NACKed entries is one that very group had, at a moment when   *)
(* its entry had the field: never another stream's, and never a zero for a  *)
(* server that does not count.  A group with a name that had a count all    *)
(* along is exported with one exactly if FULL answered for its stream.      *)
Counted(c, g) == Has(c, g) /\ g # Unnamed /\ c[g].nacked # NoCount

NackedIfFull ==
  \A e \in exported : \A g \in DOMAIN e.members :
    /\ g \in DOMAIN e.nacked =>
         \E c \in Seen(e) : Counted(c, g) /\ e.nacked[g] = c[g].nacked
    /\ (\A c \in Seen(e) : Counted(c, g)) =>
         (g \in DOMAIN e.nacked <=> <<e.entry, "FULL">> \notin failed)
=============================================================================
