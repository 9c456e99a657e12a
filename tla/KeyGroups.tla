------------------------------ MODULE KeyGroups ------------------------------
(***************************************************************************)
(* gatherKeyGroupsMetricsForAllDatabases and gatherKeyGroupMetrics: for     *)
(* each database the whole key space is SCANned in batches, each batch      *)
(* classified by one run of a Lua script, which is atomic; between two      *)
(* batches other clients create and delete keys.  The exporter adds the     *)
(* batches up by group and folds the groups beyond MaxDistinctKeyGroups     *)
(* into one.                                                                *)
(***************************************************************************)
EXTENDS Naturals, FiniteSets, Sequences, SequencesExt

CONSTANTS
  DbCount,               \* databases 0 .. DbCount - 1 are scanned
  ValidDBs,              \* those the server has
  Keys,                  \* key names
  Group,                 \* the group the patterns put a key in
  GroupNames,            \* names of groups, in the order of Go's strings
  Usage,                 \* MEMORY USAGE of a key
  DeniedKeys,            \* keys MEMORY USAGE is refused for
  MaxDistinctKeyGroups,
  Faults,                \* may a command fail?
  MaxReply,              \* bound: keys in one batch
  MaxCalls,              \* bound: batches of one database
  MaxWrites              \* bound: keys created or deleted during the scrape

DBs == 0 .. DbCount - 1

Groups == ToSet(GroupNames)

ASSUME KeyGroupsAssumption ==
  /\ DbCount \in Nat /\ ValidDBs \subseteq Nat
  /\ IsFiniteSet(Keys)
  /\ Group \in [Keys -> Groups]
  /\ GroupNames \in Seq(Groups) /\ IsInjective(GroupNames)
  /\ Usage \in [Keys -> Nat]
  /\ DeniedKeys \subseteq Keys
  /\ MaxDistinctKeyGroups \in Nat
  /\ Faults \in BOOLEAN
  /\ MaxReply \in Nat /\ MaxCalls \in Nat /\ MaxWrites \in Nat

VARIABLES
  present,    \* the keys in each database
  always,     \* auxiliary: the keys each database has had all along
  writes,     \* keys created or deleted so far
  owed,       \* what the server's SCAN must still return
  pc,         \* where the exporter is
  db,         \* the database of the loop
  calls,      \* batches of this database so far
  allGroups,  \* metrics by group, of gatherKeyGroupMetrics
  returned,   \* auxiliary: the keys in the batches so far, in order
  exported    \* by database: what is exported, or NotScanned

server == <<present, always, writes>>
vars == <<server, owed, pc, db, calls, allGroups, returned, exported>>

NotScanned == [scanned |-> FALSE, groups |-> {}, distinct |-> 0, returned |-> <<>>]

-----------------------------------------------------------------------------
(* The script: count and usage by group.  `usage` keeps its value when      *)
(* MEMORY USAGE of a key answers with no number.                            *)
ReadUsage(acc, k) == IF k \in DeniedKeys THEN acc.usage ELSE Usage[k]

Add(f, g, n, m) ==
  IF g \in DOMAIN f
  THEN [f EXCEPT ![g] = [count |-> @.count + n, memory |-> @.memory + m]]
  ELSE [h \in DOMAIN f \cup {g} |-> IF h = g THEN [count |-> n, memory |-> m] ELSE f[h]]

ClassifyFromZero(acc, k) ==
  LET usage == ReadUsage(acc, k)
      n == IF Group[k] \in DOMAIN acc.groups THEN 1 ELSE 0
  IN [usage |-> usage, groups |-> Add(acc.groups, Group[k], n, usage)]

Classify(acc, k) ==
  LET usage == ReadUsage(acc, k)
  IN [usage |-> usage, groups |-> Add(acc.groups, Group[k], 1, usage)]

NoGroups == [g \in {} |-> [count |-> 0, memory |-> 0]]

Batch(ks) == FoldLeft(Classify, [usage |-> 0, groups |-> NoGroups], ks).groups

(* Adding a batch to what the earlier ones have told.                       *)
ReplaceGroups(f, batch) ==
  [g \in DOMAIN f \cup DOMAIN batch |-> IF g \in DOMAIN batch THEN batch[g] ELSE f[g]]

AddGroups(f, batch) ==
  [g \in DOMAIN f \cup DOMAIN batch |->
     IF g \notin DOMAIN f THEN batch[g]
     ELSE IF g \notin DOMAIN batch THEN f[g]
     ELSE [count |-> f[g].count + batch[g].count, memory |-> f[g].memory + batch[g].memory]]

-----------------------------------------------------------------------------
(* The order of sort.Slice: most memory first, then fewest keys, then name. *)
NameIndex(g) == CHOOSE i \in DOMAIN GroupNames : GroupNames[i] = g

SmallestFirst(f, g, h) ==
  \/ f[g].memory < f[h].memory
  \/ f[g].memory = f[h].memory /\ NameIndex(g) < NameIndex(h)

Before(f, g, h) ==
  \/ f[g].memory > f[h].memory
  \/ f[g].memory = f[h].memory /\ f[g].count < f[h].count
  \/ f[g].memory = f[h].memory /\ f[g].count = f[h].count /\ NameIndex(g) < NameIndex(h)

Position(f, g) == Cardinality({h \in DOMAIN f : h # g /\ Before(f, h, g)})

Sum(f, S, field) == MapThenSumSet(LAMBDA g : f[g][field], S)

OverflowBeyondFirst(f) == {g \in DOMAIN f : Position(f, g) > MaxDistinctKeyGroups}

Overflowed(f) == {g \in DOMAIN f : Position(f, g) >= MaxDistinctKeyGroups}

Metric(f, g) == [group |-> g, folded |-> FALSE, count |-> f[g].count, memory |-> f[g].memory]

Overflow(f, S) == [group |-> "overflow", folded |-> TRUE, count |-> Sum(f, S, "count"),
                   memory |-> Sum(f, S, "memory")]

MetricsOf(f) ==
  IF Cardinality(DOMAIN f) <= MaxDistinctKeyGroups
  THEN {Metric(f, g) : g \in DOMAIN f}
  ELSE {Metric(f, g) : g \in {h \in DOMAIN f : Position(f, h) < MaxDistinctKeyGroups}}
         \cup {Overflow(f, Overflowed(f))}

-----------------------------------------------------------------------------
Init ==
  /\ present \in [DBs -> SUBSET Keys]
  /\ \A d \in DBs \ ValidDBs : present[d] = {}
  /\ always = present
  /\ writes = 0 /\ owed = {}
  /\ pc = "select" /\ db = 0 /\ calls = 0
  /\ allGroups = NoGroups /\ returned = <<>>
  /\ exported = [d \in DBs |-> NotScanned]

ClientWrite(d, k) ==
  /\ writes < MaxWrites /\ d \in ValidDBs
  /\ writes' = writes + 1
  /\ IF k \in present[d]
     THEN /\ present' = [present EXCEPT ![d] = @ \ {k}]
          /\ always' = [always EXCEPT ![d] = @ \ {k}]
          /\ owed' = IF d = db THEN owed \ {k} ELSE owed
     ELSE present' = [present EXCEPT ![d] = @ \cup {k}] /\ UNCHANGED <<always, owed>>
  /\ UNCHANGED <<pc, db, calls, allGroups, returned, exported>>

NextDb == /\ db' = db + 1
          /\ pc' = "select"

(* SELECT; a database that cannot be selected is left out.                  *)
Select ==
  /\ pc = "select" /\ db < DbCount
  /\ \/ /\ db \in ValidDBs
        /\ pc' = "script"
        /\ owed' = present[db]
        /\ UNCHANGED db
     \/ /\ db \notin ValidDBs \/ Faults
        /\ NextDb
        /\ UNCHANGED owed
  /\ calls' = 0 /\ allGroups' = NoGroups /\ returned' = <<>>
  /\ UNCHANGED <<server, exported>>

(* One run of the script: a batch of the keys there are; the cursor is 0    *)
(* only when every key there all along has been returned, some maybe twice. *)
RunScript ==
  /\ pc = "script" /\ calls < MaxCalls
  /\ \E ks \in SUBSET present[db], done \in BOOLEAN :
       /\ Cardinality(ks) <= MaxReply
       /\ owed' = owed \ ks
       /\ done => owed' = {}
       /\ calls' = calls + 1
       /\ \E order \in SetToSeqs(ks) :
            /\ allGroups' = AddGroups(allGroups, Batch(order))
            /\ returned' = returned \o order
       /\ pc' = IF done THEN "register" ELSE "script"
  /\ UNCHANGED <<server, db, exported>>

(* A batch that fails leaves the whole database out.                        *)
ScriptError ==
  /\ pc = "script" /\ Faults
  /\ NextDb
  /\ UNCHANGED <<server, owed, calls, allGroups, returned, exported>>

(* The overflow, if any, and what extractKeyGroupMetrics registers of it.   *)
Register ==
  /\ pc = "register"
  /\ exported' = [exported EXCEPT ![db] =
                    [scanned |-> TRUE, groups |-> MetricsOf(allGroups),
                     distinct |-> Cardinality(DOMAIN allGroups), returned |-> returned]]
  /\ NextDb
  /\ UNCHANGED <<server, owed, calls, allGroups, returned>>

\* the bound on calls is reached with keys still owed: such a scan is not followed
Bounded == pc = "script" /\ calls = MaxCalls /\ UNCHANGED vars

Done == pc = "select" /\ db = DbCount /\ UNCHANGED vars

Next ==
  \/ Select \/ RunScript \/ ScriptError \/ Register
  \/ \E d \in DBs, k \in Keys : ClientWrite(d, k)
  \/ Bounded \/ Done

Spec == Init /\ [][Next]_vars

-----------------------------------------------------------------------------
Exports == [group : Groups \cup {"overflow"}, folded : BOOLEAN, count : Nat, memory : Nat]

(* The types of the variables.                                              *)
TypeOK ==
  /\ present \in [DBs -> SUBSET Keys]
  /\ \A d \in DBs : always[d] \subseteq present[d]
  /\ writes \in 0 .. MaxWrites /\ calls \in 0 .. MaxCalls
  /\ owed \subseteq Keys
  /\ pc \in {"select", "script", "register"} /\ db \in 0 .. DbCount
  /\ pc # "select" => db \in ValidDBs
  /\ DOMAIN allGroups \subseteq Groups
  /\ \A g \in DOMAIN allGroups : allGroups[g] \in [count : Nat \ {0}, memory : Nat]
  /\ returned \in Seq(Keys)
  /\ \A d \in DBs : /\ exported[d].groups \subseteq Exports
                    /\ exported[d].distinct \in Nat

Scanned == {d \in DBs : exported[d].scanned}

Totals(S, field) == MapThenSumSet(LAMBDA m : m[field], S)

(* Folding the groups beyond MaxDistinctKeyGroups loses nothing and counts  *)
(* nothing twice: the exported counts add up to the keys the batches held,  *)
(* and at most MaxDistinctKeyGroups groups and the fold are exported.       *)
NothingLost ==
  \A d \in Scanned :
    LET e == exported[d]
    IN /\ Totals(e.groups, "count") = Len(e.returned)
       /\ e.distinct = Cardinality({Group[e.returned[i]] : i \in DOMAIN e.returned})
       /\ Cardinality({m \in e.groups : ~ m.folded}) =
            IF e.distinct <= MaxDistinctKeyGroups THEN e.distinct ELSE MaxDistinctKeyGroups

(* The groups exported by name are those with the most memory: none of them *)
(* has less than a group that went into the fold.                           *)
MemoryIn(g, ks) ==
  MapThenSumSet(LAMBDA i : Usage[ks[i]], {i \in DOMAIN ks : Group[ks[i]] = g})

LargestByName ==
  \A d \in Scanned :
    LET e == exported[d]
        named == {m.group : m \in {x \in e.groups : ~ x.folded}}
    IN \A i \in DOMAIN e.returned :
         LET g == Group[e.returned[i]]
         IN DeniedKeys = {} /\ g \notin named =>
              \A m \in e.groups : ~ m.folded => m.memory >= MemoryIn(g, e.returned)

(* A key that is there all along is counted in its group, whatever other    *)
(* clients create and delete meanwhile.                                     *)
StableKeysCounted ==
  \A d \in Scanned : \A m \in exported[d].groups :
    ~ m.folded => m.count >= Cardinality({k \in always[d] : Group[k] = m.group})

(* "Total memory usage of key group in bytes" (the help text of             *)
(* key_group_memory_usage_bytes, exporter.go): no more than its keys use.   *)
MemoryOfItsKeys ==
  \A d \in Scanned : \A m \in exported[d].groups :
    ~ m.folded => m.memory <= MemoryIn(m.group, exported[d].returned)
=============================================================================
