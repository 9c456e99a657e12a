------------------------------- MODULE KeyList -------------------------------
(***************************************************************************)
(* How a scrape finds the keys to sample and to count: getKeysFromPatterns  *)
(* expands the patterns of --check-keys with scanKeys, extractCheckKey-     *)
(* Metrics adds --check-single-keys and groups the list by database, and    *)
(* extractCountKeysMetrics counts what scanKeys returns for each pattern of *)
(* --count-keys.  A SCAN takes many calls, between which other clients      *)
(* create and delete keys; any command may fail.                            *)
(***************************************************************************)
EXTENDS Naturals, FiniteSets, Sequences, SequencesExt

CONSTANTS
  DBs, ValidDBs,  \* the databases named in the options, those the server has
  Keys,           \* key names
  Patterns,       \* glob patterns
  Matches,        \* the keys each pattern matches
  Singles,        \* --check-single-keys, parsed: pairs of a database and a key
  CheckKeys,      \* --check-keys, parsed: of a database and a key or a pattern
  CountKeys,      \* --count-keys, parsed: of a database and a pattern
  Faults,         \* may a command fail?
  MaxReply,       \* bound: keys in one reply to SCAN
  MaxCalls,       \* bound: calls of one SCAN before the cursor is 0
  MaxWrites       \* bound: keys created or deleted during the scrape

Pairs == [db : DBs, key : Keys]

\* a key name is at most 512 MB long: there are finitely many
ASSUME KeyListAssumption ==
  /\ ValidDBs \subseteq DBs
  /\ IsFiniteSet(Keys)
  /\ Keys \cap Patterns = {}
  /\ Matches \in [Patterns -> SUBSET Keys]
  /\ Singles \in Seq(Pairs)
  /\ CheckKeys \in Seq([db : DBs, key : Keys \cup Patterns])
  /\ CountKeys \in Seq([db : DBs, key : Patterns])
  /\ Faults \in BOOLEAN
  /\ MaxReply \in Nat /\ MaxCalls \in Nat /\ MaxWrites \in Nat

VARIABLES
  present,   \* the keys in each database
  ever,      \* auxiliary: the keys each database has had since the scrape began
  always,    \* auxiliary: the keys each database has had all along
  writes,    \* keys created or deleted so far
  owed,      \* what the server's SCAN must still return: see ScanCall
  sel,       \* the database selected on the connection
  pc,        \* where the exporter is
  idx,       \* index into CheckKeys, then into CountKeys
  counting,  \* TRUE in extractCountKeysMetrics
  keys,      \* keys of scanKeys
  calls,     \* replies to the SCAN so far
  expanded,  \* expandedKeys of getKeysFromPatterns
  allKeys,   \* allKeys of extractCheckKeyMetrics
  counts,    \* what is exported as keys_count, by index into CountKeys
  skipped    \* auxiliary: the entries that failed, with the command

server == <<present, ever, always, writes>>
vars == <<server, owed, sel, pc, idx, counting, keys, calls, expanded, allKeys, counts,
          skipped>>

PCs == {"entry", "scan", "done"}

Entries == IF counting THEN CountKeys ELSE CheckKeys

entry == Entries[idx]

pattern == Matches[entry.key]

Skip(cmd) == skipped' = skipped \cup {[counting |-> counting, idx |-> idx, cmd |-> cmd]}

-----------------------------------------------------------------------------
(* keysByDb: the list grouped by database.                                  *)
AppendKeyAfresh(f, pair) == [f EXCEPT ![pair.db] = <<pair.key>>]

AppendKey(f, pair) == [f EXCEPT ![pair.db] = Append(@, pair.key)]

GroupByDb(list) == FoldLeft(AppendKey, [d \in DBs |-> <<>>], list)

(* "SELECT" before a SCAN.                                                  *)
SelectFails(d) == d \notin ValidDBs \/ Faults

SelectForgotten(d) == d \in ValidDBs /\ UNCHANGED sel

Select(d) == d \in ValidDBs /\ sel' = d

-----------------------------------------------------------------------------
Init ==
  /\ present \in [DBs -> SUBSET Keys]
  /\ \A d \in DBs \ ValidDBs : present[d] = {}
  /\ ever = present /\ always = present
  /\ writes = 0 /\ owed = {}
  /\ sel \in ValidDBs
  /\ pc = "entry" /\ idx = 1 /\ counting = FALSE
  /\ keys = <<>> /\ calls = 0
  /\ expanded = <<>> /\ allKeys = <<>> /\ counts = <<>> /\ skipped = {}

ClientWrite(d, k) ==
  /\ writes < MaxWrites /\ d \in ValidDBs
  /\ writes' = writes + 1
  /\ IF k \in present[d]
     THEN /\ present' = [present EXCEPT ![d] = @ \ {k}]
          /\ always' = [always EXCEPT ![d] = @ \ {k}]
          /\ owed' = IF d = sel THEN owed \ {k} ELSE owed
          /\ UNCHANGED ever
     ELSE /\ present' = [present EXCEPT ![d] = @ \cup {k}]
          /\ ever' = [ever EXCEPT ![d] = @ \cup {k}]
          /\ UNCHANGED <<always, owed>>
  /\ UNCHANGED <<sel, pc, idx, counting, keys, calls, expanded, allKeys, counts, skipped>>

-----------------------------------------------------------------------------
(* One entry of the list: a plain key is taken as it is, a pattern SCANned. *)
TakeKey ==
  /\ pc = "entry" /\ idx <= Len(Entries) /\ entry.key \in Keys
  /\ expanded' = Append(expanded, entry)
  /\ idx' = idx + 1
  /\ UNCHANGED <<server, owed, sel, pc, counting, keys, calls, allKeys, counts, skipped>>

StartScan ==
  /\ pc = "entry" /\ idx <= Len(Entries) /\ entry.key \in Patterns
  /\ Select(entry.db)
  /\ owed' = present[entry.db] \cap pattern
  /\ keys' = <<>> /\ calls' = 0
  /\ pc' = "scan"
  /\ UNCHANGED <<server, idx, counting, expanded, allKeys, counts, skipped>>

StartCounting(list) ==
  /\ allKeys' = list
  /\ counting' = TRUE
  /\ idx' = 1

(* getKeysFromPatterns gives up, and with it all it has expanded;           *)
(* extractCountKeysMetrics goes on with the next pattern.                   *)
KeepExpanded == StartCounting(Singles \o expanded)

DropAll == StartCounting(<<>>)

DropExpanded == StartCounting(Singles)

SelectError ==
  /\ pc = "entry" /\ idx <= Len(Entries) /\ entry.key \in Patterns
  /\ SelectFails(entry.db)
  /\ Skip("SELECT")
  /\ IF counting THEN idx' = idx + 1 /\ UNCHANGED <<counting, allKeys>>
                 ELSE DropExpanded
  /\ UNCHANGED <<server, owed, sel, pc, keys, calls, expanded, counts>>

(* A call returns some of the keys there are, and the cursor is 0 only when *)
(* every key that has been there since the first call has been returned;    *)
(* a key may be returned again.                                             *)
StopsAtEmptyReply(batch, done) == done \/ batch = {}

Stops(batch, done) == done

ScanCall ==
  /\ pc = "scan" /\ calls < MaxCalls
  /\ \E batch \in SUBSET (present[sel] \cap pattern), done \in BOOLEAN :
       /\ Cardinality(batch) <= MaxReply
       /\ owed' = owed \ batch
       /\ done => owed' = {}
       /\ calls' = calls + 1
       /\ keys' = keys \o SetToSeq(batch)
       /\ IF ~ Stops(batch, done) THEN UNCHANGED <<pc, idx, expanded, counts>>
          ELSE /\ pc' = "entry"
               /\ idx' = idx + 1
               /\ IF counting
                  THEN counts' = counts \o <<[entry |-> idx, n |-> Len(keys')]>>
                       /\ UNCHANGED expanded
                  ELSE expanded' = expanded
                                     \o [i \in DOMAIN keys' |-> [db |-> entry.db, key |-> keys'[i]]]
                       /\ UNCHANGED counts
  /\ UNCHANGED <<server, sel, counting, allKeys, skipped>>

(* A SCAN that fails costs its own pattern, whatever it has returned so far.*)
ScanError ==
  /\ pc = "scan" /\ Faults
  /\ Skip("SCAN")
  /\ idx' = idx + 1
  /\ pc' = "entry"
  /\ UNCHANGED <<server, owed, sel, counting, keys, calls, expanded, allKeys, counts>>

EndExpanding ==
  /\ pc = "entry" /\ ~ counting /\ idx > Len(CheckKeys)
  /\ KeepExpanded
  /\ UNCHANGED <<server, owed, sel, pc, keys, calls, expanded, counts, skipped>>

EndCounting ==
  /\ pc = "entry" /\ counting /\ idx > Len(CountKeys)
  /\ pc' = "done"
  /\ UNCHANGED <<server, owed, sel, idx, counting, keys, calls, expanded, allKeys, counts,
                 skipped>>

\* the bound on calls is reached with keys still owed: such a SCAN is not followed
Bounded == pc = "scan" /\ calls = MaxCalls /\ UNCHANGED vars

Done == pc = "done" /\ UNCHANGED vars

Next ==
  \/ TakeKey \/ StartScan \/ SelectError \/ ScanCall \/ ScanError
  \/ EndExpanding \/ EndCounting
  \/ \E d \in DBs, k \in Keys : ClientWrite(d, k)
  \/ Bounded \/ Done

Spec == Init /\ [][Next]_vars

-----------------------------------------------------------------------------
(* The types of the variables.                                              *)
TypeOK ==
  /\ present \in [DBs -> SUBSET Keys] /\ ever \in [DBs -> SUBSET Keys]
  /\ always \in [DBs -> SUBSET Keys]
  /\ \A d \in DBs : always[d] \subseteq present[d] /\ present[d] \subseteq ever[d]
  /\ writes \in 0 .. MaxWrites /\ calls \in 0 .. MaxCalls
  /\ owed \subseteq Keys /\ sel \in ValidDBs
  /\ pc \in PCs /\ counting \in BOOLEAN /\ idx \in 1 .. Len(Entries) + 1
  /\ pc = "scan" => idx <= Len(Entries) /\ sel = entry.db
  /\ keys \in Seq(Keys) /\ expanded \in Seq(Pairs) /\ allKeys \in Seq(Pairs)
  /\ counts \in Seq([entry : DOMAIN CountKeys, n : Nat])
  /\ skipped \subseteq [counting : BOOLEAN, idx : Nat, cmd : {"SELECT", "SCAN"}]

Listed == ToSet(allKeys)

(* A key that a pattern of --check-keys matches and that is there all along *)
(* is sampled, unless its own SCAN failed or a SELECT did: what other       *)
(* clients create and delete meanwhile, and the SCANs of other patterns     *)
(* that fail, do not matter.                                                *)
Failed(cmd) == {s.idx : s \in {t \in skipped : ~ t.counting /\ t.cmd = cmd}}

ScannedKeysListed ==
  counting /\ Failed("SELECT") = {} =>
    \A i \in DOMAIN CheckKeys \ Failed("SCAN") :
      CheckKeys[i].key \in Patterns =>
        \A k \in always[CheckKeys[i].db] \cap Matches[CheckKeys[i].key] :
          [db |-> CheckKeys[i].db, key |-> k] \in Listed

(* Whatever fails, --check-single-keys are all sampled, and first.          *)
SinglesListed == counting => IsPrefix(Singles, allKeys)

(* Nothing is sampled but what the options name or what was there, in the   *)
(* very database the pattern is for, at some moment of the scrape.          *)
OnlyKeysOfTheirDb ==
  \A pair \in Listed \cup ToSet(expanded) :
    \/ pair \in ToSet(Singles) \/ pair \in ToSet(CheckKeys)
    \/ /\ pair.key \in ever[pair.db]
       /\ \E i \in DOMAIN CheckKeys : /\ CheckKeys[i].db = pair.db
                                      /\ CheckKeys[i].key \in Patterns
                                      /\ pair.key \in Matches[CheckKeys[i].key]

(* keysByDb holds every pair of the list, each as often as the list does,   *)
(* in the list's order: a key comes after those of its own database before. *)
GroupedFaithfully ==
  counting =>
    LET byDb == GroupByDb(allKeys)
        UpTo(i, d) == {j \in 1 .. i : allKeys[j].db = d}
    IN \A d \in DBs :
         /\ Len(byDb[d]) = Cardinality(UpTo(Len(allKeys), d))
         /\ \A i \in UpTo(Len(allKeys), d) :
              byDb[d][Cardinality(UpTo(i, d))] = allKeys[i].key

(* keys_count is never less than the keys that were there all along.        *)
CountsEveryKey ==
  \A i \in DOMAIN counts :
    LET e == CountKeys[counts[i].entry]
    IN counts[i].n >= Cardinality(always[e.db] \cap Matches[e.key])
=============================================================================
