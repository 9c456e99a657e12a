---------------------------- MODULE KeyListProofs ----------------------------
(***************************************************************************)
(* Proofs about KeyList, for any options, contents, batches of SCAN, keys   *)
(* created and deleted between its calls, and failures of commands.         *)
(***************************************************************************)
EXTENDS KeyList, SequenceFacts

(* While a SCAN goes on, it has returned keys of its pattern that its       *)
(* database had in this scrape, and what was there all along has been       *)
(* returned or is still owed.                                               *)
ScanCovers ==
  pc = "scan" => /\ entry.key \in Patterns
                 /\ ToSet(keys) \subseteq ever[sel] \cap pattern
                 /\ always[sel] \cap pattern \subseteq owed \cup ToSet(keys)

(* Where a pair of the expanded list may come from.                         *)
Rightful(pair) ==
  \/ pair \in ToSet(CheckKeys)
  \/ /\ pair.key \in ever[pair.db]
     /\ \E i \in DOMAIN CheckKeys : /\ CheckKeys[i].db = pair.db
                                    /\ CheckKeys[i].key \in Patterns
                                    /\ pair.key \in Matches[CheckKeys[i].key]

(* What a pattern of --check-keys must have brought into a list.            *)
Covered(i, list) ==
  CheckKeys[i].key \in Patterns =>
    \A k \in always[CheckKeys[i].db] \cap Matches[CheckKeys[i].key] :
      [db |-> CheckKeys[i].db, key |-> k] \in ToSet(list)

(* The list that extractCheckKeyMetrics works on, before and after it is    *)
(* made.                                                                    *)
ListBuilt ==
  /\ \A pair \in ToSet(expanded) : Rightful(pair)
  /\ ~ counting => /\ allKeys = <<>>
                   /\ \A i \in DOMAIN CheckKeys \ Failed("SCAN") : i < idx => Covered(i, expanded)
  /\ counting => \/ /\ allKeys = Singles \o expanded
                    /\ \A i \in DOMAIN CheckKeys \ Failed("SCAN") : Covered(i, expanded)
                 \/ allKeys = Singles /\ Failed("SELECT") # {}

KeyListInv == ScanCovers /\ ListBuilt /\ CountsEveryKey

-----------------------------------------------------------------------------
(* Listing the keys of a SCAN with their database.                          *)
LEMMA PairsListed ==
  ASSUME NEW d \in DBs, NEW s \in Seq(Keys)
  PROVE  LET t == [i \in DOMAIN s |-> [db |-> d, key |-> s[i]]]
         IN  t \in Seq(Pairs) /\ ToSet(t) = {[db |-> d, key |-> k] : k \in ToSet(s)}
<1> DEFINE t == [i \in DOMAIN s |-> [db |-> d, key |-> s[i]]]
<1>1. Len(s) \in Nat /\ DOMAIN s = 1 .. Len(s) /\ \A i \in 1 .. Len(s) : s[i] \in Keys
  BY LenProperties, ElementOfSeq
<1>2. t \in [1 .. Len(s) -> Pairs]
  BY <1>1 DEF Pairs
<1>3. t \in Seq(Pairs)
  BY <1>1, <1>2, SeqDef
<1>4. ToSet(t) = {[db |-> d, key |-> k] : k \in ToSet(s)}
  BY <1>1 DEF ToSet
<1> QED
  BY <1>3, <1>4

-----------------------------------------------------------------------------
(* Type correctness.                                                        *)

LEMMA EntryType ==
  ASSUME TypeOK, idx <= Len(Entries)
  PROVE  /\ idx \in DOMAIN Entries /\ Entries[idx] = entry
         /\ entry.db \in DBs /\ entry.key \in Keys \cup Patterns
         /\ entry = [db |-> entry.db, key |-> entry.key]
         /\ counting => entry.key \in Patterns
<1>1. CASE counting
  <2>1. Entries = CountKeys /\ idx \in 1 .. Len(CountKeys) /\ DOMAIN CountKeys = 1 .. Len(CountKeys)
    BY <1>1, KeyListAssumption, LenProperties DEF Entries, TypeOK
  <2>2. entry \in [db : DBs, key : Patterns]
    BY <2>1, KeyListAssumption, ElementOfSeq DEF entry
  <2> QED
    BY <2>1, <2>2 DEF entry
<1>2. CASE ~ counting
  <2>1. Entries = CheckKeys /\ idx \in 1 .. Len(CheckKeys) /\ DOMAIN CheckKeys = 1 .. Len(CheckKeys)
    BY <1>2, KeyListAssumption, LenProperties DEF Entries, TypeOK
  <2>2. entry \in [db : DBs, key : Keys \cup Patterns]
    BY <2>1, KeyListAssumption, ElementOfSeq DEF entry
  <2> QED
    BY <1>2, <2>1, <2>2 DEF entry
<1> QED
  BY <1>1, <1>2

LEMMA EntriesLen == Len(CheckKeys) \in Nat /\ Len(CountKeys) \in Nat
BY KeyListAssumption, LenProperties

(* A step to the next entry of the same list.                               *)
LEMMA NextEntryType ==
  ASSUME TypeOK, idx <= Len(Entries), idx' = idx + 1, UNCHANGED counting
  PROVE  idx' \in 1 .. Len(Entries)' + 1
BY EntriesLen DEF TypeOK, Entries

(* A step from one list to the other.                                       *)
LEMMA StartCountingType ==
  ASSUME NEW list \in Seq(Pairs), StartCounting(list)
  PROVE  idx' \in 1 .. Len(Entries)' + 1 /\ counting' \in BOOLEAN /\ allKeys' \in Seq(Pairs)
BY EntriesLen DEF StartCounting, Entries

LEMMA SkipType ==
  ASSUME TypeOK, NEW cmd \in {"SELECT", "SCAN"}, Skip(cmd)
  PROVE  /\ skipped' \subseteq [counting : BOOLEAN, idx : Nat, cmd : {"SELECT", "SCAN"}]
         /\ \A c \in {"SELECT", "SCAN"} :
              Failed(c)' = IF c = cmd /\ ~ counting THEN Failed(c) \cup {idx} ELSE Failed(c)
<1>1. idx \in Nat /\ counting \in BOOLEAN
  BY EntriesLen DEF TypeOK, Entries
<1>2. skipped' \subseteq [counting : BOOLEAN, idx : Nat, cmd : {"SELECT", "SCAN"}]
  BY <1>1 DEF Skip, TypeOK
<1>3. ASSUME NEW c \in {"SELECT", "SCAN"}
      PROVE  Failed(c)' = IF c = cmd /\ ~ counting THEN Failed(c) \cup {idx} ELSE Failed(c)
  <2> DEFINE new == [counting |-> counting, idx |-> idx, cmd |-> cmd]
  <2>1. skipped' = skipped \cup {new}
    BY DEF Skip
  <2>2. new.counting = counting /\ new.idx = idx /\ new.cmd = cmd
    OBVIOUS
  <2> HIDE DEF new
  <2> QED
    BY <2>1, <2>2 DEF Failed
<1> QED
  BY <1>2, <1>3

(* A batch of SCAN adds its keys.                                           *)
LEMMA BatchAdded ==
  ASSUME TypeOK, NEW batch \in SUBSET (present[sel] \cap pattern),
         keys' = keys \o SetToSeq(batch)
  PROVE  keys' \in Seq(Keys) /\ ToSet(keys') = ToSet(keys) \cup batch
         /\ Len(keys') \in Nat
<1>1. batch \subseteq Keys /\ IsFiniteSet(batch)
  BY KeyListAssumption, FS_Subset DEF TypeOK
<1>2. SetToSeq(batch) \in Seq(Keys) /\ ToSet(SetToSeq(batch)) = batch
  BY <1>1, SetToSeqLists, SeqMonotonic
<1>3. keys \in Seq(Keys)
  BY DEF TypeOK
<1> QED
  BY <1>2, <1>3, ToSetConcat, ConcatProperties, LenProperties

(* What a client that creates or deletes a key does to the sets.            *)
LEMMA WriteEffect ==
  ASSUME TypeOK, NEW d \in DBs, NEW k \in Keys, ClientWrite(d, k)
  PROVE  /\ present' \in [DBs -> SUBSET Keys] /\ ever' \in [DBs -> SUBSET Keys]
         /\ always' \in [DBs -> SUBSET Keys] /\ owed' \subseteq Keys
         /\ \A e \in DBs : always'[e] \subseteq present'[e] /\ present'[e] \subseteq ever'[e]
         /\ \A e \in DBs : always'[e] \subseteq always[e] /\ ever[e] \subseteq ever'[e]
         /\ \A e \in DBs, l \in Keys : l \in always'[e] => e # d \/ l # k \/ k \notin present[d]
         /\ owed \subseteq owed' \cup {k}
         /\ sel # d \/ k \notin present[d] => owed' = owed
<1>1. /\ present \in [DBs -> SUBSET Keys] /\ ever \in [DBs -> SUBSET Keys]
      /\ always \in [DBs -> SUBSET Keys] /\ owed \subseteq Keys
      /\ \A e \in DBs : always[e] \subseteq present[e] /\ present[e] \subseteq ever[e]
  BY DEF TypeOK
<1>2. CASE k \in present[d]
  <2>1. /\ present' = [present EXCEPT ![d] = present[d] \ {k}]
        /\ always' = [always EXCEPT ![d] = always[d] \ {k}]
        /\ owed' = IF d = sel THEN owed \ {k} ELSE owed
        /\ ever' = ever
    BY <1>2 DEF ClientWrite
  <2>2. present[d] \ {k} \in SUBSET Keys /\ always[d] \ {k} \in SUBSET Keys
    BY <1>1
  <2>3. present' \in [DBs -> SUBSET Keys] /\ always' \in [DBs -> SUBSET Keys]
    BY <1>1, <2>1, <2>2
  <2>4. \A e \in DBs : /\ present'[e] = IF e = d THEN present[d] \ {k} ELSE present[e]
                       /\ always'[e] = IF e = d THEN always[d] \ {k} ELSE always[e]
    BY <1>1, <2>1
  <2> QED
    BY <1>1, <1>2, <2>1, <2>3, <2>4
<1>3. CASE k \notin present[d]
  <2>1. /\ present' = [present EXCEPT ![d] = present[d] \cup {k}]
        /\ ever' = [ever EXCEPT ![d] = ever[d] \cup {k}]
        /\ always' = always /\ owed' = owed
    BY <1>3 DEF ClientWrite
  <2>2. present[d] \cup {k} \in SUBSET Keys /\ ever[d] \cup {k} \in SUBSET Keys
    BY <1>1
  <2>3. present' \in [DBs -> SUBSET Keys] /\ ever' \in [DBs -> SUBSET Keys]
    BY <1>1, <2>1, <2>2
  <2>4. \A e \in DBs : /\ present'[e] = IF e = d THEN present[d] \cup {k} ELSE present[e]
                       /\ ever'[e] = IF e = d THEN ever[d] \cup {k} ELSE ever[e]
    BY <1>1, <2>1
  <2> QED
    BY <1>1, <1>3, <2>1, <2>3, <2>4
<1> QED
  BY <1>2, <1>3

LEMMA InitType == Init => TypeOK
<1> SUFFICES ASSUME Init PROVE TypeOK
  OBVIOUS
<1>1. idx \in 1 .. Len(Entries) + 1
  BY EntriesLen DEF Init, Entries
<1>2. /\ keys \in Seq(Keys) /\ expanded \in Seq(Pairs) /\ allKeys \in Seq(Pairs)
      /\ counts \in Seq([entry : DOMAIN CountKeys, n : Nat])
  BY EmptySeq DEF Init
<1>3. writes \in 0 .. MaxWrites /\ calls \in 0 .. MaxCalls
  BY KeyListAssumption DEF Init
<1>4. pc \in PCs /\ pc # "scan" /\ counting \in BOOLEAN /\ owed \subseteq Keys /\ sel \in ValidDBs
      /\ skipped \subseteq [counting : BOOLEAN, idx : Nat, cmd : {"SELECT", "SCAN"}]
  BY DEF Init, PCs
<1>5. /\ present \in [DBs -> SUBSET Keys] /\ ever \in [DBs -> SUBSET Keys]
      /\ always \in [DBs -> SUBSET Keys]
      /\ \A d \in DBs : always[d] \subseteq present[d] /\ present[d] \subseteq ever[d]
  BY DEF Init
<1> QED
  BY <1>1, <1>2, <1>3, <1>4, <1>5 DEF TypeOK

LEMMA TypeStep == TypeOK /\ [Next]_vars => TypeOK'
<1> SUFFICES ASSUME TypeOK, [Next]_vars PROVE TypeOK'
  OBVIOUS
<1>1. CASE TakeKey
  <2>1. entry \in Pairs
    BY <1>1, EntryType DEF TakeKey, Pairs
  <2>2. expanded' \in Seq(Pairs)
    BY <1>1, <2>1, AppendProperties DEF TakeKey, TypeOK
  <2>3. idx' \in 1 .. Len(Entries)' + 1
    BY <1>1, NextEntryType DEF TakeKey
  <2> QED
    BY <1>1, <2>2, <2>3 DEF TakeKey, TypeOK, server
<1>2. CASE StartScan
  <2>1. Entries' = Entries /\ entry' = entry /\ idx' <= Len(Entries)'
    BY <1>2 DEF StartScan, Entries, entry
  <2>2. owed' \subseteq Keys /\ sel' \in ValidDBs /\ sel' = entry.db
    BY <1>2, KeyListAssumption DEF StartScan, TypeOK, Select
  <2>3. keys' \in Seq(Keys)
    BY <1>2, EmptySeq DEF StartScan
  <2> QED
    BY <1>2, <2>1, <2>2, <2>3, KeyListAssumption DEF StartScan, TypeOK, PCs, server
<1>3. CASE SelectError
  <2>1. skipped' \subseteq [counting : BOOLEAN, idx : Nat, cmd : {"SELECT", "SCAN"}]
    BY <1>3, SkipType DEF SelectError
  <2>2. idx' \in 1 .. Len(Entries)' + 1 /\ counting' \in BOOLEAN /\ allKeys' \in Seq(Pairs)
    <3>1. CASE counting
      BY <1>3, <3>1, NextEntryType DEF SelectError, TypeOK
    <3>2. CASE ~ counting
      BY <1>3, <3>2, StartCountingType, KeyListAssumption DEF SelectError, DropExpanded
    <3> QED
      BY <3>1, <3>2 DEF TypeOK
  <2> QED
    BY <1>3, <2>1, <2>2 DEF SelectError, TypeOK, server
<1>4. CASE ScanCall
  <2>1. PICK batch \in SUBSET (present[sel] \cap pattern), done \in BOOLEAN :
          /\ owed' = owed \ batch
          /\ calls' = calls + 1
          /\ keys' = keys \o SetToSeq(batch)
          /\ IF ~ Stops(batch, done) THEN UNCHANGED <<pc, idx, expanded, counts>>
             ELSE /\ pc' = "entry"
                  /\ idx' = idx + 1
                  /\ IF counting
                     THEN counts' = counts \o <<[entry |-> idx, n |-> Len(keys')]>>
                          /\ UNCHANGED expanded
                     ELSE expanded' = expanded
                                        \o [i \in DOMAIN keys' |-> [db |-> entry.db, key |-> keys'[i]]]
                          /\ UNCHANGED counts
    BY <1>4 DEF ScanCall
  <2>2. /\ pc = "scan" /\ calls < MaxCalls /\ idx <= Len(Entries) /\ UNCHANGED counting
        /\ UNCHANGED <<server, sel, counting, allKeys, skipped>>
    BY <1>4 DEF ScanCall, TypeOK
  <2>3. keys' \in Seq(Keys) /\ Len(keys') \in Nat
    BY <2>1, BatchAdded
  <2>4. owed' \subseteq Keys /\ calls' \in 0 .. MaxCalls
    BY <2>1, <2>2, KeyListAssumption DEF TypeOK
  <2>5. CASE ~ Stops(batch, done)
    <3>1. Entries' = Entries /\ entry' = entry
      BY <2>1, <2>2, <2>5 DEF Entries, entry
    <3> QED
      BY <2>1, <2>2, <2>3, <2>4, <2>5, <3>1 DEF TypeOK, server
  <2>6. CASE Stops(batch, done)
    <3>1. idx' \in 1 .. Len(Entries)' + 1
      BY <2>1, <2>2, <2>6, NextEntryType
    <3>2. counts' \in Seq([entry : DOMAIN CountKeys, n : Nat])
      <4>1. CASE counting
        <5>1. [entry |-> idx, n |-> Len(keys')] \in [entry : DOMAIN CountKeys, n : Nat]
          BY <2>2, <2>3, <4>1, EntryType DEF Entries
        <5>2. <<[entry |-> idx, n |-> Len(keys')]>> \in Seq([entry : DOMAIN CountKeys, n : Nat])
          BY <5>1
        <5>3. counts \in Seq([entry : DOMAIN CountKeys, n : Nat])
          BY DEF TypeOK
        <5>4. counts' = counts \o <<[entry |-> idx, n |-> Len(keys')]>>
          BY <2>1, <2>6, <4>1
        <5> QED
          BY <5>2, <5>3, <5>4, ConcatProperties
      <4>2. CASE ~ counting
        BY <2>1, <2>6, <4>2 DEF TypeOK
      <4> QED
        BY <4>1, <4>2
    <3>3. expanded' \in Seq(Pairs)
      <4>1. CASE counting
        BY <2>1, <2>6, <4>1 DEF TypeOK
      <4>2. CASE ~ counting
        <5>1. entry.db \in DBs
          BY <2>2, EntryType
        <5>2. [i \in DOMAIN keys' |-> [db |-> entry.db, key |-> keys'[i]]] \in Seq(Pairs)
          BY <2>3, <5>1, PairsListed
        <5>3. expanded \in Seq(Pairs)
          BY DEF TypeOK
        <5>4. expanded' = expanded
                            \o [i \in DOMAIN keys' |-> [db |-> entry.db, key |-> keys'[i]]]
          BY <2>1, <2>6, <4>2
        <5> QED
          BY <5>2, <5>3, <5>4, ConcatProperties
      <4> QED
        BY <4>1, <4>2
    <3> QED
      BY <2>1, <2>2, <2>3, <2>4, <2>6, <3>1, <3>2, <3>3 DEF TypeOK, PCs, server
  <2> QED
    BY <2>5, <2>6
<1>5. CASE ScanError
  <2>1. skipped' \subseteq [counting : BOOLEAN, idx : Nat, cmd : {"SELECT", "SCAN"}]
    BY <1>5, SkipType DEF ScanError
  <2>2. idx' \in 1 .. Len(Entries)' + 1
    BY <1>5, NextEntryType DEF ScanError, TypeOK
  <2> QED
    BY <1>5, <2>1, <2>2 DEF ScanError, TypeOK, PCs, server
<1>6. CASE EndExpanding
  <2>1. Singles \o expanded \in Seq(Pairs)
    BY KeyListAssumption, ConcatProperties DEF TypeOK
  <2>2. idx' \in 1 .. Len(Entries)' + 1 /\ counting' \in BOOLEAN /\ allKeys' \in Seq(Pairs)
    BY <1>6, <2>1, StartCountingType DEF EndExpanding, KeepExpanded
  <2> QED
    BY <1>6, <2>2 DEF EndExpanding, TypeOK, server
<1>7. CASE EndCounting
  BY <1>7 DEF EndCounting, TypeOK, PCs, server, Entries
<1>8. ASSUME NEW d \in DBs, NEW k \in Keys, ClientWrite(d, k) PROVE TypeOK'
  <2>1. writes' \in 0 .. MaxWrites
    BY <1>8, KeyListAssumption DEF ClientWrite, TypeOK
  <2> QED
    BY <1>8, <2>1, WriteEffect DEF ClientWrite, TypeOK, Entries, entry
<1>9. CASE UNCHANGED vars
  BY <1>9 DEF vars, server, TypeOK, Entries, entry
<1> QED
  BY <1>1, <1>2, <1>3, <1>4, <1>5, <1>6, <1>7, <1>8, <1>9 DEF Next, Bounded, Done

(* Every variable keeps its type.                                           *)
THEOREM KeyListTypeCorrect == Spec => []TypeOK
BY InitType, TypeStep, PTL DEF Spec

-----------------------------------------------------------------------------
(* The list of keys, and the counts.                                        *)

Shrinks == \A d \in DBs : always'[d] \subseteq always[d] /\ ever[d] \subseteq ever'[d]

LEMMA CheckKeyType ==
  ASSUME NEW i \in DOMAIN CheckKeys
  PROVE  CheckKeys[i].db \in DBs /\ CheckKeys[i].key \in Keys \cup Patterns
         /\ CheckKeys[i] \in ToSet(CheckKeys) /\ i \in 1 .. Len(CheckKeys)
<1>1. CheckKeys[i] \in [db : DBs, key : Keys \cup Patterns] /\ i \in 1 .. Len(CheckKeys)
  BY KeyListAssumption, LenProperties, ElementOfSeq
<1> QED
  BY <1>1 DEF ToSet

LEMMA RightfulStays ==
  ASSUME Shrinks, NEW pair \in Pairs, Rightful(pair)
  PROVE  Rightful(pair)'
BY DEF Shrinks, Rightful, Pairs

LEMMA CoveredStays ==
  ASSUME Shrinks, ToSet(expanded) \subseteq ToSet(expanded'),
         NEW i \in DOMAIN CheckKeys, Covered(i, expanded)
  PROVE  Covered(i, expanded)'
<1>1. always'[CheckKeys[i].db] \subseteq always[CheckKeys[i].db]
  BY CheckKeyType DEF Shrinks
<1> QED
  BY <1>1 DEF Covered

LEMMA RightfulList ==
  ASSUME TypeOK, ListBuilt, Shrinks, UNCHANGED expanded
  PROVE  \A pair \in ToSet(expanded') : Rightful(pair)'
BY RightfulStays, ToSetType DEF ListBuilt, TypeOK

(* Nothing that changes no list harms it.                                   *)
LEMMA ListStays ==
  ASSUME TypeOK, ListBuilt, Shrinks, UNCHANGED <<idx, counting, expanded, allKeys, skipped>>
  PROVE  ListBuilt'
<1>1. \A pair \in ToSet(expanded') : Rightful(pair)'
  BY RightfulList
<1>2. \A i \in DOMAIN CheckKeys : Covered(i, expanded) => Covered(i, expanded)'
  BY CoveredStays
<1>3. \A c : Failed(c)' = Failed(c)
  BY DEF Failed
<1> QED
  BY <1>1, <1>2, <1>3 DEF ListBuilt

LEMMA CountedType ==
  ASSUME TypeOK, NEW i \in DOMAIN counts
  PROVE  /\ CountKeys[counts[i].entry].db \in DBs /\ counts[i].n \in Nat
         /\ CountKeys[counts[i].entry].key \in Patterns
<1>1. counts[i] \in [entry : DOMAIN CountKeys, n : Nat]
  BY LenProperties, ElementOfSeq DEF TypeOK
<1>2. ASSUME NEW e \in DOMAIN CountKeys PROVE CountKeys[e] \in [db : DBs, key : Patterns]
  <2>1. CountKeys \in Seq([db : DBs, key : Patterns])
    BY KeyListAssumption
  <2>2. e \in 1 .. Len(CountKeys)
    BY <2>1, LenProperties
  <2> QED
    BY <2>1, <2>2, ElementOfSeq
<1> QED
  BY <1>1, <1>2

LEMMA SmallerSet ==
  ASSUME NEW S \in SUBSET Keys, NEW T \in SUBSET S
  PROVE  Cardinality(T) \in Nat /\ Cardinality(S) \in Nat /\ Cardinality(T) <= Cardinality(S)
<1>1. IsFiniteSet(S) /\ IsFiniteSet(T)
  BY KeyListAssumption, FS_Subset
<1> QED
  BY <1>1, FS_Subset, FS_CardinalityType

LEMMA CountStays ==
  ASSUME TypeOK, CountsEveryKey, Shrinks, NEW i \in DOMAIN counts
  PROVE  counts[i].n >= Cardinality(always'[CountKeys[counts[i].entry].db]
                                      \cap Matches[CountKeys[counts[i].entry].key])
<1> DEFINE e == CountKeys[counts[i].entry]
           S == always[e.db] \cap Matches[e.key]
           T == always'[e.db] \cap Matches[e.key]
<1>1. e.db \in DBs /\ counts[i].n \in Nat
  BY CountedType
<1>2. S \in SUBSET Keys /\ T \in SUBSET S
  BY <1>1 DEF TypeOK, Shrinks
<1>3. Cardinality(T) \in Nat /\ Cardinality(S) \in Nat /\ Cardinality(T) <= Cardinality(S)
  BY <1>2, SmallerSet
<1>4. counts[i].n >= Cardinality(S)
  BY DEF CountsEveryKey
<1> QED
  BY <1>1, <1>3, <1>4

LEMMA CountsStay ==
  ASSUME TypeOK, CountsEveryKey, Shrinks, UNCHANGED counts
  PROVE  CountsEveryKey'
BY CountStays DEF CountsEveryKey

(* A step on which no SCAN ends.                                            *)
LEMMA QuietStep ==
  ASSUME TypeOK, KeyListInv
  PROVE  /\ TakeKey => KeyListInv'
         /\ StartScan => KeyListInv'
         /\ EndExpanding => KeyListInv'
         /\ EndCounting => KeyListInv'
<1> USE DEF KeyListInv
<1>0. UNCHANGED server => Shrinks
  BY DEF server, Shrinks
<1>1. ASSUME TakeKey PROVE KeyListInv'
  <2>1. /\ pc = "entry" /\ entry.key \in Keys /\ idx \in DOMAIN Entries
        /\ expanded' = Append(expanded, entry) /\ idx' = idx + 1
        /\ UNCHANGED <<server, pc, counting, allKeys, counts, skipped>> /\ Entries[idx] = entry
        /\ ~ counting
    BY <1>1, EntryType, KeyListAssumption DEF TakeKey
  <2>2. idx \in DOMAIN CheckKeys /\ CheckKeys[idx] = entry /\ entry \in Pairs
    BY <1>1, <2>1, EntryType DEF Entries, TakeKey, Pairs
  <2>3. ToSet(expanded') = ToSet(expanded) \cup {entry}
    BY <2>1, <2>2, ToSetAppend DEF TypeOK
  <2>4. Shrinks /\ (\A c : Failed(c)' = Failed(c))
    BY <1>0, <2>1 DEF Failed
  <2>5. \A pair \in ToSet(expanded') : Rightful(pair)'
    <3>1. entry \in ToSet(CheckKeys)
      BY <2>2, CheckKeyType
    <3>2. \A pair \in ToSet(expanded) : pair \in Pairs /\ Rightful(pair)
      BY ToSetType DEF ListBuilt, TypeOK
    <3>3. \A pair \in ToSet(expanded') : pair \in Pairs /\ Rightful(pair)
      BY <2>2, <2>3, <3>1, <3>2 DEF Rightful
    <3> QED
      BY <2>4, <3>3, RightfulStays
  <2>6. ASSUME NEW i \in DOMAIN CheckKeys \ Failed("SCAN"), i < idx' PROVE Covered(i, expanded)'
    <3>1. CASE i = idx
      <4>1. CheckKeys[i].key \notin Patterns
        BY <2>1, <2>2, <3>1, KeyListAssumption
      <4> QED
        BY <4>1 DEF Covered
    <3>2. CASE i # idx
      <4>1. i < idx
        BY <2>1, <2>2, <2>6, <3>2, CheckKeyType
      <4>2. Covered(i, expanded)
        BY <2>1, <4>1 DEF ListBuilt
      <4> QED
        BY <2>3, <2>4, <4>2, CoveredStays
    <3> QED
      BY <3>1, <3>2
  <2>7. ListBuilt'
    BY <2>1, <2>4, <2>5, <2>6 DEF ListBuilt
  <2>8. CountsEveryKey'
    BY <2>1, <2>4, CountsStay
  <2>9. ScanCovers'
    BY <2>1 DEF ScanCovers
  <2> QED
    BY <2>7, <2>8, <2>9
<1>2. ASSUME StartScan PROVE KeyListInv'
  <2>1. /\ entry.key \in Patterns /\ entry.db \in DBs /\ entry' = entry /\ sel' = entry.db
        /\ owed' = present[entry.db] \cap pattern /\ keys' = <<>>
        /\ UNCHANGED <<server, idx, counting, expanded, allKeys, counts, skipped>>
    BY <1>2, EntryType DEF StartScan, entry, Entries, Select
  <2>2. always'[sel'] \subseteq present[entry.db] /\ pattern' = pattern
    BY <2>1 DEF TypeOK, server, pattern
  <2>3. ScanCovers'
    BY <2>1, <2>2, ToSetEmpty DEF ScanCovers
  <2>4. Shrinks
    BY <1>0, <2>1
  <2> QED
    BY <2>1, <2>3, <2>4, ListStays, CountsStay
<1>3. ASSUME EndExpanding PROVE KeyListInv'
  <2>1. /\ pc' = "entry" /\ ~ counting /\ counting' /\ idx > Len(CheckKeys)
        /\ allKeys' = Singles \o expanded
        /\ UNCHANGED <<server, expanded, counts, skipped>>
    BY <1>3 DEF EndExpanding, KeepExpanded, StartCounting
  <2>2. Shrinks /\ (\A c : Failed(c)' = Failed(c))
    BY <1>0, <2>1 DEF Failed
  <2>3. ASSUME NEW i \in DOMAIN CheckKeys \ Failed("SCAN") PROVE Covered(i, expanded)'
    <3>1. i < idx
      BY <2>1, CheckKeyType, EntriesLen DEF TypeOK, Entries
    <3>2. Covered(i, expanded)
      BY <2>1, <3>1 DEF ListBuilt
    <3> QED
      BY <2>1, <2>2, <3>2, CoveredStays
  <2>4. ListBuilt'
    BY <2>1, <2>2, <2>3, RightfulList DEF ListBuilt
  <2> QED
    BY <2>1, <2>2, <2>4, CountsStay DEF ScanCovers
<1>4. ASSUME EndCounting PROVE KeyListInv'
  <2>1. pc' # "scan" /\ UNCHANGED <<server, idx, counting, expanded, allKeys, counts, skipped>>
    BY <1>4 DEF EndCounting
  <2>2. Shrinks
    BY <1>0, <2>1
  <2> QED
    BY <2>1, <2>2, ListStays, CountsStay DEF ScanCovers
<1> QED
  BY <1>1, <1>2, <1>3, <1>4

(* A command that fails.                                                    *)
LEMMA FailedStep ==
  ASSUME TypeOK, KeyListInv
  PROVE  /\ SelectError => KeyListInv'
         /\ ScanError => KeyListInv'
<1> USE DEF KeyListInv
<1>0. UNCHANGED server => Shrinks
  BY DEF server, Shrinks
<1>1. ASSUME SelectError PROVE KeyListInv'
  <2>1. /\ pc' = "entry" /\ UNCHANGED <<server, expanded, counts>> /\ Skip("SELECT")
    BY <1>1 DEF SelectError
  <2>2. Shrinks /\ \A c \in {"SELECT", "SCAN"} :
           Failed(c)' = IF c = "SELECT" /\ ~ counting THEN Failed(c) \cup {idx} ELSE Failed(c)
    BY <1>0, <2>1, SkipType
  <2>3. \A pair \in ToSet(expanded') : Rightful(pair)'
    BY <2>1, <2>2, RightfulList
  <2>4. \A i \in DOMAIN CheckKeys : Covered(i, expanded) => Covered(i, expanded)'
    BY <2>1, <2>2, CoveredStays
  <2>5. CASE counting
    <3>1. counting' /\ allKeys' = allKeys
      BY <1>1, <2>5 DEF SelectError
    <3>2. ListBuilt'
      BY <2>1, <2>2, <2>3, <2>4, <2>5, <3>1 DEF ListBuilt
    <3> QED
      BY <2>1, <2>2, <3>2, CountsStay DEF ScanCovers
  <2>6. CASE ~ counting
    <3>1. counting' /\ allKeys' = Singles
      BY <1>1, <2>6 DEF SelectError, DropExpanded, StartCounting
    <3>2. ListBuilt'
      BY <2>2, <2>3, <2>6, <3>1 DEF ListBuilt
    <3> QED
      BY <2>1, <2>2, <3>2, CountsStay DEF ScanCovers
  <2> QED
    BY <2>5, <2>6
<1>2. ASSUME ScanError PROVE KeyListInv'
  <2>1. /\ pc' = "entry" /\ UNCHANGED <<server, counting, expanded, allKeys, counts>>
        /\ Skip("SCAN") /\ idx' = idx + 1 /\ idx \in Nat
    BY <1>2, EntriesLen DEF ScanError, TypeOK, Entries
  <2>2. Shrinks /\ \A c \in {"SELECT", "SCAN"} :
           Failed(c)' = IF c = "SCAN" /\ ~ counting THEN Failed(c) \cup {idx} ELSE Failed(c)
    BY <1>0, <2>1, SkipType
  <2>3. \A pair \in ToSet(expanded') : Rightful(pair)'
    BY <2>1, <2>2, RightfulList
  <2>4. \A i \in DOMAIN CheckKeys : Covered(i, expanded) => Covered(i, expanded)'
    BY <2>1, <2>2, CoveredStays
  <2>5. \A i \in DOMAIN CheckKeys \ Failed("SCAN")' :
           ~ counting /\ i < idx' => Covered(i, expanded)'
    <3> SUFFICES ASSUME NEW i \in DOMAIN CheckKeys \ Failed("SCAN")', ~ counting, i < idx'
                 PROVE  Covered(i, expanded)'
      OBVIOUS
    <3>1. i \notin Failed("SCAN") /\ i < idx
      BY <2>1, <2>2, CheckKeyType
    <3> QED
      BY <2>4, <3>1 DEF ListBuilt
  <2>6. ListBuilt'
    BY <2>1, <2>2, <2>3, <2>4, <2>5 DEF ListBuilt
  <2> QED
    BY <2>1, <2>2, <2>6, CountsStay DEF ScanCovers
<1> QED
  BY <1>1, <1>2

(* Other clients.                                                           *)
LEMMA WriteStep ==
  ASSUME TypeOK, KeyListInv, NEW d \in DBs, NEW k \in Keys, ClientWrite(d, k)
  PROVE  KeyListInv'
<1> USE DEF KeyListInv
<1>1. UNCHANGED <<sel, pc, idx, counting, keys, calls, expanded, allKeys, counts, skipped>>
  BY DEF ClientWrite
<1>2. Shrinks
  BY WriteEffect DEF Shrinks
<1>3. ScanCovers'
  <2> SUFFICES ASSUME pc = "scan" PROVE ScanCovers'
    BY <1>1 DEF ScanCovers
  <2>1. entry' = entry /\ pattern' = pattern /\ sel \in DBs
    BY <1>1, KeyListAssumption DEF entry, pattern, Entries, TypeOK
  <2>2. entry.key \in Patterns /\ ToSet(keys) \subseteq ever[sel] \cap pattern
        /\ always[sel] \cap pattern \subseteq owed \cup ToSet(keys)
    BY DEF ScanCovers
  <2>3. always'[sel] \cap pattern \subseteq owed' \cup ToSet(keys)
    BY <2>1, <2>2, WriteEffect
  <2> QED
    BY <1>1, <1>2, <2>1, <2>2, <2>3 DEF ScanCovers, Shrinks
<1> QED
  BY <1>1, <1>2, <1>3, ListStays, CountsStay

(* A SCAN that ends has returned every key that was there all along.        *)
LEMMA ScanStep ==
  ASSUME TypeOK, KeyListInv, ScanCall
  PROVE  KeyListInv'
<1> USE DEF KeyListInv
<1>1. PICK batch \in SUBSET (present[sel] \cap pattern), done \in BOOLEAN :
        /\ owed' = owed \ batch
        /\ done => owed' = {}
        /\ calls' = calls + 1
        /\ keys' = keys \o SetToSeq(batch)
        /\ IF ~ Stops(batch, done) THEN UNCHANGED <<pc, idx, expanded, counts>>
           ELSE /\ pc' = "entry"
                /\ idx' = idx + 1
                /\ IF counting
                   THEN counts' = counts \o <<[entry |-> idx, n |-> Len(keys')]>>
                        /\ UNCHANGED expanded
                   ELSE expanded' = expanded
                                      \o [i \in DOMAIN keys' |-> [db |-> entry.db, key |-> keys'[i]]]
                        /\ UNCHANGED counts
  BY DEF ScanCall
<1>2. /\ pc = "scan" /\ sel = entry.db /\ sel \in DBs /\ idx \in DOMAIN Entries
      /\ Entries[idx] = entry /\ entry.key \in Patterns
      /\ UNCHANGED <<server, sel, counting, allKeys, skipped>>
  BY EntryType, KeyListAssumption DEF ScanCall, TypeOK, ScanCovers
<1>3. Shrinks /\ UNCHANGED <<ever, always>> /\ (\A c : Failed(c)' = Failed(c))
  BY <1>2 DEF server, Shrinks, Failed
<1>4. keys' \in Seq(Keys) /\ ToSet(keys') = ToSet(keys) \cup batch /\ Len(keys') \in Nat
  BY <1>1, BatchAdded
<1>5. /\ ToSet(keys') \subseteq ever[sel] \cap pattern
      /\ always[sel] \cap pattern \subseteq owed' \cup ToSet(keys')
  BY <1>1, <1>2, <1>4 DEF ScanCovers, TypeOK
<1>6. CASE ~ Stops(batch, done)
  <2>1. UNCHANGED <<pc, idx, counting, expanded, allKeys, counts, skipped>> /\ entry' = entry
        /\ pattern' = pattern
    BY <1>1, <1>2, <1>6 DEF entry, pattern, Entries
  <2>2. ScanCovers'
    BY <1>2, <1>3, <1>5, <2>1 DEF ScanCovers
  <2> QED
    BY <1>3, <2>1, <2>2, ListStays, CountsStay
<1>7. CASE Stops(batch, done)
  <2>1. pc' = "entry" /\ idx' = idx + 1 /\ owed' = {} /\ ScanCovers'
    BY <1>1, <1>7 DEF Stops, ScanCovers
  <2>2. always[sel] \cap pattern \subseteq ToSet(keys')
    BY <1>5, <2>1
  <2>3. CASE counting
    <3>1. UNCHANGED <<expanded, allKeys, counting, skipped>>
      BY <1>1, <1>2, <1>7, <2>3
    <3>2. ListBuilt'
      <4>1. \A pair \in ToSet(expanded') : Rightful(pair)'
        BY <1>3, <3>1, RightfulList
      <4>2. \A i \in DOMAIN CheckKeys : Covered(i, expanded) => Covered(i, expanded)'
        BY <1>3, <3>1, CoveredStays
      <4> QED
        BY <1>3, <2>3, <3>1, <4>1, <4>2 DEF ListBuilt
    <3>3. CountsEveryKey'
      <4> DEFINE new == [entry |-> idx, n |-> Len(keys')]
      <4>1. counts' = counts \o <<new>> /\ idx \in DOMAIN CountKeys /\ CountKeys[idx] = entry
        BY <1>1, <1>2, <1>7, <2>3 DEF Entries
      <4>2. new \in [entry : DOMAIN CountKeys, n : Nat]
        BY <1>4, <4>1
      <4>3. new.entry = idx /\ new.n = Len(keys')
        OBVIOUS
      <4> HIDE DEF new
      <4>4. counts \in Seq([entry : DOMAIN CountKeys, n : Nat])
            /\ <<new>> \in Seq([entry : DOMAIN CountKeys, n : Nat]) /\ Len(<<new>>) = 1
            /\ <<new>>[1] = new
        BY <4>2 DEF TypeOK
      <4>5. /\ Len(counts) \in Nat /\ DOMAIN counts = 1 .. Len(counts)
            /\ DOMAIN counts' = 1 .. Len(counts) + 1
            /\ \A i \in 1 .. Len(counts) : counts'[i] = counts[i]
            /\ counts'[Len(counts) + 1] = new
        BY <4>1, <4>4, ConcatProperties, LenProperties
      <4>6. Len(keys') >= Cardinality(always[entry.db] \cap Matches[entry.key])
        <5>1. ToSet(keys') \in SUBSET Keys /\ always[sel] \cap pattern \in SUBSET ToSet(keys')
          BY <1>4, <2>2, ToSetType
        <5>2. /\ Cardinality(always[sel] \cap pattern) \in Nat
              /\ Cardinality(ToSet(keys')) \in Nat
              /\ Cardinality(always[sel] \cap pattern) <= Cardinality(ToSet(keys'))
          BY <5>1, SmallerSet
        <5>3. Cardinality(ToSet(keys')) <= Len(keys')
          BY <1>4, ToSetCardinality
        <5> QED
          BY <1>2, <1>4, <5>2, <5>3 DEF pattern
      <4>7. ASSUME NEW i \in DOMAIN counts'
            PROVE  counts'[i].n >= Cardinality(always'[CountKeys[counts'[i].entry].db]
                                                 \cap Matches[CountKeys[counts'[i].entry].key])
        <5>1. CASE i \in 1 .. Len(counts)
          BY <1>3, <4>5, <5>1, CountStays
        <5>2. CASE i = Len(counts) + 1
          BY <1>3, <4>1, <4>3, <4>5, <4>6, <5>2
        <5> QED
          BY <4>5, <5>1, <5>2
      <4> QED
        BY <4>7 DEF CountsEveryKey
    <3> QED
      BY <2>1, <3>2, <3>3
  <2>4. CASE ~ counting
    <3> DEFINE found == [i \in DOMAIN keys' |-> [db |-> entry.db, key |-> keys'[i]]]
    <3>1. expanded' = expanded \o found /\ UNCHANGED <<allKeys, counting, skipped, counts>>
      BY <1>1, <1>2, <1>7, <2>4
    <3>2. found \in Seq(Pairs) /\ ToSet(found) = {[db |-> entry.db, key |-> k] : k \in ToSet(keys')}
      BY <1>2, <1>4, PairsListed
    <3>3. idx \in DOMAIN CheckKeys /\ CheckKeys[idx] = entry
      BY <1>2, <2>4 DEF Entries
    <3> HIDE DEF found
    <3>4. ToSet(expanded') = ToSet(expanded) \cup ToSet(found)
      BY <3>1, <3>2, ToSetConcat DEF TypeOK
    <3>5. \A pair \in ToSet(expanded') : Rightful(pair)'
      <4>1. \A pair \in ToSet(expanded) : Rightful(pair)'
        BY <1>3, RightfulStays, ToSetType DEF ListBuilt, TypeOK
      <4>2. ASSUME NEW pair \in ToSet(found) PROVE Rightful(pair)
        <5>1. PICK k \in ToSet(keys') : pair = [db |-> entry.db, key |-> k]
          BY <3>2
        <5>2. k \in ever[entry.db] /\ k \in Matches[entry.key]
          BY <1>2, <1>5, <5>1 DEF pattern
        <5> QED
          BY <1>2, <3>3, <5>1, <5>2 DEF Rightful
      <4>3. \A pair \in ToSet(found) : pair \in Pairs
        BY <3>2, ToSetType
      <4> QED
        BY <1>3, <3>4, <4>1, <4>2, <4>3, RightfulStays
    <3>6. ASSUME NEW i \in DOMAIN CheckKeys \ Failed("SCAN"), i < idx' PROVE Covered(i, expanded)'
      <4>1. CASE i = idx
        <5>1. \A k \in always'[entry.db] \cap Matches[entry.key] :
                 [db |-> entry.db, key |-> k] \in ToSet(found)
          BY <1>2, <1>3, <2>2, <3>2 DEF pattern
        <5> QED
          BY <3>3, <3>4, <4>1, <5>1 DEF Covered
      <4>2. CASE i # idx
        <5>1. i < idx
          BY <2>1, <3>3, <3>6, <4>2, CheckKeyType
        <5>2. Covered(i, expanded)
          BY <2>4, <5>1 DEF ListBuilt
        <5> QED
          BY <1>3, <3>4, <5>2, CoveredStays
      <4> QED
        BY <4>1, <4>2
    <3>7. ListBuilt'
      BY <1>3, <2>4, <3>1, <3>5, <3>6 DEF ListBuilt
    <3>8. CountsEveryKey'
      BY <1>3, <3>1, CountsStay
    <3> QED
      BY <2>1, <3>7, <3>8
  <2> QED
    BY <2>3, <2>4
<1> QED
  BY <1>6, <1>7

LEMMA KeyListInit == Init => KeyListInv
<1> SUFFICES ASSUME Init PROVE KeyListInv
  OBVIOUS
<1>1. ToSet(expanded) = {} /\ idx = 1 /\ ~ counting /\ allKeys = <<>> /\ pc # "scan"
  BY ToSetEmpty DEF Init
<1>2. ~ \E i \in DOMAIN CheckKeys : i < idx
  BY <1>1, CheckKeyType
<1>3. CountsEveryKey
  BY DEF Init, CountsEveryKey
<1> QED
  BY <1>1, <1>2, <1>3 DEF KeyListInv, ScanCovers, ListBuilt

LEMMA KeyListStep == TypeOK /\ KeyListInv /\ [Next]_vars => KeyListInv'
<1> SUFFICES ASSUME TypeOK, KeyListInv, [Next]_vars PROVE KeyListInv'
  OBVIOUS
<1>1. CASE UNCHANGED vars
  <2>1. Shrinks
    BY <1>1 DEF vars, server, Shrinks
  <2>2. ScanCovers'
    BY <1>1 DEF vars, server, KeyListInv, ScanCovers, entry, pattern, Entries
  <2> QED
    BY <1>1, <2>1, <2>2, ListStays, CountsStay DEF vars, server, KeyListInv
<1> QED
  BY <1>1, QuietStep, FailedStep, ScanStep, WriteStep DEF Next, Bounded, Done

LEMMA KeyListInvariant == Spec => [](TypeOK /\ KeyListInv)
<1>1. Init => TypeOK /\ KeyListInv
  BY InitType, KeyListInit
<1>2. TypeOK /\ KeyListInv /\ [Next]_vars => (TypeOK /\ KeyListInv)'
  BY TypeStep, KeyListStep
<1> QED
  BY <1>1, <1>2, PTL DEF Spec

-----------------------------------------------------------------------------
(* For any order of SCAN's replies, of other clients' writes and of         *)
(* failures: a key there all along that a pattern of --check-keys matches   *)
(* is in the list extractCheckKeyMetrics samples, unless its own SCAN or a  *)
(* SELECT failed.                                                           *)
THEOREM ScannedKeysCorrect == Spec => []ScannedKeysListed
<1>1. TypeOK /\ KeyListInv => ScannedKeysListed
  <2> SUFFICES ASSUME TypeOK, KeyListInv, counting, Failed("SELECT") = {},
                      NEW i \in DOMAIN CheckKeys \ Failed("SCAN"), CheckKeys[i].key \in Patterns,
                      NEW k \in always[CheckKeys[i].db] \cap Matches[CheckKeys[i].key]
               PROVE  [db |-> CheckKeys[i].db, key |-> k] \in Listed
    BY DEF ScannedKeysListed
  <2>1. allKeys = Singles \o expanded /\ Covered(i, expanded)
    BY DEF KeyListInv, ListBuilt
  <2>2. ToSet(allKeys) = ToSet(Singles) \cup ToSet(expanded)
    BY <2>1, ToSetConcat, KeyListAssumption DEF TypeOK
  <2> QED
    BY <2>1, <2>2 DEF Covered, Listed
<1> QED
  BY <1>1, KeyListInvariant, PTL

(* Whatever fails, the keys of --check-single-keys come first in the list.  *)
THEOREM SinglesCorrect == Spec => []SinglesListed
<1>1. TypeOK /\ KeyListInv => SinglesListed
  <2> SUFFICES ASSUME TypeOK, KeyListInv, counting PROVE IsPrefix(Singles, allKeys)
    BY DEF SinglesListed
  <2>1. allKeys = Singles \o expanded \/ allKeys = Singles
    BY DEF KeyListInv, ListBuilt
  <2>2. Singles \in Seq(Pairs) /\ expanded \in Seq(Pairs)
    BY KeyListAssumption DEF TypeOK
  <2>3. IsPrefix(Singles, Singles \o expanded) /\ IsPrefix(Singles, Singles)
    BY <2>2, PrefixOfConcat
  <2> QED
    BY <2>1, <2>3
<1> QED
  BY <1>1, KeyListInvariant, PTL

(* Every pair in the list is named by an option, or its key was in the very *)
(* database the pattern that matches it is for.                             *)
THEOREM OnlyOwnKeys == Spec => []OnlyKeysOfTheirDb
<1>1. TypeOK /\ KeyListInv => OnlyKeysOfTheirDb
  <2> SUFFICES ASSUME TypeOK, KeyListInv, NEW pair \in Listed \cup ToSet(expanded)
               PROVE  pair \in ToSet(Singles) \/ Rightful(pair)
    BY DEF OnlyKeysOfTheirDb, Rightful
  <2>1. allKeys \in {<<>>, Singles, Singles \o expanded}
    BY DEF KeyListInv, ListBuilt, TypeOK
  <2>2. Listed \subseteq ToSet(Singles) \cup ToSet(expanded)
    <3>1. Singles \in Seq(Pairs) /\ expanded \in Seq(Pairs)
      BY KeyListAssumption DEF TypeOK
    <3>2. ToSet(Singles \o expanded) = ToSet(Singles) \cup ToSet(expanded)
      BY <3>1, ToSetConcat
    <3> QED
      BY <2>1, <3>2, ToSetEmpty DEF Listed
  <2> QED
    BY <2>2 DEF KeyListInv, ListBuilt
<1> QED
  BY <1>1, KeyListInvariant, PTL

(* keys_count never counts fewer keys than the pattern's database held all  *)
(* along, whatever was created, deleted or returned twice meanwhile.        *)
THEOREM KeysCountCorrect == Spec => []CountsEveryKey
<1>1. KeyListInv => CountsEveryKey
  BY DEF KeyListInv
<1> QED
  BY <1>1, KeyListInvariant, PTL

-----------------------------------------------------------------------------
(* The fold of GroupByDb, by the largest index left.                        *)
NoKeys == [d \in DBs |-> <<>>]

GroupStep(it, list, s) ==
  it[s] = IF s = {} THEN NoKeys ELSE AppendKey(it[s \ {Largest(s)}], list[Largest(s)])

GroupRec(it, list) ==
  it = [s \in SUBSET DOMAIN list |->
          IF s = {} THEN NoKeys ELSE AppendKey(it[s \ {Largest(s)}], list[Largest(s)])]

(* GroupByDb is what such a function gives for all indices.                 *)
LEMMA GroupByDbIs ==
  ASSUME NEW list
  PROVE  GroupByDb(list) = (CHOOSE it : GroupRec(it, list))[DOMAIN list]
BY DEF GroupByDb, FoldLeft, MapThenFoldSet, GroupRec, Largest, Max, NoKeys

(* There is a function that satisfies the recursion.                        *)
LEMMA GroupExists ==
  ASSUME NEW list, DOMAIN list \subseteq Nat, IsFiniteSet(DOMAIN list)
  PROVE  \E it : GroupRec(it, list)
<1> DEFINE D == DOMAIN list
           Small(n) == {s \in SUBSET D : Cardinality(s) <= n}
           Stepped(n) == \E it : \A s \in Small(n) : GroupStep(it, list, s)
           P == {n \in Nat : Stepped(n)}
<1>1. \A s \in SUBSET D : IsFiniteSet(s) /\ Cardinality(s) \in Nat /\ s \in SUBSET Nat
  BY FS_Subset, FS_CardinalityType
<1>2. 0 \in P
  <2>1. \A s \in Small(0) : s = {}
    BY <1>1, NoneLeft
  <2>2. \A s \in Small(0) : GroupStep([t \in {{}} |-> NoKeys], list, s)
    BY <2>1 DEF GroupStep
  <2> QED
    BY <2>2
<1>3. ASSUME NEW n \in P PROVE n + 1 \in P
  <2>1. PICK it : \A s \in Small(n) : GroupStep(it, list, s)
    OBVIOUS
  <2> DEFINE new == [s \in Small(n + 1) |->
               IF s = {} THEN NoKeys ELSE AppendKey(it[s \ {Largest(s)}], list[Largest(s)])]
  <2>2. ASSUME NEW s \in Small(n + 1), s # {} PROVE s \ {Largest(s)} \in Small(n)
    <3>1. Largest(s) \in s
      BY <1>1, <2>2, LargestIs
    <3>2. Cardinality(s \ {Largest(s)}) = Cardinality(s) - 1
      BY <1>1, <3>1, FS_RemoveElement
    <3> QED
      BY <1>1, <3>2
  <2>3. \A s \in Small(n) : s \in Small(n + 1) /\ new[s] = it[s]
    BY <1>1, <2>1 DEF GroupStep
  <2>4. ASSUME NEW s \in Small(n + 1) PROVE GroupStep(new, list, s)
    <3>1. CASE s = {}
      BY <3>1 DEF GroupStep
    <3>2. CASE s # {}
      <4>1. new[s \ {Largest(s)}] = it[s \ {Largest(s)}]
        BY <2>2, <2>3, <3>2
      <4>2. new[s] = AppendKey(it[s \ {Largest(s)}], list[Largest(s)])
        BY <3>2
      <4> HIDE DEF new
      <4> QED
        BY <3>2, <4>1, <4>2 DEF GroupStep
    <3> QED
      BY <3>1, <3>2
  <2>5. Stepped(n + 1)
    <3> HIDE DEF new
    <3> QED
      BY <2>4
  <2> HIDE DEF Stepped
  <2> QED
    BY <2>5
<1>4. Cardinality(D) \in P
  <2> HIDE DEF P
  <2>1. P \in SUBSET Nat
    BY DEF P
  <2> QED
    BY <1>1, <1>2, <1>3, <2>1, NumberInduction
<1>5. PICK it : \A s \in Small(Cardinality(D)) : GroupStep(it, list, s)
  BY <1>4
<1>6. \A s \in SUBSET D : s \in Small(Cardinality(D))
  BY FS_Subset
<1> DEFINE all == [s \in SUBSET D |-> it[s]]
<1>7. \A s \in SUBSET D : s \ {Largest(s)} \in SUBSET D
  OBVIOUS
<1>8. GroupRec(all, list)
  <2>1. \A s \in SUBSET D : GroupStep(it, list, s)
    BY <1>5, <1>6
  <2>2. \A s \in SUBSET D :
          all[s] = IF s = {} THEN NoKeys ELSE AppendKey(all[s \ {Largest(s)}], list[Largest(s)])
    BY <1>7, <2>1 DEF GroupStep
  <2>3. all = [s \in SUBSET D |-> all[s]]
    OBVIOUS
  <2> HIDE DEF all
  <2> QED
    BY <2>2, <2>3 DEF GroupRec
<1> QED
  BY <1>8

(* GroupByDb takes the pairs one after the other: at[n] is what n pairs     *)
(* make.                                                                    *)
LEMMA GroupSteps ==
  ASSUME NEW K, NEW list \in Seq(K)
  PROVE  \E at : /\ at[0] = NoKeys
                 /\ \A n \in 0 .. Len(list) - 1 : at[n + 1] = AppendKey(at[n], list[n + 1])
                 /\ GroupByDb(list) = at[Len(list)]
<1>1. Len(list) \in Nat /\ DOMAIN list = 1 .. Len(list) /\ IsFiniteSet(DOMAIN list) /\ DOMAIN list \subseteq Nat
  <2>1. Len(list) \in Nat /\ DOMAIN list = 1 .. Len(list)
    BY LenProperties
  <2>2. Len(list) \in Int /\ 1 \in Int
    BY <2>1
  <2>3. IsFiniteSet(1 .. Len(list))
    BY <2>2, FS_Interval
  <2> QED
    BY <2>1, <2>3
<1>2. GroupRec(CHOOSE f : GroupRec(f, list), list)
  BY <1>1, GroupExists, Zenon
<1>3. PICK it : GroupRec(it, list) /\ GroupByDb(list) = it[DOMAIN list]
  BY <1>2, GroupByDbIs
<1> DEFINE at == [n \in 0 .. Len(list) |-> it[1 .. n]]
<1>4. at[0] = NoKeys
  <2>1. at[0] = it[{}] /\ {} \in SUBSET DOMAIN list
    BY <1>1
  <2> QED
    BY <1>3, <2>1 DEF GroupRec
<1>5. ASSUME NEW n \in 0 .. Len(list) - 1 PROVE at[n + 1] = AppendKey(at[n], list[n + 1])
  <2> DEFINE s == 1 .. n + 1
  <2>1. s \in SUBSET DOMAIN list /\ s # {} /\ s \in SUBSET Nat
    BY <1>1
  <2>0. IsFiniteSet(s)
    BY <1>1, <2>1, FS_Subset
  <2>2. Largest(s) \in s /\ \A y \in s : Largest(s) >= y
    <3> HIDE DEF s
    <3> QED
      BY <2>0, <2>1, LargestIs
  <2>3. n + 1 \in s /\ \A y \in s : n + 1 >= y
    BY <1>1
  <2>4. Largest(s) = n + 1
    <3> DEFINE l == Largest(s)
    <3> HIDE DEF l
    <3>1. l \in s /\ \A y \in s : l >= y
      BY <2>2 DEF l
    <3>2. l = n + 1
      BY <2>3, <3>1, <1>1
    <3> QED
      BY <3>2 DEF l
  <2>5. s \ {n + 1} = 1 .. n
    BY <1>1
  <2>6. it[s] = AppendKey(it[s \ {Largest(s)}], list[Largest(s)])
    <3> HIDE DEF s
    <3> QED
      BY <1>3, <2>1 DEF GroupRec
  <2>7. n + 1 \in 0 .. Len(list) /\ n \in 0 .. Len(list)
    BY <1>1
  <2> QED
    BY <2>4, <2>5, <2>6, <2>7
<1>6. GroupByDb(list) = at[Len(list)]
  BY <1>1, <1>3
<1> QED
  BY <1>4, <1>5, <1>6

(* The pairs of a database up to the i-th.                                  *)
PairsUpTo(list, i, d) == {j \in 1 .. i : list[j].db = d}

(* How many there are.                                                      *)
LEMMA PairsUpToIs ==
  ASSUME NEW list, NEW i \in Nat, NEW d
  PROVE  /\ IsFiniteSet(PairsUpTo(list, i, d)) /\ Cardinality(PairsUpTo(list, i, d)) \in Nat
         /\ PairsUpTo(list, 0, d) = {}
         /\ \A j \in 0 .. i : Cardinality(PairsUpTo(list, j, d)) <= Cardinality(PairsUpTo(list, i, d))
         /\ \A j \in 1 .. i : list[j].db = d => Cardinality(PairsUpTo(list, j, d)) >= 1
         /\ Cardinality(PairsUpTo(list, i + 1, d)) =
              IF list[i + 1].db = d THEN Cardinality(PairsUpTo(list, i, d)) + 1
              ELSE Cardinality(PairsUpTo(list, i, d))
<1>1. ASSUME NEW j \in Nat PROVE IsFiniteSet(PairsUpTo(list, j, d))
  <2>1. 1 \in Int /\ j \in Int /\ PairsUpTo(list, j, d) \in SUBSET (1 .. j)
    BY DEF PairsUpTo
  <2>2. IsFiniteSet(1 .. j)
    BY <2>1, FS_Interval
  <2> QED
    BY <2>1, <2>2, FS_Subset
<1>2. \A j \in Nat : Cardinality(PairsUpTo(list, j, d)) \in Nat
  BY <1>1, FS_CardinalityType
<1>3. PairsUpTo(list, 0, d) = {}
  BY DEF PairsUpTo
<1>4. ASSUME NEW j \in 0 .. i
      PROVE  Cardinality(PairsUpTo(list, j, d)) <= Cardinality(PairsUpTo(list, i, d))
  <2>1. PairsUpTo(list, j, d) \in SUBSET PairsUpTo(list, i, d)
    BY DEF PairsUpTo
  <2> QED
    BY <1>1, <2>1, FS_Subset
<1>5. ASSUME NEW j \in 1 .. i, list[j].db = d PROVE Cardinality(PairsUpTo(list, j, d)) >= 1
  <2>1. {j} \in SUBSET PairsUpTo(list, j, d)
    BY <1>5 DEF PairsUpTo
  <2>2. Cardinality({j}) = 1
    BY FS_Singleton
  <2> QED
    BY <1>1, <2>1, <2>2, FS_Subset
<1>6. Cardinality(PairsUpTo(list, i + 1, d)) =
        IF list[i + 1].db = d THEN Cardinality(PairsUpTo(list, i, d)) + 1
        ELSE Cardinality(PairsUpTo(list, i, d))
  <2>1. i + 1 \notin PairsUpTo(list, i, d)
    BY DEF PairsUpTo
  <2>2. Cardinality(PairsUpTo(list, i, d) \cup {i + 1}) = Cardinality(PairsUpTo(list, i, d)) + 1
    BY <1>1, <2>1, FS_AddElement
  <2>3. list[i + 1].db = d => PairsUpTo(list, i + 1, d) = PairsUpTo(list, i, d) \cup {i + 1}
    BY DEF PairsUpTo
  <2>4. list[i + 1].db # d => PairsUpTo(list, i + 1, d) = PairsUpTo(list, i, d)
    BY DEF PairsUpTo
  <2> QED
    BY <2>2, <2>3, <2>4
<1> QED
  BY <1>1, <1>2, <1>3, <1>4, <1>5, <1>6

(* f groups the first n pairs of list.                                      *)
Grouped(f, list, n, d) ==
  /\ Len(f[d]) = Cardinality(PairsUpTo(list, n, d))
  /\ \A i \in 1 .. n : list[i].db = d => f[d][Cardinality(PairsUpTo(list, i, d))] = list[i].key

(* One pair more goes behind those of its database.                         *)
LEMMA GroupsOneMore ==
  ASSUME NEW list \in Seq(Pairs), NEW n \in Nat, n + 1 <= Len(list),
         NEW f \in [DBs -> Seq(Keys)], NEW h, h = AppendKey(f, list[n + 1]),
         NEW d \in DBs, Grouped(f, list, n, d)
  PROVE  h \in [DBs -> Seq(Keys)] /\ Grouped(h, list, n + 1, d)
<1> DEFINE C(i) == Cardinality(PairsUpTo(list, i, d))
<1>0. PICK b, k : b = list[n + 1].db /\ k = list[n + 1].key
  OBVIOUS
<1>1. b \in DBs /\ k \in Keys
  <2>1. list[n + 1] \in Pairs
    BY ElementOfSeq, LenProperties
  <2> QED
    BY <1>0, <2>1 DEF Pairs
<1>2. h = [f EXCEPT ![b] = Append(f[b], k)] /\ Append(f[b], k) \in Seq(Keys)
  BY <1>0, <1>1, AppendProperties DEF AppendKey
<1>3. h \in [DBs -> Seq(Keys)]
  BY <1>1, <1>2
<1>4. /\ C(n) \in Nat /\ C(n + 1) = IF b = d THEN C(n) + 1 ELSE C(n)
      /\ \A i \in 1 .. n : C(i) \in Nat /\ C(i) <= C(n) /\ (list[i].db = d => C(i) >= 1)
  BY <1>0, PairsUpToIs
<1> HIDE DEF C
<1>5. CASE b # d
  <2>1. h[d] = f[d]
    BY <1>2, <1>5
  <2>2. Len(h[d]) = C(n + 1)
    BY <1>4, <1>5, <2>1 DEF Grouped, C
  <2>3. ASSUME NEW i \in 1 .. n + 1, list[i].db = d PROVE h[d][C(i)] = list[i].key
    <3>1. i \in 1 .. n
      BY <1>0, <1>5, <2>3
    <3> QED
      BY <2>1, <2>3, <3>1 DEF Grouped, C
  <2> QED
    BY <1>3, <2>2, <2>3 DEF Grouped, C
<1>6. CASE b = d
  <2>1. h[d] = Append(f[d], k) /\ f[d] \in Seq(Keys)
    BY <1>2, <1>6
  <2>2. /\ Len(h[d]) = Len(f[d]) + 1 /\ h[d][Len(f[d]) + 1] = k
        /\ \A j \in 1 .. Len(f[d]) : h[d][j] = f[d][j]
    BY <1>1, <2>1, AppendProperties
  <2>3. Len(f[d]) = C(n)
    BY DEF Grouped, C
  <2>4. Len(h[d]) = C(n + 1)
    BY <1>4, <1>6, <2>2, <2>3
  <2>5. ASSUME NEW i \in 1 .. n + 1, list[i].db = d PROVE h[d][C(i)] = list[i].key
    <3>1. CASE i = n + 1
      BY <1>0, <1>4, <1>6, <2>2, <2>3, <3>1
    <3>2. CASE i \in 1 .. n
      <4>1. C(i) \in 1 .. Len(f[d])
        BY <1>4, <2>3, <2>5, <3>2
      <4>2. f[d][C(i)] = list[i].key
        BY <2>5, <3>2 DEF Grouped, C
      <4> QED
        BY <2>2, <4>1, <4>2
    <3> QED
      BY <3>1, <3>2
  <2> QED
    BY <1>3, <2>4, <2>5 DEF Grouped, C
<1> QED
  BY <1>5, <1>6

(* By induction over the pairs.                                             *)
LEMMA GroupByDbGroups ==
  ASSUME NEW list \in Seq(Pairs), NEW d \in DBs
  PROVE  Grouped(GroupByDb(list), list, Len(list), d)
<1>1. PICK at : /\ at[0] = NoKeys
                /\ \A n \in 0 .. Len(list) - 1 : at[n + 1] = AppendKey(at[n], list[n + 1])
                /\ GroupByDb(list) = at[Len(list)]
  BY GroupSteps
<1> DEFINE Good(n) == at[n] \in [DBs -> Seq(Keys)] /\ Grouped(at[n], list, n, d)
           P == {n \in Nat : n <= Len(list) => Good(n)}
<1>2. Len(list) \in Nat
  BY LenProperties
<1>3. 0 \in P
  <2>1. at[0] \in [DBs -> Seq(Keys)] /\ at[0][d] = <<>>
    BY <1>1, EmptySeq DEF NoKeys
  <2>2. Cardinality(PairsUpTo(list, 0, d)) = 0
    BY PairsUpToIs, FS_EmptySet
  <2>3. Good(0)
    BY <2>1, <2>2, EmptySeq DEF Grouped
  <2> HIDE DEF Good
  <2> QED
    BY <2>3
<1>4. ASSUME NEW n \in P PROVE n + 1 \in P
  <2> SUFFICES ASSUME n + 1 <= Len(list) PROVE Good(n + 1)
    OBVIOUS
  <2>1. n \in Nat /\ Good(n) /\ at[n + 1] = AppendKey(at[n], list[n + 1])
    BY <1>1, <1>2
  <2> QED
    BY <2>1, GroupsOneMore
<1>5. Len(list) \in P
  <2> HIDE DEF P
  <2>1. P \in SUBSET Nat
    BY DEF P
  <2> QED
    BY <1>2, <1>3, <1>4, <2>1, NumberInduction
<1> QED
  BY <1>1, <1>5

(* GroupedFaithfully: for a list of any length.                             *)
THEOREM GroupedCorrect == Spec => []GroupedFaithfully
<1>1. ASSUME TypeOK PROVE GroupedFaithfully
  <2> SUFFICES ASSUME NEW d \in DBs
               PROVE  LET byDb == GroupByDb(allKeys)
                          UpTo(i) == {j \in 1 .. i : allKeys[j].db = d}
                      IN /\ Len(byDb[d]) = Cardinality(UpTo(Len(allKeys)))
                         /\ \A i \in UpTo(Len(allKeys)) :
                              byDb[d][Cardinality(UpTo(i))] = allKeys[i].key
    BY DEF GroupedFaithfully
  <2>1. PICK list : list = allKeys /\ list \in Seq(Pairs)
    BY <1>1 DEF TypeOK
  <2>2. Grouped(GroupByDb(list), list, Len(list), d)
    BY <2>1, GroupByDbGroups
  <2> QED
    BY <2>1, <2>2 DEF Grouped, PairsUpTo
<1> QED
  BY <1>1, KeyListTypeCorrect, PTL
=============================================================================
