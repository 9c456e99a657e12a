--------------------------- MODULE KeyGroupsProofs ---------------------------
(***************************************************************************)
(* Proofs about KeyGroups.  The script folds Classify over the keys of a    *)
(* batch and the exporter sums over groups; the facts about both folds are  *)
(* proved by induction over the number of keys, with the least number       *)
(* principle of SequenceFacts.  What the invariant rests on is Tally: the   *)
(* table of groups is at every moment what the keys returned so far add up  *)
(* to.                                                                      *)
(***************************************************************************)
EXTENDS KeyGroups, SequenceFacts

(* The recursion of Sum, with f[g][field] for the weight of g.              *)
FieldRec(it, f, S, field) ==
  it = [s \in SUBSET S |-> IF s = {} THEN 0 ELSE f[Chosen(s)][field] + it[s \ {Chosen(s)}]]

(* Sum is the sum of SequenceFacts.                                         *)
LEMMA SumIs ==
  ASSUME NEW f, NEW S, NEW field, IsFiniteSet(S), NEW w,
         \A g \in S : w[g] \in Nat /\ w[g] = f[g][field]
  PROVE  Sum(f, S, field) = SumOver(w, S)
<1>1. Sum(f, S, field) = (CHOOSE it : FieldRec(it, f, S, field))[S]
  BY DEF Sum, MapThenSumSet, MapThenFoldSet, FieldRec, Chosen
<1>2. ASSUME NEW it PROVE FieldRec(it, f, S, field) <=> SumRec(it, w, S)
  <2>1. \A s \in SUBSET S : s # {} => Chosen(s) \in S
    BY DEF Chosen
  <2>2. \A s \in SUBSET S : s # {} => w[Chosen(s)] = f[Chosen(s)][field]
    BY <2>1
  <2> QED
    BY <2>2 DEF FieldRec, SumRec
<1>3. \E it : FieldRec(it, f, S, field)
  BY <1>2, SumExists
<1>4. FieldRec(CHOOSE it : FieldRec(it, f, S, field), f, S, field)
  BY <1>3, Zenon
<1>5. SumRec(CHOOSE it : FieldRec(it, f, S, field), w, S)
  BY <1>2, <1>4
<1> QED
  BY <1>1, <1>5, SumDefined

(* The recursion of Totals.                                                 *)
TotalRec(it, S, field) ==
  it = [s \in SUBSET S |-> IF s = {} THEN 0 ELSE Chosen(s)[field] + it[s \ {Chosen(s)}]]

(* Totals is a sum, too.                                                    *)
LEMMA TotalsIs ==
  ASSUME NEW S, NEW field, IsFiniteSet(S), NEW w, \A m \in S : w[m] \in Nat /\ w[m] = m[field]
  PROVE  Totals(S, field) = SumOver(w, S)
<1>1. Totals(S, field) = (CHOOSE it : TotalRec(it, S, field))[S]
  BY DEF Totals, MapThenSumSet, MapThenFoldSet, TotalRec, Chosen
<1>2. ASSUME NEW it PROVE TotalRec(it, S, field) <=> SumRec(it, w, S)
  <2>1. \A s \in SUBSET S : s # {} => Chosen(s) \in S
    BY DEF Chosen
  <2>2. \A s \in SUBSET S : s # {} => w[Chosen(s)] = Chosen(s)[field]
    BY <2>1
  <2> QED
    BY <2>2 DEF TotalRec, SumRec
<1>3. \E it : TotalRec(it, S, field)
  BY <1>2, SumExists
<1>4. TotalRec(CHOOSE it : TotalRec(it, S, field), S, field)
  BY <1>3, Zenon
<1>5. SumRec(CHOOSE it : TotalRec(it, S, field), w, S)
  BY <1>2, <1>4
<1> QED
  BY <1>1, <1>5, SumDefined

(* The places of the keys of a group.                                       *)
Indices(g, ks) == {i \in DOMAIN ks : Group[ks[i]] = g}

(* The recursion of MemoryIn.                                               *)
MemoryRec(it, S, ks) ==
  it = [s \in SUBSET S |-> IF s = {} THEN 0 ELSE Usage[ks[Chosen(s)]] + it[s \ {Chosen(s)}]]

(* MemoryIn is a sum, too.                                                  *)
LEMMA MemoryIs ==
  ASSUME NEW g, NEW ks, IsFiniteSet(Indices(g, ks)), NEW w,
         \A i \in Indices(g, ks) : w[i] \in Nat /\ w[i] = Usage[ks[i]]
  PROVE  MemoryIn(g, ks) = SumOver(w, Indices(g, ks))
<1> DEFINE S == Indices(g, ks)
<1>1. MemoryIn(g, ks) = (CHOOSE it : MemoryRec(it, S, ks))[S]
  BY DEF MemoryIn, MapThenSumSet, MapThenFoldSet, MemoryRec, Chosen, Indices
<1> HIDE DEF S
<1>2. ASSUME NEW it PROVE MemoryRec(it, S, ks) <=> SumRec(it, w, S)
  <2>1. \A s \in SUBSET S : s # {} => Chosen(s) \in S
    BY DEF Chosen
  <2>2. \A s \in SUBSET S : s # {} => w[Chosen(s)] = Usage[ks[Chosen(s)]]
    BY <2>1 DEF S
  <2> QED
    BY <2>2 DEF MemoryRec, SumRec
<1>0. IsFiniteSet(S) /\ \A i \in S : w[i] \in Nat
  BY DEF S
<1>3. \E it : MemoryRec(it, S, ks)
  BY <1>0, <1>2, SumExists
<1>4. MemoryRec(CHOOSE it : MemoryRec(it, S, ks), S, ks)
  BY <1>3, Zenon
<1>5. SumRec(CHOOSE it : MemoryRec(it, S, ks), w, S)
  BY <1>2, <1>4
<1>6. (CHOOSE it : MemoryRec(it, S, ks))[S] = SumOver(w, S)
  BY <1>0, <1>5, SumDefined
<1> QED
  BY <1>1, <1>6 DEF S

(* The accumulator the script begins with.                                  *)
Unused == [usage |-> 0, groups |-> NoGroups]

(* it[s] is what the script knows after the keys at the indices of s.       *)
BatchStep(it, ks, s) ==
  it[s] = IF s = {} THEN Unused ELSE Classify(it[s \ {Largest(s)}], ks[Largest(s)])

(* The recursion of Batch.                                                  *)
BatchRec(it, ks) ==
  it = [s \in SUBSET DOMAIN ks |->
          IF s = {} THEN Unused ELSE Classify(it[s \ {Largest(s)}], ks[Largest(s)])]

(* Batch is what a function that satisfies the recursion gives for all      *)
(* indices.                                                                 *)
LEMMA BatchIs ==
  ASSUME NEW ks
  PROVE  Batch(ks) = (CHOOSE it : BatchRec(it, ks))[DOMAIN ks].groups
BY DEF Batch, FoldLeft, MapThenFoldSet, BatchRec, Largest, Max, Unused

(* There is such a function.                                                *)
LEMMA BatchExists ==
  ASSUME NEW ks, DOMAIN ks \subseteq Nat, IsFiniteSet(DOMAIN ks)
  PROVE  \E it : BatchRec(it, ks)
<1> DEFINE D == DOMAIN ks
           Small(n) == {s \in SUBSET D : Cardinality(s) <= n}
           Stepped(n) == \E it : \A s \in Small(n) : BatchStep(it, ks, s)
           P == {n \in Nat : Stepped(n)}
<1>1. \A s \in SUBSET D : IsFiniteSet(s) /\ Cardinality(s) \in Nat /\ s \in SUBSET Nat
  BY FS_Subset, FS_CardinalityType
<1>2. 0 \in P
  <2>1. \A s \in Small(0) : s = {}
    BY <1>1, NoneLeft
  <2>2. \A s \in Small(0) : BatchStep([t \in {{}} |-> Unused], ks, s)
    BY <2>1 DEF BatchStep
  <2> QED
    BY <2>2
<1>3. ASSUME NEW n \in P PROVE n + 1 \in P
  <2>1. PICK it : \A s \in Small(n) : BatchStep(it, ks, s)
    OBVIOUS
  <2> DEFINE new == [s \in Small(n + 1) |->
               IF s = {} THEN Unused ELSE Classify(it[s \ {Largest(s)}], ks[Largest(s)])]
  <2>2. ASSUME NEW s \in Small(n + 1), s # {} PROVE s \ {Largest(s)} \in Small(n)
    <3>1. Largest(s) \in s
      BY <1>1, <2>2, LargestIs
    <3>2. Cardinality(s \ {Largest(s)}) = Cardinality(s) - 1
      BY <1>1, <3>1, FS_RemoveElement
    <3> QED
      BY <1>1, <3>2
  <2>3. \A s \in Small(n) : s \in Small(n + 1) /\ new[s] = it[s]
    BY <1>1, <2>1 DEF BatchStep
  <2>4. ASSUME NEW s \in Small(n + 1) PROVE BatchStep(new, ks, s)
    <3>1. CASE s = {}
      BY <3>1 DEF BatchStep
    <3>2. CASE s # {}
      <4>1. new[s \ {Largest(s)}] = it[s \ {Largest(s)}]
        BY <2>2, <2>3, <3>2
      <4>2. new[s] = Classify(it[s \ {Largest(s)}], ks[Largest(s)])
        BY <3>2
      <4> HIDE DEF new
      <4> QED
        BY <3>2, <4>1, <4>2 DEF BatchStep
    <3> QED
      BY <3>1, <3>2
  <2>5. Stepped(n + 1)
    <3> HIDE DEF new
    <3> QED
      BY <2>4
  <2> HIDE DEF Stepped
  <2> QED
    BY <2>5
<1>4. Cardinality(D) \in P
  <2> HIDE DEF P
  <2>1. P \in SUBSET Nat
    BY DEF P
  <2> QED
    BY <1>1, <1>2, <1>3, <2>1, NumberInduction
<1>5. PICK it : \A s \in Small(Cardinality(D)) : BatchStep(it, ks, s)
  BY <1>4
<1>6. \A s \in SUBSET D : s \in Small(Cardinality(D))
  BY FS_Subset
<1> DEFINE all == [s \in SUBSET D |-> it[s]]
<1>7. \A s \in SUBSET D : s \ {Largest(s)} \in SUBSET D
  OBVIOUS
<1>8. BatchRec(all, ks)
  <2>1. \A s \in SUBSET D : BatchStep(it, ks, s)
    BY <1>5, <1>6
  <2>2. \A s \in SUBSET D :
          all[s] = IF s = {} THEN Unused ELSE Classify(all[s \ {Largest(s)}], ks[Largest(s)])
    BY <1>7, <2>1 DEF BatchStep
  <2>3. all = [s \in SUBSET D |-> all[s]]
    OBVIOUS
  <2> HIDE DEF all
  <2> QED
    BY <2>2, <2>3 DEF BatchRec
<1> QED
  BY <1>8

(* So Batch classifies one key after the other: at[n] is what the script    *)
(* knows after n keys.                                                      *)
LEMMA BatchSteps ==
  ASSUME NEW K, NEW ks \in Seq(K)
  PROVE  \E at : /\ at[0] = Unused
                 /\ \A n \in 0 .. Len(ks) - 1 : at[n + 1] = Classify(at[n], ks[n + 1])
                 /\ Batch(ks) = at[Len(ks)].groups
<1>1. Len(ks) \in Nat /\ DOMAIN ks = 1 .. Len(ks) /\ IsFiniteSet(DOMAIN ks) /\ DOMAIN ks \subseteq Nat
  <2>1. Len(ks) \in Nat /\ DOMAIN ks = 1 .. Len(ks)
    BY LenProperties
  <2>2. Len(ks) \in Int /\ 1 \in Int
    BY <2>1
  <2>3. IsFiniteSet(1 .. Len(ks))
    BY <2>2, FS_Interval
  <2> QED
    BY <2>1, <2>3
<1>2. BatchRec(CHOOSE f : BatchRec(f, ks), ks)
  BY <1>1, BatchExists, Zenon
<1>3. PICK it : BatchRec(it, ks) /\ Batch(ks) = it[DOMAIN ks].groups
  BY <1>2, BatchIs
<1> DEFINE at == [n \in 0 .. Len(ks) |-> it[1 .. n]]
<1>4. at[0] = Unused
  <2>1. at[0] = it[{}] /\ {} \in SUBSET DOMAIN ks
    BY <1>1
  <2> QED
    BY <1>3, <2>1 DEF BatchRec
<1>5. ASSUME NEW n \in 0 .. Len(ks) - 1 PROVE at[n + 1] = Classify(at[n], ks[n + 1])
  <2> DEFINE s == 1 .. n + 1
  <2>1. s \in SUBSET DOMAIN ks /\ s # {} /\ s \in SUBSET Nat
    BY <1>1
  <2>0. IsFiniteSet(s)
    BY <1>1, <2>1, FS_Subset
  <2>2. Largest(s) \in s /\ \A y \in s : Largest(s) >= y
    <3> HIDE DEF s
    <3> QED
      BY <2>0, <2>1, LargestIs
  <2>3. n + 1 \in s /\ \A y \in s : n + 1 >= y
    BY <1>1
  <2>4. Largest(s) = n + 1
    <3> DEFINE l == Largest(s)
    <3> HIDE DEF l
    <3>1. l \in s /\ \A y \in s : l >= y
      BY <2>2 DEF l
    <3>2. l = n + 1
      BY <2>3, <3>1, <1>1
    <3> QED
      BY <3>2 DEF l
  <2>5. s \ {n + 1} = 1 .. n
    BY <1>1
  <2>6. it[s] = Classify(it[s \ {Largest(s)}], ks[Largest(s)])
    <3> HIDE DEF s
    <3> QED
      BY <1>3, <2>1 DEF BatchRec
  <2>7. n + 1 \in 0 .. Len(ks) /\ n \in 0 .. Len(ks)
    BY <1>1
  <2> QED
    BY <2>4, <2>5, <2>6, <2>7
<1>6. Batch(ks) = at[Len(ks)].groups
  BY <1>1, <1>3
<1> QED
  BY <1>4, <1>5, <1>6

(* What a key appended to a sequence changes: the places of its group.      *)
LEMMA IndicesAppend ==
  ASSUME NEW s \in Seq(Keys), NEW k \in Keys, NEW g
  PROVE  /\ Append(s, k) \in Seq(Keys)
         /\ Len(s) \in Nat /\ DOMAIN s = 1 .. Len(s)
         /\ Len(Append(s, k)) = Len(s) + 1
         /\ DOMAIN Append(s, k) = DOMAIN s \cup {Len(s) + 1}
         /\ Append(s, k)[Len(s) + 1] = k
         /\ \A i \in DOMAIN s : Append(s, k)[i] = s[i] /\ s[i] \in Keys
         /\ Len(s) + 1 \notin DOMAIN s
         /\ IsFiniteSet(Indices(g, s)) /\ Indices(g, s) \subseteq DOMAIN s
         /\ Indices(g, Append(s, k)) =
              IF Group[k] = g THEN Indices(g, s) \cup {Len(s) + 1} ELSE Indices(g, s)
<1>1. /\ Append(s, k) \in Seq(Keys) /\ Len(s) \in Nat /\ DOMAIN s = 1 .. Len(s)
      /\ Len(Append(s, k)) = Len(s) + 1
      /\ Append(s, k)[Len(s) + 1] = k
      /\ \A i \in DOMAIN s : Append(s, k)[i] = s[i]
  BY AppendProperties, LenProperties
<1>2. \A i \in DOMAIN s : s[i] \in Keys
  BY <1>1, ElementOfSeq
<1>3. DOMAIN Append(s, k) = DOMAIN s \cup {Len(s) + 1} /\ Len(s) + 1 \notin DOMAIN s
  <2>1. DOMAIN Append(s, k) = 1 .. Len(s) + 1
    BY <1>1, LenProperties
  <2> QED
    BY <1>1, <2>1
<1>4. Indices(g, s) \subseteq DOMAIN s
  BY DEF Indices
<1>5. IsFiniteSet(DOMAIN s)
  <2>1. Len(s) \in Int /\ 1 \in Int
    BY <1>1
  <2> QED
    BY <1>1, <2>1, FS_Interval
<1>6. IsFiniteSet(Indices(g, s))
  BY <1>4, <1>5, FS_Subset
<1>7. Indices(g, Append(s, k)) =
        IF Group[k] = g THEN Indices(g, s) \cup {Len(s) + 1} ELSE Indices(g, s)
  BY <1>1, <1>3 DEF Indices
<1> QED
  BY <1>1, <1>2, <1>3, <1>4, <1>6, <1>7

(* And the memory of its group, by the usage of the key.                    *)
LEMMA MemoryAppend ==
  ASSUME NEW s \in Seq(Keys), NEW k \in Keys, NEW g
  PROVE  /\ MemoryIn(g, s) \in Nat
         /\ Indices(g, s) = {} => MemoryIn(g, s) = 0
         /\ MemoryIn(g, Append(s, k)) = IF Group[k] = g THEN Usage[k] + MemoryIn(g, s)
                                        ELSE MemoryIn(g, s)
<1> DEFINE t == Append(s, k)
           w == [i \in DOMAIN t |-> Usage[t[i]]]
           S == Indices(g, s)
<1>1. /\ DOMAIN t = DOMAIN s \cup {Len(s) + 1} /\ t[Len(s) + 1] = k
      /\ \A i \in DOMAIN s : t[i] = s[i] /\ s[i] \in Keys
      /\ IsFiniteSet(S) /\ S \subseteq DOMAIN s /\ Len(s) + 1 \notin S
      /\ Indices(g, t) = IF Group[k] = g THEN S \cup {Len(s) + 1} ELSE S
  BY IndicesAppend
<1>2. IsFiniteSet(Indices(g, t))
  BY <1>1, FS_AddElement
<1>3. \A i \in DOMAIN t : w[i] = Usage[t[i]] /\ w[i] \in Nat
  BY <1>1, KeyGroupsAssumption DEF KeyGroupsAssumption
<1>4. \A i \in DOMAIN s : i \in DOMAIN t /\ w[i] = Usage[s[i]] /\ w[i] \in Nat
  BY <1>1, <1>3
<1>5. Indices(g, t) \subseteq DOMAIN t
  BY DEF Indices
<1>6. w[Len(s) + 1] = Usage[k] /\ w[Len(s) + 1] \in Nat
  BY <1>1, <1>3
<1> HIDE DEF w, t
<1>7. MemoryIn(g, s) = SumOver(w, S)
  <2>1. \A i \in S : w[i] \in Nat /\ w[i] = Usage[s[i]]
    BY <1>1, <1>4
  <2> QED
    BY <1>1, <2>1, MemoryIs
<1>8. MemoryIn(g, t) = SumOver(w, Indices(g, t))
  <2>1. \A i \in Indices(g, t) : w[i] \in Nat /\ w[i] = Usage[t[i]]
    BY <1>3, <1>5
  <2> QED
    BY <1>2, <2>1, MemoryIs
<1> HIDE DEF S
<1>9. \A i \in S : w[i] \in Nat
  BY <1>1, <1>4
<1>10. SumOver(w, S) \in Nat /\ SumOver(w, S \cup {Len(s) + 1}) = w[Len(s) + 1] + SumOver(w, S)
  BY <1>1, <1>6, <1>9, SumAdd, SumDefined
<1>11. S = {} => SumOver(w, S) = 0
  BY SumEmpty
<1> QED
  BY <1>1, <1>6, <1>7, <1>8, <1>10, <1>11 DEF t, S

(* The counts of a table of groups.                                         *)
Counts(f) == [g \in DOMAIN f |-> f[g].count]

(* An entry of a table.                                                     *)
Entries == [count : Nat, memory : Nat]

(* f is a table of groups, with numbers for entries.                        *)
Table(f) == f = [g \in DOMAIN f |-> f[g]] /\ \A g \in DOMAIN f : f[g] \in Entries

(* The entry of g is what the keys of s add up to.                          *)
EntryOf(f, s, g) ==
  /\ f[g].count = Cardinality(Indices(g, s))
  /\ f[g].count > 0
  /\ DeniedKeys = {} => f[g].memory = MemoryIn(g, s)

(* The groups of the keys of s.                                             *)
GroupsIn(s) == {Group[s[i]] : i \in DOMAIN s}

(* f is what the keys of s add up to, group by group: the count of every    *)
(* group, its memory unless the server refuses some, and no key lost in the *)
(* total.                                                                   *)
Tally(f, s) ==
  /\ Table(f)
  /\ DOMAIN f = GroupsIn(s)
  /\ \A g \in DOMAIN f : EntryOf(f, s, g)
  /\ SumOver(Counts(f), DOMAIN f) = Len(s)

(* What Add(f, g, 1, u) is.                                                 *)
AddedTo(f, g, u, n) ==
  /\ Table(n)
  /\ DOMAIN n = DOMAIN f \cup {g}
  /\ \A h \in DOMAIN f \ {g} : n[h] = f[h]
  /\ g \in DOMAIN f => n[g] = [count |-> f[g].count + 1, memory |-> f[g].memory + u]
  /\ g \notin DOMAIN f => n[g] = [count |-> 1, memory |-> u]

(* Add, of a table: one more key.                                           *)
LEMMA AddIs ==
  ASSUME NEW f, Table(f), NEW g, NEW u \in Nat
  PROVE  AddedTo(f, g, u, Add(f, g, 1, u))
<1> SUFFICES ASSUME NEW r, r = Add(f, g, 1, u)
             PROVE  AddedTo(f, g, u, r)
  OBVIOUS
<1>1. CASE g \in DOMAIN f
  <2> DEFINE e == [count |-> f[g].count + 1, memory |-> f[g].memory + u]
  <2>1. f[g].count \in Nat /\ f[g].memory \in Nat
    BY <1>1 DEF Table, Entries
  <2>2. e \in Entries
    BY <2>1 DEF Entries
  <2>3. r = [f EXCEPT ![g] = e]
    BY <1>1 DEF Add
  <2>4. DOMAIN r = DOMAIN f /\ r[g] = e /\ \A h \in DOMAIN f \ {g} : r[h] = f[h]
    BY <1>1, <2>3
  <2>5. r = [h \in DOMAIN r |-> r[h]]
    BY <2>3, <2>4
  <2>6. \A h \in DOMAIN r : r[h] \in Entries
    BY <2>2, <2>4 DEF Table
  <2> QED
    BY <1>1, <2>4, <2>5, <2>6 DEF Table, AddedTo
<1>2. CASE g \notin DOMAIN f
  BY <1>2 DEF Add, Table, Entries, AddedTo
<1> QED
  BY <1>1, <1>2

(* A key appended adds its group.                                           *)
LEMMA GroupsInAppend ==
  ASSUME NEW s \in Seq(Keys), NEW k \in Keys
  PROVE  /\ GroupsIn(Append(s, k)) = GroupsIn(s) \cup {Group[k]}
         /\ IsFiniteSet(GroupsIn(s))
         /\ \A g : g \in GroupsIn(s) <=> Indices(g, s) # {}
<1>1. /\ DOMAIN Append(s, k) = DOMAIN s \cup {Len(s) + 1}
      /\ Append(s, k)[Len(s) + 1] = k
      /\ \A i \in DOMAIN s : Append(s, k)[i] = s[i]
      /\ Len(s) \in Nat /\ DOMAIN s = 1 .. Len(s)
  BY IndicesAppend
<1>2. IsFiniteSet(DOMAIN s)
  <2>1. Len(s) \in Int /\ 1 \in Int
    BY <1>1
  <2> QED
    BY <1>1, <2>1, FS_Interval
<1>3. IsFiniteSet(GroupsIn(s))
  <2> DEFINE h == [i \in DOMAIN s |-> Group[s[i]]]
  <2>1. h \in Surjection(DOMAIN s, GroupsIn(s))
    BY Fun_IsSurj DEF GroupsIn
  <2> QED
    BY <1>2, <2>1, FS_Surjection
<1>4. \A g : g \in GroupsIn(s) <=> Indices(g, s) # {}
  BY DEF GroupsIn, Indices
<1>5. GroupsIn(Append(s, k)) = GroupsIn(s) \cup {Group[k]}
  BY <1>1 DEF GroupsIn
<1> QED
  BY <1>3, <1>4, <1>5

(* Adding one key to a tally gives the tally of the sequence with the key.  *)
LEMMA TallyOneMore ==
  ASSUME NEW f, NEW s \in Seq(Keys), NEW k \in Keys, NEW u \in Nat,
         DeniedKeys = {} => u = Usage[k], Tally(f, s)
  PROVE  Tally(Add(f, Group[k], 1, u), Append(s, k))
<1> SUFFICES ASSUME NEW b, b = Group[k], NEW n, n = Add(f, b, 1, u),
                    NEW t, t = Append(s, k)
             PROVE  Tally(n, t)
  OBVIOUS
<1>1. /\ Table(n) /\ DOMAIN n = DOMAIN f \cup {b}
      /\ \A h \in DOMAIN f \ {b} : n[h] = f[h]
      /\ b \in DOMAIN f => n[b] = [count |-> f[b].count + 1, memory |-> f[b].memory + u]
      /\ b \notin DOMAIN f => n[b] = [count |-> 1, memory |-> u]
  <2>1. AddedTo(f, b, u, n)
    BY AddIs DEF Tally
  <2> QED
    BY <2>1 DEF AddedTo
<1>2. DOMAIN n = GroupsIn(t) /\ IsFiniteSet(DOMAIN f)
  BY <1>1, GroupsInAppend DEF Tally
<1>3. /\ \A h \in DOMAIN f : f[h].count \in Nat /\ f[h].memory \in Nat
      /\ \A h \in DOMAIN n : n[h].count \in Nat
  BY <1>1 DEF Tally, Table, Entries
<1>4. ASSUME NEW g \in DOMAIN n PROVE EntryOf(n, t, g)
  <2>1. /\ IsFiniteSet(Indices(g, s)) /\ Len(s) + 1 \notin Indices(g, s)
        /\ Indices(g, t) = IF b = g THEN Indices(g, s) \cup {Len(s) + 1} ELSE Indices(g, s)
    BY IndicesAppend
  <2>2. /\ MemoryIn(g, t) = IF b = g THEN Usage[k] + MemoryIn(g, s) ELSE MemoryIn(g, s)
        /\ MemoryIn(g, s) \in Nat /\ (Indices(g, s) = {} => MemoryIn(g, s) = 0)
    BY MemoryAppend
  <2>3. Cardinality(Indices(g, s)) \in Nat
        /\ Cardinality(Indices(g, s) \cup {Len(s) + 1}) = Cardinality(Indices(g, s)) + 1
    BY <2>1, FS_AddElement, FS_CardinalityType
  <2>4. CASE g # b
    <3>1. g \in DOMAIN f /\ n[g] = f[g] /\ EntryOf(f, s, g)
      BY <1>1, <2>4 DEF Tally
    <3>2. Indices(g, t) = Indices(g, s) /\ MemoryIn(g, t) = MemoryIn(g, s)
      BY <2>1, <2>2, <2>4
    <3> QED
      BY <3>1, <3>2 DEF EntryOf
  <2>5. CASE g = b /\ b \in DOMAIN f
    <3>1. EntryOf(f, s, g) /\ n[g] = [count |-> f[g].count + 1, memory |-> f[g].memory + u]
      BY <1>1, <2>5 DEF Tally
    <3>2. n[g].count = f[g].count + 1 /\ n[g].memory = f[g].memory + u
      BY <3>1
    <3>3. Usage[k] \in Nat /\ f[g].memory \in Nat /\ f[g].count \in Nat
      BY <1>3, <2>5, KeyGroupsAssumption DEF KeyGroupsAssumption
    <3>4. n[g].count = Cardinality(Indices(g, t)) /\ n[g].count > 0
      BY <3>1, <3>2, <3>3, <2>1, <2>3, <2>5 DEF EntryOf
    <3>5. DeniedKeys = {} => n[g].memory = MemoryIn(g, t)
      BY <3>1, <3>2, <3>3, <2>2, <2>5 DEF EntryOf
    <3> QED
      BY <3>4, <3>5 DEF EntryOf
  <2>6. CASE g = b /\ b \notin DOMAIN f
    <3>1. Indices(g, s) = {}
      BY <2>6, GroupsInAppend DEF Tally
    <3>2. n[g].count = 1 /\ n[g].memory = u
      BY <1>1, <2>6
    <3>3. Usage[k] \in Nat
      BY KeyGroupsAssumption DEF KeyGroupsAssumption
    <3>4. Cardinality(Indices(g, s)) = 0
      BY <3>1, FS_EmptySet
    <3>5. n[g].count = Cardinality(Indices(g, t)) /\ n[g].count > 0
      BY <3>2, <3>4, <2>1, <2>3, <2>6
    <3>6. MemoryIn(g, t) = Usage[k]
      BY <3>1, <3>3, <2>2, <2>6
    <3> QED
      BY <3>2, <3>5, <3>6 DEF EntryOf
  <2> QED
    BY <2>4, <2>5, <2>6
<1>5. SumOver(Counts(n), DOMAIN n) = Len(t)
  <2> DEFINE D == DOMAIN f \ {b}
             w == Counts(f)
             v == Counts(n)
  <2>1. IsFiniteSet(D) /\ b \notin D /\ DOMAIN n = D \cup {b}
    BY <1>1, <1>2, FS_RemoveElement
  <2>2. /\ \A h \in D : w[h] \in Nat /\ w[h] = v[h] /\ v[h] \in Nat
        /\ v[b] \in Nat
        /\ b \in DOMAIN f => w[b] \in Nat /\ v[b] = w[b] + 1
        /\ b \notin DOMAIN f => v[b] = 1
    BY <1>1, <1>3 DEF Counts
  <2>3. SumOver(w, DOMAIN f) = Len(s) /\ Len(t) = Len(s) + 1 /\ Len(s) \in Nat
    BY IndicesAppend DEF Tally
  <2> HIDE DEF D, w, v
  <2>4. SumOver(w, D) = SumOver(v, D) /\ SumOver(v, D) \in Nat
    BY <2>1, <2>2, SumSame, SumDefined
  <2>5. SumOver(v, D \cup {b}) = v[b] + SumOver(v, D)
    BY <2>1, <2>2, SumAdd
  <2>6. CASE b \in DOMAIN f
    <3>1. DOMAIN f = D \cup {b}
      BY <2>6 DEF D
    <3>2. SumOver(w, D \cup {b}) = w[b] + SumOver(w, D)
      BY <2>1, <2>2, <2>6, SumAdd
    <3> QED
      BY <2>1, <2>2, <2>3, <2>4, <2>5, <2>6, <3>1, <3>2 DEF v
  <2>7. CASE b \notin DOMAIN f
    <3>1. DOMAIN f = D
      BY <2>7 DEF D
    <3> QED
      BY <2>1, <2>2, <2>3, <2>4, <2>5, <2>7, <3>1 DEF v
  <2> QED
    BY <2>6, <2>7
<1> QED
  BY <1>1, <1>2, <1>4, <1>5 DEF Tally

(* Adding a batch with one key more is adding the batch, then the key.      *)
LEMMA AddGroupsAdd ==
  ASSUME NEW f, Table(f), NEW B, Table(B), NEW g, NEW u \in Nat
  PROVE  /\ Table(AddGroups(f, B))
         /\ AddGroups(f, Add(B, g, 1, u)) = Add(AddGroups(f, B), g, 1, u)
<1> SUFFICES ASSUME NEW m, m = AddGroups(f, B), NEW r, r = Add(m, g, 1, u),
                    NEW C, C = Add(B, g, 1, u), NEW l, l = AddGroups(f, C)
             PROVE  Table(m) /\ l = r
  OBVIOUS
<1>1. Table(m) /\ DOMAIN m = DOMAIN f \cup DOMAIN B
  <2>1. DOMAIN m = DOMAIN f \cup DOMAIN B /\ m = [h \in DOMAIN m |-> m[h]]
    BY DEF AddGroups
  <2>2. \A h \in DOMAIN m : m[h] \in Entries
    BY DEF AddGroups, Table, Entries
  <2> QED
    BY <2>1, <2>2 DEF Table
<1>2. /\ Table(r) /\ DOMAIN r = DOMAIN m \cup {g}
      /\ \A h \in DOMAIN m \ {g} : r[h] = m[h]
      /\ g \in DOMAIN m => r[g] = [count |-> m[g].count + 1, memory |-> m[g].memory + u]
      /\ g \notin DOMAIN m => r[g] = [count |-> 1, memory |-> u]
  <2>1. AddedTo(m, g, u, r)
    BY <1>1, AddIs
  <2> QED
    BY <2>1 DEF AddedTo
<1>3. /\ Table(C) /\ DOMAIN C = DOMAIN B \cup {g}
      /\ \A h \in DOMAIN B \ {g} : C[h] = B[h]
      /\ g \in DOMAIN B => C[g] = [count |-> B[g].count + 1, memory |-> B[g].memory + u]
      /\ g \notin DOMAIN B => C[g] = [count |-> 1, memory |-> u]
  <2>1. AddedTo(B, g, u, C)
    BY <1>1, AddIs
  <2> QED
    BY <2>1 DEF AddedTo
<1>4. l = [h \in DOMAIN f \cup DOMAIN C |->
             IF h \notin DOMAIN f THEN C[h]
             ELSE IF h \notin DOMAIN C THEN f[h]
             ELSE [count |-> f[h].count + C[h].count, memory |-> f[h].memory + C[h].memory]]
  BY DEF AddGroups
<1>5. m = [h \in DOMAIN f \cup DOMAIN B |->
             IF h \notin DOMAIN f THEN B[h]
             ELSE IF h \notin DOMAIN B THEN f[h]
             ELSE [count |-> f[h].count + B[h].count, memory |-> f[h].memory + B[h].memory]]
  BY DEF AddGroups
<1>6. DOMAIN l = DOMAIN r /\ l = [h \in DOMAIN l |-> l[h]] /\ r = [h \in DOMAIN r |-> r[h]]
  BY <1>1, <1>2, <1>3, <1>4 DEF Table
<1>7. ASSUME NEW h \in DOMAIN r PROVE l[h] = r[h]
  <2>1. CASE h # g
    <3>1. h \in DOMAIN m /\ r[h] = m[h]
      BY <1>2, <2>1
    <3>2. h \in DOMAIN C <=> h \in DOMAIN B
      BY <1>3, <2>1
    <3>3. h \in DOMAIN B => C[h] = B[h]
      BY <1>3, <2>1
    <3>4. CASE h \notin DOMAIN B
      BY <1>1, <1>4, <1>5, <3>1, <3>2, <3>4
    <3>5. CASE h \in DOMAIN B
      BY <1>4, <1>5, <3>1, <3>2, <3>3, <3>5
    <3> QED
      BY <3>4, <3>5
  <2>2. CASE h = g
    <3>1. g \in DOMAIN f => f[g].count \in Nat /\ f[g].memory \in Nat
      BY DEF Table, Entries
    <3>2. g \in DOMAIN B => B[g].count \in Nat /\ B[g].memory \in Nat /\ B[g] \in Entries
      BY DEF Table, Entries
    <3>3. CASE g \in DOMAIN f /\ g \in DOMAIN B
      BY <1>1, <1>2, <1>3, <1>4, <1>5, <1>6, <2>2, <3>1, <3>2, <3>3
    <3>4. CASE g \in DOMAIN f /\ g \notin DOMAIN B
      BY <1>1, <1>2, <1>3, <1>4, <1>5, <1>6, <2>2, <3>1, <3>4
    <3>5. CASE g \notin DOMAIN f
      BY <1>1, <1>2, <1>3, <1>4, <1>5, <1>6, <2>2, <3>1, <3>2, <3>5
    <3> QED
      BY <3>3, <3>4, <3>5
  <2> QED
    BY <2>1, <2>2
<1>8. l = r
  BY <1>6, <1>7
<1> QED
  BY <1>1, <1>8

(* Nothing tallies with no key.                                             *)
LEMMA TallyEmpty == Tally(NoGroups, <<>>) /\ Table(NoGroups)
<1>1. DOMAIN NoGroups = {} /\ DOMAIN <<>> = {} /\ Len(<<>>) = 0
  BY DEF NoGroups
<1>2. NoGroups = [g \in DOMAIN NoGroups |-> NoGroups[g]]
  BY DEF NoGroups
<1>3. GroupsIn(<<>>) = {}
  BY DEF GroupsIn
<1>4. SumOver(Counts(NoGroups), DOMAIN NoGroups) = 0
  BY <1>1, SumEmpty
<1> QED
  BY <1>1, <1>2, <1>3, <1>4 DEF Tally, Table

(* An empty batch changes nothing.                                          *)
LEMMA AddNoGroups ==
  ASSUME NEW f, Table(f)
  PROVE  AddGroups(f, NoGroups) = f
BY DEF AddGroups, NoGroups, Table

(* RunScript adds a batch: the sums stay the tally of all the keys          *)
(* returned. By induction over the keys of the batch.                       *)
LEMMA TallyBatch ==
  ASSUME NEW f, NEW s \in Seq(Keys), NEW ks \in Seq(Keys), Tally(f, s)
  PROVE  Tally(AddGroups(f, Batch(ks)), s \o ks)
<1>1. PICK at : /\ at[0] = Unused
                /\ \A n \in 0 .. Len(ks) - 1 : at[n + 1] = Classify(at[n], ks[n + 1])
                /\ Batch(ks) = at[Len(ks)].groups
  BY BatchSteps
<1>2. Len(ks) \in Nat /\ DOMAIN ks = 1 .. Len(ks) /\ Table(f)
  BY LenProperties DEF Tally
<1> DEFINE upto(n) == s \o SubSeq(ks, 1, n)
           Good(n) == /\ at[n].usage \in Nat
                      /\ Table(at[n].groups)
                      /\ upto(n) \in Seq(Keys)
                      /\ Tally(AddGroups(f, at[n].groups), upto(n))
           P == {n \in Nat : n <= Len(ks) => Good(n)}
<1>3. 0 \in P
  <2>1. at[0].usage = 0 /\ at[0].groups = NoGroups
    BY <1>1 DEF Unused
  <2>2. upto(0) = s
    BY ConcatEmptySeq
  <2>3. AddGroups(f, NoGroups) = f
    BY <1>2, AddNoGroups
  <2> QED
    <3>1. Table(at[0].groups) /\ at[0].usage \in Nat /\ upto(0) \in Seq(Keys)
      BY <2>1, <2>2, TallyEmpty
    <3>2. Tally(AddGroups(f, at[0].groups), upto(0))
      BY <2>1, <2>2, <2>3
    <3>3. Good(0)
      BY <3>1, <3>2
    <3> HIDE DEF Good
    <3> QED
      BY <3>3
<1>4. ASSUME NEW n \in P PROVE n + 1 \in P
  <2> SUFFICES ASSUME n + 1 <= Len(ks) PROVE Good(n + 1)
    OBVIOUS
  <2>1. n \in Nat /\ Good(n)
    BY <1>2
  <2> SUFFICES ASSUME NEW k, k = ks[n + 1], NEW acc, acc = at[n], NEW new, new = at[n + 1],
                      NEW t, t = upto(n), NEW tk, tk = upto(n + 1)
               PROVE  /\ new.usage \in Nat /\ Table(new.groups) /\ tk \in Seq(Keys)
                      /\ Tally(AddGroups(f, new.groups), tk)
    OBVIOUS
  <2>2. new = Classify(acc, k) /\ k \in Keys
    BY <1>1, <1>2, <2>1, ElementOfSeq
  <2>3. PICK u : u = ReadUsage(acc, k)
    OBVIOUS
  <2>4. u \in Nat /\ (DeniedKeys = {} => u = Usage[k])
    BY <2>1, <2>2, <2>3, KeyGroupsAssumption DEF KeyGroupsAssumption, ReadUsage
  <2>5. new.usage = u /\ new.groups = Add(acc.groups, Group[k], 1, u)
    BY <2>2, <2>3 DEF Classify
  <2>6. PICK B, m : B = acc.groups /\ m = AddGroups(f, B)
    OBVIOUS
  <2>7. Table(B) /\ Tally(m, t) /\ t \in Seq(Keys)
    BY <2>1, <2>6
  <2>8. AddGroups(f, new.groups) = Add(m, Group[k], 1, u)
    BY <1>2, <2>4, <2>5, <2>6, <2>7, AddGroupsAdd
  <2>9. Table(new.groups)
    <3>1. AddedTo(B, Group[k], u, Add(B, Group[k], 1, u))
      BY <2>4, <2>7, AddIs
    <3> QED
      BY <2>5, <2>6, <3>1 DEF AddedTo
  <2>10. tk = Append(t, k)
    <3>1. SubSeq(ks, 1, n + 1) = Append(SubSeq(ks, 1, n), ks[n + 1])
      BY <1>2, <2>1, SubSeqRecursiveFirst, SubSeqRecursiveSecond
    <3>2. SubSeq(ks, 1, n) \in Seq(Keys)
      BY <1>2, <2>1, SubSeqProperties
    <3>3. s \o Append(SubSeq(ks, 1, n), k) = Append(s \o SubSeq(ks, 1, n), k)
      BY <2>2, <3>2, ConcatAppend
    <3> QED
      BY <3>1, <3>3
  <2>11. Tally(Add(m, Group[k], 1, u), Append(t, k))
    BY <2>2, <2>4, <2>7, TallyOneMore
  <2>12. tk \in Seq(Keys)
    BY <2>2, <2>7, <2>10, AppendProperties
  <2> QED
    BY <2>4, <2>5, <2>8, <2>9, <2>10, <2>11, <2>12
<1>5. Len(ks) \in P
  <2> HIDE DEF P
  <2>1. P \in SUBSET Nat
    BY DEF P
  <2> QED
    BY <1>2, <1>3, <1>4, <2>1, NumberInduction
<1>6. Good(Len(ks)) /\ SubSeq(ks, 1, Len(ks)) = ks
  BY <1>2, <1>5, SubSeqFull
<1> QED
  BY <1>1, <1>6

(* The names of groups have each an index of their own.                     *)
LEMMA NameIndexIs ==
  ASSUME NEW g \in Groups
  PROVE  NameIndex(g) \in DOMAIN GroupNames /\ NameIndex(g) \in Nat /\ GroupNames[NameIndex(g)] = g
<1>1. \E i \in DOMAIN GroupNames : GroupNames[i] = g
  BY DEF Groups, ToSet
<1>2. NameIndex(g) \in DOMAIN GroupNames /\ GroupNames[NameIndex(g)] = g
  BY <1>1 DEF NameIndex
<1>3. DOMAIN GroupNames \subseteq Nat
  <2>1. GroupNames \in Seq(Groups)
    BY KeyGroupsAssumption DEF KeyGroupsAssumption
  <2> QED
    BY <2>1, LenProperties
<1> QED
  BY <1>2, <1>3

(* What the order of groups needs: a finite table of known groups.          *)
Named(f) == Table(f) /\ DOMAIN f \subseteq Groups /\ IsFiniteSet(DOMAIN f)

(* A tally is one.                                                          *)
LEMMA TallyNamed ==
  ASSUME NEW f, NEW s \in Seq(Keys), Tally(f, s)
  PROVE  Named(f)
<1>1. DOMAIN s = 1 .. Len(s) /\ Len(s) \in Nat /\ \A i \in 1 .. Len(s) : s[i] \in Keys
  BY LenProperties, ElementOfSeq
<1>2. GroupsIn(s) \subseteq Groups
  BY <1>1, KeyGroupsAssumption DEF GroupsIn, KeyGroupsAssumption
<1>3. IsFiniteSet(GroupsIn(s))
  <2> DEFINE h == [i \in DOMAIN s |-> Group[s[i]]]
  <2>1. h \in Surjection(DOMAIN s, GroupsIn(s))
    BY Fun_IsSurj DEF GroupsIn
  <2>2. Len(s) \in Int /\ 1 \in Int
    BY <1>1
  <2>3. IsFiniteSet(1 .. Len(s))
    BY <2>2, FS_Interval
  <2> QED
    BY <1>1, <2>1, <2>3, FS_Surjection
<1> QED
  BY <1>2, <1>3 DEF Named, Tally

(* Before orders the groups.                                                *)
LEMMA BeforeOrders ==
  ASSUME NEW f, Named(f), NEW g \in DOMAIN f, NEW h \in DOMAIN f, NEW x \in DOMAIN f
  PROVE  /\ ~ Before(f, g, g)
         /\ g # h => Before(f, g, h) \/ Before(f, h, g)
         /\ Before(f, g, h) /\ Before(f, h, x) => Before(f, g, x)
<1>1. \A y \in {g, h, x} : f[y].count \in Nat /\ f[y].memory \in Nat
  BY DEF Named, Table, Entries
<1>2. \A y \in {g, h, x} : NameIndex(y) \in Nat /\ GroupNames[NameIndex(y)] = y
  BY NameIndexIs DEF Named
<1>3. g # h => NameIndex(g) # NameIndex(h)
  BY <1>2
<1> SUFFICES ASSUME NEW gm \in Nat, NEW gc \in Nat, NEW gi \in Nat,
                    NEW hm \in Nat, NEW hc \in Nat, NEW hi \in Nat,
                    NEW xm \in Nat, NEW xc \in Nat, NEW xi \in Nat,
                    gm = f[g].memory, gc = f[g].count, gi = NameIndex(g),
                    hm = f[h].memory, hc = f[h].count, hi = NameIndex(h),
                    xm = f[x].memory, xc = f[x].count, xi = NameIndex(x)
             PROVE  /\ ~ Before(f, g, g)
                    /\ g # h => Before(f, g, h) \/ Before(f, h, g)
                    /\ Before(f, g, h) /\ Before(f, h, x) => Before(f, g, x)
  BY <1>1, <1>2
<1> QED
  BY <1>3 DEF Before

(* The groups sorted before g.                                              *)
Ahead(f, g) == {h \in DOMAIN f : h # g /\ Before(f, h, g)}

(* Position is an index of the sorted groups, and Before is its order.      *)
LEMMA PositionIs ==
  ASSUME NEW f, Named(f), NEW g \in DOMAIN f
  PROVE  /\ Position(f, g) \in Nat
         /\ Position(f, g) < Cardinality(DOMAIN f)
         /\ \A h \in DOMAIN f : Before(f, h, g) => Position(f, h) < Position(f, g)
<1>1. IsFiniteSet(DOMAIN f)
  BY DEF Named
<1>2. \A x \in DOMAIN f : /\ Ahead(f, x) \subseteq DOMAIN f
                          /\ x \notin Ahead(f, x)
                          /\ Position(f, x) = Cardinality(Ahead(f, x))
  BY DEF Ahead, Position
<1>3. \A x \in DOMAIN f : IsFiniteSet(Ahead(f, x)) /\ Position(f, x) \in Nat
  BY <1>1, <1>2, FS_Subset, FS_CardinalityType
<1>4. Position(f, g) < Cardinality(DOMAIN f)
  <2>1. Ahead(f, g) # DOMAIN f /\ Ahead(f, g) \in SUBSET DOMAIN f
    BY <1>2
  <2>2. Cardinality(Ahead(f, g)) <= Cardinality(DOMAIN f)
        /\ Cardinality(Ahead(f, g)) # Cardinality(DOMAIN f)
    BY <1>1, <2>1, FS_Subset
  <2> QED
    BY <1>1, <1>2, <1>3, <2>2, FS_CardinalityType
<1>5. ASSUME NEW h \in DOMAIN f, Before(f, h, g) PROVE Position(f, h) < Position(f, g)
  <2>1. Ahead(f, h) \cup {h} \subseteq Ahead(f, g)
    <3>1. h # g
      BY <1>5, BeforeOrders
    <3>2. ASSUME NEW x \in Ahead(f, h) PROVE x \in Ahead(f, g)
      <4>1. x \in DOMAIN f /\ Before(f, x, h)
        BY DEF Ahead
      <4>2. Before(f, x, g)
        BY <1>5, <4>1, BeforeOrders
      <4>3. x # g
        BY <4>2, <4>1, BeforeOrders
      <4> QED
        BY <4>1, <4>2, <4>3 DEF Ahead
    <3> QED
      BY <1>5, <3>1, <3>2 DEF Ahead
  <2>2. Cardinality(Ahead(f, h) \cup {h}) = Cardinality(Ahead(f, h)) + 1
    BY <1>2, <1>3, FS_AddElement
  <2>3. Cardinality(Ahead(f, h) \cup {h}) <= Cardinality(Ahead(f, g))
    BY <1>3, <2>1, FS_Subset
  <2> QED
    BY <1>2, <1>3, <2>2, <2>3
<1> QED
  BY <1>3, <1>4, <1>5

(* The first n groups in the order.                                         *)
First(f, n) == {g \in DOMAIN f : Position(f, g) < n}

(* There are n of them: no two groups share a position, and so every        *)
(* position is taken.                                                       *)
LEMMA FirstCardinality ==
  ASSUME NEW f, Named(f), NEW n \in Nat, n <= Cardinality(DOMAIN f)
  PROVE  Cardinality(First(f, n)) = n
<1> DEFINE F == DOMAIN f
           N == Cardinality(F)
           pos == [g \in F |-> Position(f, g)]
           few == [g \in First(f, n) |-> Position(f, g)]
<1>1. IsFiniteSet(F) /\ N \in Nat
  BY FS_CardinalityType DEF Named
<1>2. \A g \in F : Position(f, g) \in 0 .. N - 1
  BY <1>1, PositionIs
<1>3. ASSUME NEW g \in F, NEW h \in F, Position(f, g) = Position(f, h) PROVE g = h
  <2>1. g # h => Position(f, g) < Position(f, h) \/ Position(f, h) < Position(f, g)
    BY BeforeOrders, PositionIs
  <2> QED
    BY <1>1, <1>2, <1>3, <2>1
<1>4. pos \in Injection(F, 0 .. N - 1)
  <2>1. pos \in [F -> 0 .. N - 1]
    BY <1>2
  <2> QED
    BY <1>3, <2>1, Fun_IsInj
<1>5. IsFiniteSet(0 .. N - 1) /\ Cardinality(0 .. N - 1) = N
  <2>1. 0 \in Int /\ N - 1 \in Int /\ (IF 0 > N - 1 THEN 0 ELSE (N - 1) - 0 + 1) = N
    BY <1>1
  <2> HIDE DEF N
  <2> QED
    BY <2>1, FS_Interval
<1>6. pos \in Surjection(F, 0 .. N - 1)
  <2> HIDE DEF pos, N
  <2> QED
    BY <1>4, <1>5, FS_Injection DEF N
<1>7. \A i \in 0 .. N - 1 : \E g \in F : Position(f, g) = i
  BY <1>6 DEF Surjection
<1>8. few \in Bijection(First(f, n), 0 .. n - 1)
  <2>1. few \in [First(f, n) -> 0 .. n - 1]
    BY <1>1, <1>2 DEF First
  <2>2. \A i \in 0 .. n - 1 : \E g \in First(f, n) : few[g] = i
    <3> TAKE i \in 0 .. n - 1
    <3>1. i \in 0 .. N - 1
      BY <1>1
    <3>2. PICK g \in F : Position(f, g) = i
      BY <1>7, <3>1
    <3> QED
      BY <3>2 DEF First
  <2>3. \A g, h \in First(f, n) : few[g] = few[h] => g = h
    BY <1>3 DEF First
  <2> QED
    BY <2>1, <2>2, <2>3, Fun_IsBij
<1>9. IsFiniteSet(First(f, n)) /\ Cardinality(0 .. n - 1) = n /\ IsFiniteSet(0 .. n - 1)
  <2>1. First(f, n) \subseteq F
    BY DEF First
  <2>2. 0 \in Int /\ n - 1 \in Int /\ (IF 0 > n - 1 THEN 0 ELSE (n - 1) - 0 + 1) = n
    OBVIOUS
  <2>3. IsFiniteSet(0 .. n - 1) /\ Cardinality(0 .. n - 1) = n
    BY <2>2, FS_Interval
  <2> QED
    BY <1>1, <2>1, <2>3, FS_Subset
<1>10. ExistsBijection(First(f, n), 0 .. n - 1)
  BY <1>8, Fun_ExistsBij
<1> QED
  BY <1>9, <1>10, FS_Bijection

(* The groups exported under their own names.                               *)
Kept(f) == IF Cardinality(DOMAIN f) <= MaxDistinctKeyGroups THEN DOMAIN f
           ELSE First(f, MaxDistinctKeyGroups)

(* The groups that go into the fold.                                        *)
Rest(f) == DOMAIN f \ Kept(f)

(* There are more groups than MaxDistinctKeyGroups.                         *)
Folded(f) == ~ (Cardinality(DOMAIN f) <= MaxDistinctKeyGroups)

(* The metric of every group.                                               *)
MetricOf(f) == [g \in DOMAIN f |-> Metric(f, g)]

(* The metrics of the kept groups.                                          *)
OwnMetrics(f) == {MetricOf(f)[g] : g \in Kept(f)}

(* MetricsOf, in these terms: the fold is of exactly the groups not kept.   *)
LEMMA MetricsAre ==
  ASSUME NEW f, Named(f)
  PROVE  /\ ~ Folded(f) => MetricsOf(f) = OwnMetrics(f)
         /\ Folded(f) => MetricsOf(f) = OwnMetrics(f) \cup {Overflow(f, Rest(f))}
         /\ Kept(f) \subseteq DOMAIN f
         /\ IsFiniteSet(Kept(f)) /\ IsFiniteSet(Rest(f)) /\ IsFiniteSet(DOMAIN f)
<1>1. Kept(f) \subseteq DOMAIN f /\ IsFiniteSet(DOMAIN f)
  BY DEF Kept, First, Named
<1>2. OwnMetrics(f) = {Metric(f, g) : g \in Kept(f)}
  BY <1>1 DEF MetricOf, OwnMetrics
<1>3. IsFiniteSet(Kept(f)) /\ IsFiniteSet(Rest(f))
  BY <1>1, FS_Subset DEF Rest
<1>4. CASE ~ Folded(f)
  <2>1. Kept(f) = DOMAIN f
    BY <1>4 DEF Kept, Folded
  <2>2. MetricsOf(f) = {Metric(f, g) : g \in DOMAIN f}
    BY <1>4 DEF MetricsOf, Folded
  <2> QED
    BY <1>1, <1>2, <1>3, <1>4, <2>1, <2>2
<1>5. CASE Folded(f)
  <2>1. Kept(f) = {h \in DOMAIN f : Position(f, h) < MaxDistinctKeyGroups}
    BY <1>5 DEF Kept, Folded, First
  <2>2. Overflowed(f) = Rest(f)
    <3>1. MaxDistinctKeyGroups \in Nat
      BY KeyGroupsAssumption DEF KeyGroupsAssumption
    <3>2. \A h \in DOMAIN f : Position(f, h) \in Nat
      BY PositionIs
    <3>3. \A h \in DOMAIN f : Position(f, h) >= MaxDistinctKeyGroups
                                <=> ~ (Position(f, h) < MaxDistinctKeyGroups)
      BY <3>1, <3>2
    <3> QED
      BY <2>1, <3>3 DEF Overflowed, Rest
  <2>3. MetricsOf(f) = {Metric(f, g) : g \in Kept(f)} \cup {Overflow(f, Overflowed(f))}
    BY <1>5, <2>1 DEF MetricsOf, Folded
  <2> QED
    BY <1>1, <1>2, <1>3, <1>5, <2>2, <2>3
<1> QED
  BY <1>4, <1>5

(* What a metric says of its group, and the fold of those in it.            *)
LEMMA MetricOfIs ==
  ASSUME NEW f, Named(f)
  PROVE  /\ \A g \in DOMAIN f : /\ MetricOf(f)[g].group = g /\ MetricOf(f)[g].folded = FALSE
                                /\ MetricOf(f)[g].count = f[g].count
                                /\ MetricOf(f)[g].memory = f[g].memory
                                /\ MetricOf(f)[g] \in Exports
                                /\ f[g].count \in Nat /\ f[g].memory \in Nat
         /\ \A m \in OwnMetrics(f) : m.folded = FALSE /\ m \in Exports
         /\ Overflow(f, Rest(f)) \in Exports
         /\ Overflow(f, Rest(f)).folded = TRUE
         /\ Overflow(f, Rest(f)).count = SumOver(Counts(f), Rest(f))
<1>1. ASSUME NEW g \in DOMAIN f
      PROVE  /\ MetricOf(f)[g].group = g /\ MetricOf(f)[g].folded = FALSE
             /\ MetricOf(f)[g].count = f[g].count
             /\ MetricOf(f)[g].memory = f[g].memory
             /\ MetricOf(f)[g] \in Exports
             /\ f[g].count \in Nat /\ f[g].memory \in Nat
  <2>1. MetricOf(f)[g] = [group |-> g, folded |-> FALSE, count |-> f[g].count, memory |-> f[g].memory]
    BY DEF MetricOf, Metric
  <2>2. f[g].count \in Nat /\ f[g].memory \in Nat /\ g \in Groups
    BY DEF Named, Table, Entries
  <2> QED
    BY <2>1, <2>2 DEF Exports
<1>2. Kept(f) \subseteq DOMAIN f /\ IsFiniteSet(Rest(f)) /\ Rest(f) \subseteq DOMAIN f
  BY MetricsAre DEF Rest
<1>3. \A m \in OwnMetrics(f) : m.folded = FALSE /\ m \in Exports
  <2> TAKE m \in OwnMetrics(f)
  <2>1. PICK g \in Kept(f) : m = MetricOf(f)[g]
    BY DEF OwnMetrics
  <2>2. g \in DOMAIN f
    BY <1>2
  <2> QED
    BY <1>1, <2>1, <2>2
<1> DEFINE wc == Counts(f)
           wm == [g \in DOMAIN f |-> f[g].memory]
<1>4. Sum(f, Rest(f), "count") = SumOver(wc, Rest(f)) /\ SumOver(wc, Rest(f)) \in Nat
  <2>1. \A g \in Rest(f) : wc[g] \in Nat /\ wc[g] = f[g]["count"]
    BY <1>1, <1>2 DEF Counts
  <2> HIDE DEF wc
  <2>2. SumOver(wc, Rest(f)) \in Nat
    BY <1>2, <2>1, SumDefined
  <2>3. Sum(f, Rest(f), "count") = SumOver(wc, Rest(f))
    BY <1>2, <2>1, SumIs
  <2> QED
    BY <2>2, <2>3
<1>5. Sum(f, Rest(f), "memory") = SumOver(wm, Rest(f)) /\ SumOver(wm, Rest(f)) \in Nat
  <2>1. \A g \in Rest(f) : wm[g] \in Nat /\ wm[g] = f[g]["memory"]
    BY <1>1, <1>2
  <2> HIDE DEF wm
  <2>2. SumOver(wm, Rest(f)) \in Nat
    BY <1>2, <2>1, SumDefined
  <2>3. Sum(f, Rest(f), "memory") = SumOver(wm, Rest(f))
    BY <1>2, <2>1, SumIs
  <2> QED
    BY <2>2, <2>3
<1>6. Overflow(f, Rest(f)) = [group |-> "overflow", folded |-> TRUE,
                              count |-> SumOver(wc, Rest(f)), memory |-> SumOver(wm, Rest(f))]
  BY <1>4, <1>5 DEF Overflow
<1> HIDE DEF wc, wm
<1>7. Overflow(f, Rest(f)) \in Exports
  BY <1>4, <1>5, <1>6 DEF Exports
<1>8. /\ Overflow(f, Rest(f)).folded = TRUE
      /\ Overflow(f, Rest(f)).count = SumOver(Counts(f), Rest(f))
  BY <1>6 DEF wc
<1> QED
  BY <1>1, <1>3, <1>7, <1>8

(* The exported counts add up to those of all groups: the metrics of the    *)
(* kept groups are distinct, and the fold is none of them.                  *)
LEMMA MetricsTotal ==
  ASSUME NEW f, Named(f)
  PROVE  Totals(MetricsOf(f), "count") = SumOver(Counts(f), DOMAIN f)
<1> DEFINE A == OwnMetrics(f)
           K == Kept(f)
           R == Rest(f)
           w == Counts(f)
           o == Overflow(f, R)
           v == [m \in A \cup {o} |-> m.count]
           h == MetricOf(f)
<1>1. /\ K \subseteq DOMAIN f /\ IsFiniteSet(K) /\ IsFiniteSet(R) /\ R \subseteq DOMAIN f
      /\ K \cap R = {} /\ K \cup R = DOMAIN f /\ A = {h[g] : g \in K}
  BY MetricsAre DEF Rest, OwnMetrics
<1>2. /\ \A g \in DOMAIN f : w[g] \in Nat /\ h[g].count = w[g] /\ h[g].group = g
      /\ \A m \in A : m.folded = FALSE
      /\ o.folded = TRUE /\ o.count = SumOver(w, R)
  BY MetricOfIs DEF Counts
<1>3. o \notin A
  BY <1>2
<1>4. /\ \A g \in K : w[g] \in Nat /\ v[h[g]] = w[g]
      /\ \A g, e \in K : h[g] = h[e] => g = e
      /\ \A m \in A : v[m] = m.count /\ v[m] \in Nat
      /\ v[o] = o.count
  <2> HIDE DEF h, w, o
  <2>1. v[o] = o.count /\ \A m \in A : v[m] = m.count
    OBVIOUS
  <2> HIDE DEF v, A
  <2>2. \A g \in K : h[g] \in A /\ v[h[g]] = w[g] /\ w[g] \in Nat
    BY <1>1, <1>2, <2>1
  <2>3. \A m \in A : v[m] \in Nat
    BY <1>1, <2>2
  <2>4. \A g, e \in K : h[g] = h[e] => g = e
    BY <1>1, <1>2
  <2> QED
    BY <2>1, <2>2, <2>3, <2>4
<1> HIDE DEF h, w, v, o, K, R
<1>5. IsFiniteSet(A)
  <2> HIDE DEF A
  <2>1. h \in [DOMAIN f -> Exports]
    BY MetricOfIs DEF h, MetricOf
  <2>2. [g \in K |-> h[g]] \in Surjection(K, A)
    BY <1>1, Fun_IsSurj
  <2> QED
    BY <1>1, <2>2, FS_Surjection
<1>6. SumOver(v, A) = SumOver(w, K)
  <2> HIDE DEF A
  <2> QED
    BY <1>1, <1>4, SumImage
<1>7. SumOver(w, K) \in Nat /\ SumOver(w, R) \in Nat
      /\ SumOver(w, DOMAIN f) = SumOver(w, K) + SumOver(w, R)
  <2>1. (\A g \in K : w[g] \in Nat) /\ (\A g \in R : w[g] \in Nat) /\ (\A g \in K \cup R : w[g] \in Nat)
    BY <1>1, <1>2
  <2>2. SumOver(w, K) \in Nat /\ SumOver(w, R) \in Nat
    BY <1>1, <2>1, SumDefined
  <2>3. SumOver(w, K \cup R) = SumOver(w, K) + SumOver(w, R)
    BY <1>1, <2>1, SumUnion
  <2> QED
    BY <1>1, <2>2, <2>3
<1>8. CASE ~ Folded(f)
  <2>1. MetricsOf(f) = A /\ K = DOMAIN f
    BY <1>8, MetricsAre DEF K, Kept, Folded
  <2>2. \A m \in A : v[m] \in Nat /\ v[m] = m["count"]
    BY <1>4
  <2>3. Totals(A, "count") = SumOver(v, A)
    <3> HIDE DEF A
    <3> QED
      BY <1>5, <2>2, TotalsIs
  <2> QED
    BY <1>6, <2>1, <2>3 DEF w
<1>9. CASE Folded(f)
  <2>1. MetricsOf(f) = A \cup {o}
    BY <1>9, MetricsAre DEF o, R
  <2>2. v[o] \in Nat
    BY <1>2, <1>4, <1>7
  <2>3. \A m \in A \cup {o} : v[m] \in Nat /\ v[m] = m["count"]
    BY <1>4, <2>2
  <2>4. IsFiniteSet(A \cup {o})
    BY <1>5, FS_AddElement
  <2>5. Totals(A \cup {o}, "count") = SumOver(v, A \cup {o})
    <3> HIDE DEF A
    <3> QED
      BY <2>3, <2>4, TotalsIs
  <2>6. SumOver(v, A \cup {o}) = v[o] + SumOver(v, A)
    <3> HIDE DEF A
    <3> QED
      BY <1>3, <1>4, <1>5, <2>2, SumAdd
  <2> QED
    BY <1>2, <1>4, <1>6, <1>7, <2>1, <2>5, <2>6 DEF w
<1> QED
  BY <1>8, <1>9

(* As many groups are exported by name as there may be.                     *)
LEMMA OwnCardinality ==
  ASSUME NEW f, Named(f)
  PROVE  /\ {m \in MetricsOf(f) : ~ m.folded} = OwnMetrics(f)
         /\ Cardinality(OwnMetrics(f)) =
              IF Cardinality(DOMAIN f) <= MaxDistinctKeyGroups THEN Cardinality(DOMAIN f)
              ELSE MaxDistinctKeyGroups
<1>1. {m \in MetricsOf(f) : ~ m.folded} = OwnMetrics(f)
  BY MetricsAre, MetricOfIs
<1> DEFINE few == [g \in Kept(f) |-> MetricOf(f)[g]]
<1>2. few \in Bijection(Kept(f), OwnMetrics(f))
  <2>1. few \in [Kept(f) -> OwnMetrics(f)]
    BY DEF OwnMetrics
  <2>2. \A m \in OwnMetrics(f) : \E g \in Kept(f) : few[g] = m
    BY DEF OwnMetrics
  <2>3. \A g, e \in Kept(f) : few[g] = few[e] => g = e
    <3>1. Kept(f) \subseteq DOMAIN f
      BY MetricsAre
    <3>2. \A g \in Kept(f) : MetricOf(f)[g].group = g
      BY <3>1, MetricOfIs
    <3> QED
      BY <3>2
  <2> HIDE DEF few
  <2> QED
    BY <2>1, <2>2, <2>3, Fun_IsBij
<1>3. Cardinality(OwnMetrics(f)) = Cardinality(Kept(f))
  <2>1. ExistsBijection(Kept(f), OwnMetrics(f))
    BY <1>2, Fun_ExistsBij
  <2>2. IsFiniteSet(Kept(f))
    BY MetricsAre
  <2> QED
    BY <2>1, <2>2, FS_Bijection
<1>4. MaxDistinctKeyGroups \in Nat /\ Cardinality(DOMAIN f) \in Nat
  BY FS_CardinalityType, KeyGroupsAssumption DEF Named, KeyGroupsAssumption
<1>5. CASE Cardinality(DOMAIN f) <= MaxDistinctKeyGroups
  BY <1>1, <1>3, <1>5 DEF Kept
<1>6. CASE ~ (Cardinality(DOMAIN f) <= MaxDistinctKeyGroups)
  <2>1. Cardinality(First(f, MaxDistinctKeyGroups)) = MaxDistinctKeyGroups
    BY <1>4, <1>6, FirstCardinality
  <2> QED
    BY <1>1, <1>3, <1>6, <2>1 DEF Kept
<1> QED
  BY <1>5, <1>6

(* What the export of a scanned database stands for.                        *)
ExportOf(f, s) == [scanned |-> TRUE, groups |-> MetricsOf(f),
                   distinct |-> Cardinality(DOMAIN f), returned |-> s]

(* An export not scanned, or one of a tally of a scan that returned every   *)
(* key of stable.                                                           *)
Told(e, stable) ==
  \/ e = NotScanned
  \/ \E f, s : /\ s \in Seq(Keys) /\ Tally(f, s) /\ stable \subseteq ToSet(s)
               /\ e = ExportOf(f, s)

(* The types of the variables, with what TypeOK leaves out: the domains of  *)
(* the functions.                                                           *)
Types ==
  /\ present \in [DBs -> SUBSET Keys] /\ always \in [DBs -> SUBSET Keys]
  /\ \A d \in DBs : always[d] \subseteq present[d]
  /\ writes \in 0 .. MaxWrites /\ calls \in 0 .. MaxCalls
  /\ owed \subseteq Keys
  /\ pc \in {"select", "script", "register"} /\ db \in 0 .. DbCount
  /\ pc # "select" => db \in ValidDBs /\ db \in DBs
  /\ exported = [d \in DBs |-> exported[d]]
  /\ returned \in Seq(Keys)

(* The sums are the tally of the keys returned; the keys there all along    *)
(* that have not been returned are still owed, and none are when the scan   *)
(* is done.                                                                 *)
ScanSoFar ==
  /\ Tally(allGroups, returned)
  /\ pc # "select" => always[db] \ owed \subseteq ToSet(returned)
  /\ pc = "register" => owed = {}

(* The inductive invariant.                                                 *)
GroupsInv == Types /\ ScanSoFar /\ \A d \in DBs : Told(exported[d], always[d])

(* The databases are numbers below DbCount.                                 *)
LEMMA DbsAre == DbCount \in Nat /\ DBs = 0 .. DbCount - 1
BY KeyGroupsAssumption DEF KeyGroupsAssumption, DBs

(* GroupsInv holds at the beginning.                                        *)
LEMMA InitGroups == Init => GroupsInv
<1> SUFFICES ASSUME Init PROVE GroupsInv
  OBVIOUS
<1>1. Types
  BY DbsAre, KeyGroupsAssumption, EmptySeq DEF Init, Types, KeyGroupsAssumption
<1>2. ScanSoFar
  BY TallyEmpty DEF Init, ScanSoFar
<1>3. \A d \in DBs : Told(exported[d], always[d])
  BY DEF Init, Told
<1> QED
  BY <1>1, <1>2, <1>3 DEF GroupsInv

(* A scan begins owed every key there.                                      *)
LEMMA SelectKeeps ==
  ASSUME GroupsInv, Select
  PROVE  GroupsInv'
<1>1. Types'
  BY DbsAre, KeyGroupsAssumption, EmptySeq
     DEF GroupsInv, Types, Select, NextDb, server, KeyGroupsAssumption
<1>2. ScanSoFar'
  <2>1. Tally(allGroups', returned')
    BY TallyEmpty DEF Select
  <2>2. pc' # "select" => always'[db'] \ owed' \subseteq ToSet(returned')
    BY DbsAre DEF GroupsInv, Types, Select, NextDb, server
  <2>3. pc' # "register"
    BY DEF Select, NextDb
  <2> QED
    BY <2>1, <2>2, <2>3 DEF ScanSoFar
<1>3. (\A d \in DBs : Told(exported[d], always[d]))'
  BY DEF GroupsInv, Select, server
<1> QED
  BY <1>1, <1>2, <1>3 DEF GroupsInv

(* A batch is tallied, and what it held is no longer owed.                  *)
LEMMA RunScriptKeeps ==
  ASSUME GroupsInv, RunScript
  PROVE  GroupsInv'
<1>0. PICK ks \in SUBSET present[db], done \in BOOLEAN :
        /\ owed' = owed \ ks
        /\ done => owed' = {}
        /\ calls' = calls + 1
        /\ \E order \in SetToSeqs(ks) :
             /\ allGroups' = AddGroups(allGroups, Batch(order))
             /\ returned' = returned \o order
        /\ pc' = IF done THEN "register" ELSE "script"
  BY DEF RunScript
<1>1. PICK order \in SetToSeqs(ks) :
        /\ allGroups' = AddGroups(allGroups, Batch(order))
        /\ returned' = returned \o order
  BY <1>0
<1>2. /\ pc = "script" /\ calls < MaxCalls /\ db \in DBs /\ db \in ValidDBs
      /\ UNCHANGED <<present, always, writes, db, exported>>
  BY DEF RunScript, GroupsInv, Types, server
<1>3. ks \subseteq Keys /\ IsFiniteSet(ks)
  <2>1. ks \subseteq Keys
    BY <1>2 DEF GroupsInv, Types
  <2> QED
    BY <2>1, FS_Subset, KeyGroupsAssumption DEF KeyGroupsAssumption
<1>4. order \in Seq(Keys) /\ ToSet(order) = ks
  BY <1>3, OrdersList, SeqMonotonic
<1>5. returned' \in Seq(Keys) /\ ToSet(returned') = ToSet(returned) \cup ks
  BY <1>1, <1>4, ToSetConcat, ConcatProperties DEF GroupsInv, Types
<1>6. Types'
  BY <1>0, <1>1, <1>2, <1>5, KeyGroupsAssumption DEF GroupsInv, Types, KeyGroupsAssumption
<1>7. ScanSoFar'
  <2>1. Tally(allGroups', returned')
    BY <1>1, <1>4, TallyBatch DEF GroupsInv, Types, ScanSoFar
  <2>2. always'[db'] \ owed' \subseteq ToSet(returned')
    BY <1>0, <1>1, <1>2, <1>5 DEF GroupsInv, ScanSoFar
  <2>3. pc' = "register" => owed' = {}
    BY <1>0
  <2> QED
    BY <2>1, <2>2, <2>3 DEF ScanSoFar
<1>8. (\A d \in DBs : Told(exported[d], always[d]))'
  BY <1>2 DEF GroupsInv
<1> QED
  BY <1>6, <1>7, <1>8 DEF GroupsInv

(* A batch that failed leaves the database out.                             *)
LEMMA ScriptErrorKeeps ==
  ASSUME GroupsInv, ScriptError
  PROVE  GroupsInv'
<1>1. Types'
  BY DbsAre DEF GroupsInv, Types, ScriptError, NextDb, server
<1>2. ScanSoFar'
  BY DEF GroupsInv, ScanSoFar, ScriptError, NextDb, server
<1>3. (\A d \in DBs : Told(exported[d], always[d]))'
  BY DEF GroupsInv, ScriptError, server
<1> QED
  BY <1>1, <1>2, <1>3 DEF GroupsInv

(* What is exported is the tally of a complete scan.                        *)
LEMMA RegisterKeeps ==
  ASSUME GroupsInv, Register
  PROVE  GroupsInv'
<1>1. Types'
  <2>1. PICK e : e = exported /\ e = [d \in DBs |-> e[d]]
    BY DEF GroupsInv, Types
  <2>2. PICK new : exported' = [exported EXCEPT ![db] = new]
    BY DEF Register
  <2>3. [e EXCEPT ![db] = new] = [d \in DBs |-> [e EXCEPT ![db] = new][d]]
    BY <2>1
  <2>4. exported' = [d \in DBs |-> exported'[d]]
    BY <2>1, <2>2, <2>3
  <2> QED
    BY <2>4, DbsAre DEF GroupsInv, Types, Register, NextDb, server
<1>2. ScanSoFar'
  BY DEF GroupsInv, ScanSoFar, Register, NextDb, server
<1>3. /\ db \in DBs /\ exported = [d \in DBs |-> exported[d]] /\ always' = always
      /\ exported' = [exported EXCEPT ![db] = ExportOf(allGroups, returned)]
      /\ always[db] \subseteq ToSet(returned)
      /\ Tally(allGroups, returned) /\ returned \in Seq(Keys)
  BY DEF GroupsInv, Types, ScanSoFar, Register, ExportOf, server
<1>4. ASSUME NEW d \in DBs PROVE Told(exported'[d], always'[d])
  <2>1. CASE d = db
    <3>1. exported'[d] = ExportOf(allGroups, returned)
      BY <1>3, <2>1
    <3> QED
      BY <1>3, <2>1, <3>1 DEF Told
  <2>2. CASE d # db
    <3>1. exported'[d] = exported[d]
      BY <1>3, <2>2
    <3> QED
      BY <1>3, <3>1 DEF GroupsInv
  <2> QED
    BY <2>1, <2>2
<1> QED
  BY <1>1, <1>2, <1>4 DEF GroupsInv

(* A key created is not there all along; a key deleted is owed no more.     *)
LEMMA ClientWriteKeeps ==
  ASSUME GroupsInv, NEW d \in DBs, NEW k \in Keys, ClientWrite(d, k)
  PROVE  GroupsInv'
<1>1. /\ writes < MaxWrites /\ writes' = writes + 1
      /\ UNCHANGED <<pc, db, calls, allGroups, returned, exported>>
  BY DEF ClientWrite
<1>2. /\ present' \in [DBs -> SUBSET Keys] /\ always' \in [DBs -> SUBSET Keys]
      /\ \A e \in DBs : always'[e] \subseteq present'[e]
      /\ \A e \in DBs : always'[e] \subseteq always[e]
      /\ owed' \subseteq owed
      /\ \A e \in DBs : e = db => always'[e] \ owed' \subseteq always[e] \ owed
  <2>1. CASE k \in present[d]
    BY <2>1 DEF ClientWrite, GroupsInv, Types
  <2>2. CASE k \notin present[d]
    BY <2>2 DEF ClientWrite, GroupsInv, Types
  <2> QED
    BY <2>1, <2>2
<1>3. Types'
  BY <1>1, <1>2, KeyGroupsAssumption DEF GroupsInv, Types, KeyGroupsAssumption
<1>4. ScanSoFar'
  <2>1. pc # "select" => db \in DBs
    BY DEF GroupsInv, Types
  <2> QED
    BY <1>1, <1>2, <2>1 DEF GroupsInv, ScanSoFar
<1>5. (\A e \in DBs : Told(exported[e], always[e]))'
  BY <1>1, <1>2 DEF GroupsInv, Told
<1> QED
  BY <1>3, <1>4, <1>5 DEF GroupsInv

(* GroupsInv is invariant.                                                  *)
THEOREM GroupsInvariant == Spec => []GroupsInv
<1>1. ASSUME GroupsInv, [Next]_vars PROVE GroupsInv'
  <2>1. CASE Select
    BY <1>1, <2>1, SelectKeeps
  <2>2. CASE RunScript
    BY <1>1, <2>2, RunScriptKeeps
  <2>3. CASE ScriptError
    BY <1>1, <2>3, ScriptErrorKeeps
  <2>4. CASE Register
    BY <1>1, <2>4, RegisterKeeps
  <2>5. CASE \E d \in DBs, k \in Keys : ClientWrite(d, k)
    BY <1>1, <2>5, ClientWriteKeeps
  <2>6. CASE UNCHANGED vars
    BY <1>1, <2>6 DEF vars, server, GroupsInv, Types, ScanSoFar
  <2> QED
    BY <1>1, <2>1, <2>2, <2>3, <2>4, <2>5, <2>6 DEF Next, Bounded, Done
<1> QED
  BY <1>1, InitGroups, PTL DEF Spec

(* What the invariant says of a scanned database.                           *)
LEMMA ScannedTold ==
  ASSUME GroupsInv, NEW d \in Scanned
  PROVE  \E f, s : /\ s \in Seq(Keys) /\ Tally(f, s) /\ Named(f) /\ always[d] \subseteq ToSet(s)
                   /\ exported[d].groups = MetricsOf(f)
                   /\ exported[d].distinct = Cardinality(DOMAIN f)
                   /\ exported[d].returned = s
<1>1. d \in DBs /\ exported[d] # NotScanned
  BY DEF Scanned, NotScanned
<1>2. PICK f, s : /\ s \in Seq(Keys) /\ Tally(f, s) /\ always[d] \subseteq ToSet(s)
                  /\ exported[d] = ExportOf(f, s)
  BY <1>1 DEF GroupsInv, Told
<1> QED
  BY <1>2, TallyNamed DEF ExportOf

(* The metrics that are not the fold are those of the kept groups.          *)
LEMMA NamedMetric ==
  ASSUME NEW f, Named(f), NEW m \in MetricsOf(f), ~ m.folded
  PROVE  \E g \in Kept(f) : /\ g \in DOMAIN f /\ m.group = g
                             /\ m.count = f[g].count /\ m.memory = f[g].memory
<1>1. m \in {x \in MetricsOf(f) : ~ x.folded}
  OBVIOUS
<1>2. m \in OwnMetrics(f)
  BY <1>1, OwnCardinality
<1>3. PICK g \in Kept(f) : m = MetricOf(f)[g]
  BY <1>2 DEF OwnMetrics
<1>4. g \in DOMAIN f
  BY MetricsAre
<1>5. m.group = g /\ m.count = f[g].count /\ m.memory = f[g].memory
  BY <1>3, <1>4, MetricOfIs
<1> QED
  BY <1>4, <1>5

(* And each kept group has one.                                             *)
LEMMA KeptIsNamed ==
  ASSUME NEW f, Named(f), NEW g \in Kept(f)
  PROVE  \E m \in MetricsOf(f) : ~ m.folded /\ m.group = g
<1>1. MetricOf(f)[g] \in OwnMetrics(f)
  BY DEF OwnMetrics
<1>2. MetricOf(f)[g] \in {x \in MetricsOf(f) : ~ x.folded}
  BY <1>1, OwnCardinality
<1>3. g \in DOMAIN f
  BY MetricsAre
<1>4. MetricOf(f)[g].group = g
  BY <1>3, MetricOfIs
<1> QED
  BY <1>2, <1>4

(* TypeOK: the variables keep their types; a group in the sums has a key,   *)
(* and the exported counts and sums are numbers.                            *)
THEOREM TypeCorrect == Spec => []TypeOK
<1>1. ASSUME GroupsInv PROVE TypeOK
  <2>1. Tally(allGroups, returned) /\ returned \in Seq(Keys)
    BY <1>1 DEF GroupsInv, ScanSoFar, Types
  <2>2. PICK f, s : f = allGroups /\ s = returned
    OBVIOUS
  <2>3. Tally(f, s) /\ Named(f)
    BY <2>1, <2>2, TallyNamed
  <2>4. ASSUME NEW g \in DOMAIN f PROVE f[g] \in [count : Nat \ {0}, memory : Nat]
    <3>1. f[g] \in Entries /\ f[g].count > 0
      BY <2>3 DEF Tally, Table, EntryOf
    <3> QED
      BY <3>1 DEF Entries
  <2>5. DOMAIN allGroups \subseteq Groups
        /\ \A g \in DOMAIN allGroups : allGroups[g] \in [count : Nat \ {0}, memory : Nat]
    BY <2>2, <2>3, <2>4 DEF Named
  <2>6. ASSUME NEW d \in DBs
        PROVE  exported[d].groups \subseteq Exports /\ exported[d].distinct \in Nat
    <3>1. CASE exported[d] = NotScanned
      BY <3>1 DEF NotScanned
    <3>2. CASE exported[d] # NotScanned
      <4>1. PICK h, t : t \in Seq(Keys) /\ Tally(h, t) /\ exported[d] = ExportOf(h, t)
        BY <1>1, <3>2 DEF GroupsInv, Told
      <4>2. Named(h)
        BY <4>1, TallyNamed
      <4>3. MetricsOf(h) \subseteq Exports
        BY <4>2, MetricsAre, MetricOfIs
      <4>4. Cardinality(DOMAIN h) \in Nat
        BY <4>2, FS_CardinalityType DEF Named
      <4> QED
        BY <4>1, <4>3, <4>4 DEF ExportOf
    <3> QED
      BY <3>1, <3>2
  <2> QED
    BY <1>1, <2>5, <2>6 DEF GroupsInv, Types, TypeOK
<1> QED
  BY <1>1, GroupsInvariant, PTL

(* NothingLost: for any number of keys, groups and batches the exported     *)
(* counts add up to the keys the scan returned, and exactly                 *)
(* MaxDistinctKeyGroups groups keep their names when there are more.        *)
THEOREM FoldLosesNothing == Spec => []NothingLost
<1>1. ASSUME GroupsInv PROVE NothingLost
  <2> SUFFICES ASSUME NEW d \in Scanned
               PROVE  /\ Totals(exported[d].groups, "count") = Len(exported[d].returned)
                      /\ exported[d].distinct =
                           Cardinality({Group[exported[d].returned[i]] : i \in DOMAIN exported[d].returned})
                      /\ Cardinality({m \in exported[d].groups : ~ m.folded}) =
                           IF exported[d].distinct <= MaxDistinctKeyGroups THEN exported[d].distinct
                           ELSE MaxDistinctKeyGroups
    BY DEF NothingLost
  <2>1. PICK f, s : /\ s \in Seq(Keys) /\ Tally(f, s) /\ Named(f)
                    /\ exported[d].groups = MetricsOf(f)
                    /\ exported[d].distinct = Cardinality(DOMAIN f)
                    /\ exported[d].returned = s
    BY <1>1, ScannedTold
  <2>2. Totals(MetricsOf(f), "count") = Len(s)
    BY <2>1, MetricsTotal DEF Tally
  <2>3. Cardinality(DOMAIN f) = Cardinality({Group[s[i]] : i \in DOMAIN s})
    BY <2>1 DEF Tally, GroupsIn
  <2>4. Cardinality({m \in MetricsOf(f) : ~ m.folded}) =
          IF Cardinality(DOMAIN f) <= MaxDistinctKeyGroups THEN Cardinality(DOMAIN f)
          ELSE MaxDistinctKeyGroups
    BY <2>1, OwnCardinality
  <2> QED
    BY <2>1, <2>2, <2>3, <2>4
<1> QED
  BY <1>1, GroupsInvariant, PTL

(* LargestByName: a group folded away has no more memory than any group     *)
(* exported by name, by the position of both in the order of sort.Slice.    *)
THEOREM LargestNamed == Spec => []LargestByName
<1>1. ASSUME GroupsInv PROVE LargestByName
  <2> SUFFICES ASSUME NEW d \in Scanned, NEW i \in DOMAIN exported[d].returned,
                      DeniedKeys = {},
                      Group[exported[d].returned[i]] \notin
                        {m.group : m \in {x \in exported[d].groups : ~ x.folded}},
                      NEW m \in exported[d].groups, ~ m.folded
               PROVE  m.memory >= MemoryIn(Group[exported[d].returned[i]], exported[d].returned)
    BY DEF LargestByName
  <2>1. PICK f, s : /\ s \in Seq(Keys) /\ Tally(f, s) /\ Named(f)
                    /\ exported[d].groups = MetricsOf(f) /\ exported[d].returned = s
    BY <1>1, ScannedTold
  <2>2. PICK g : g = Group[s[i]]
    OBVIOUS
  <2>3. g \in DOMAIN f /\ f[g].memory = MemoryIn(g, s)
    BY <2>1, <2>2 DEF Tally, GroupsIn, EntryOf
  <2>4. PICK h \in Kept(f) : h \in DOMAIN f /\ m.memory = f[h].memory
    BY <2>1, NamedMetric
  <2>5. f[h].memory \in Nat /\ f[g].memory \in Nat
    BY <2>1, <2>3, <2>4, MetricOfIs
  <2>6. g \notin Kept(f)
    <3> SUFFICES ASSUME g \in Kept(f) PROVE FALSE
      OBVIOUS
    <3>1. \E x \in MetricsOf(f) : ~ x.folded /\ x.group = g
      BY <2>1, KeptIsNamed
    <3> QED
      BY <2>1, <2>2, <3>1
  <2>7. Position(f, h) < MaxDistinctKeyGroups /\ ~ (Position(f, g) < MaxDistinctKeyGroups)
    BY <2>3, <2>4, <2>6 DEF Kept, First
  <2>8. Position(f, g) \in Nat /\ Position(f, h) \in Nat /\ MaxDistinctKeyGroups \in Nat
    BY <2>1, <2>3, <2>4, PositionIs, KeyGroupsAssumption DEF KeyGroupsAssumption
  <2>9. ~ Before(f, g, h)
    BY <2>1, <2>3, <2>4, <2>7, <2>8, PositionIs
  <2>10. f[h].memory >= f[g].memory
    BY <2>5, <2>9 DEF Before
  <2> QED
    BY <2>1, <2>2, <2>3, <2>4, <2>10
<1> QED
  BY <1>1, GroupsInvariant, PTL

(* StableKeysCounted: a key there all along is in the count of its group,   *)
(* whatever other clients write during the scan.                            *)
THEOREM StableCounted == Spec => []StableKeysCounted
<1>1. ASSUME GroupsInv PROVE StableKeysCounted
  <2> SUFFICES ASSUME NEW d \in Scanned, NEW m \in exported[d].groups, ~ m.folded
               PROVE  m.count >= Cardinality({k \in always[d] : Group[k] = m.group})
    BY DEF StableKeysCounted
  <2>1. PICK f, s : /\ s \in Seq(Keys) /\ Tally(f, s) /\ Named(f) /\ always[d] \subseteq ToSet(s)
                    /\ exported[d].groups = MetricsOf(f)
    BY <1>1, ScannedTold
  <2>3. PICK g \in Kept(f) : g \in DOMAIN f /\ m.group = g /\ m.count = f[g].count
    BY <2>1, NamedMetric
  <2>4. m.count = Cardinality(Indices(g, s))
    BY <2>1, <2>3 DEF Tally, EntryOf
  <2> DEFINE I == Indices(g, s)
             A == {k \in always[d] : Group[k] = g}
             B == {s[i] : i \in I}
  <2>5. IsFiniteSet(I)
    <3>1. DOMAIN s = 1 .. Len(s) /\ Len(s) \in Nat
      BY <2>1, LenProperties
    <3>2. 1 \in Int /\ Len(s) \in Int
      BY <3>1
    <3>3. IsFiniteSet(1 .. Len(s)) /\ I \subseteq 1 .. Len(s)
      BY <3>1, <3>2, FS_Interval DEF Indices
    <3> QED
      BY <3>3, FS_Subset
  <2>6. IsFiniteSet(B) /\ Cardinality(B) <= Cardinality(I)
    <3>1. [i \in I |-> s[i]] \in Surjection(I, B)
      BY Fun_IsSurj
    <3> HIDE DEF I, B
    <3> QED
      BY <2>5, <3>1, FS_Surjection
  <2>7. A \subseteq B
    BY <2>1 DEF ToSet, Indices
  <2>8. Cardinality(A) <= Cardinality(B) /\ IsFiniteSet(A)
    <3> HIDE DEF A, B
    <3> QED
      BY <2>6, <2>7, FS_Subset
  <2>9. Cardinality(A) \in Nat /\ Cardinality(B) \in Nat /\ Cardinality(I) \in Nat
    BY <2>5, <2>6, <2>8, FS_CardinalityType
  <2>10. Cardinality(I) >= Cardinality(A)
    <3> HIDE DEF A, B, I
    <3> QED
      BY <2>6, <2>8, <2>9
  <2> QED
    BY <2>3, <2>4, <2>10
<1> QED
  BY <1>1, GroupsInvariant, PTL
=============================================================================
