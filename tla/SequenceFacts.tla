---------------------------- MODULE SequenceFacts ----------------------------
(***************************************************************************)
(* What the proofs need of the operators of the community modules: of       *)
(* sequences, ToSet, SetToSeq, SetToSeqs and IsPrefix; of folds, the sum of *)
(* MapThenSumSet, with the induction over numbers and sets it takes.        *)
(***************************************************************************)
EXTENDS SequencesExt, SequenceTheorems, FunctionTheorems, FiniteSetTheorems, TLAPS

(* The elements of a concatenation are those of its two parts.              *)
LEMMA ToSetConcat ==
  ASSUME NEW S, NEW s \in Seq(S), NEW t \in Seq(S)
  PROVE  ToSet(s \o t) = ToSet(s) \cup ToSet(t)
<1>1. /\ Len(s) \in Nat /\ Len(t) \in Nat /\ s \o t \in Seq(S)
      /\ DOMAIN s = 1 .. Len(s) /\ DOMAIN t = 1 .. Len(t)
      /\ DOMAIN (s \o t) = 1 .. Len(s) + Len(t)
      /\ \A i \in 1 .. Len(s) + Len(t) :
           (s \o t)[i] = IF i <= Len(s) THEN s[i] ELSE t[i - Len(s)]
  BY ConcatProperties, LenProperties
<1>2. ASSUME NEW x \in ToSet(s \o t) PROVE x \in ToSet(s) \cup ToSet(t)
  <2>1. PICK i \in 1 .. Len(s) + Len(t) : x = (s \o t)[i]
    BY <1>1, <1>2 DEF ToSet
  <2>2. CASE i <= Len(s)
    BY <1>1, <2>1, <2>2 DEF ToSet
  <2>3. CASE i > Len(s)
    <3>1. i - Len(s) \in 1 .. Len(t) /\ x = t[i - Len(s)]
      BY <1>1, <2>1, <2>3
    <3> QED
      BY <1>1, <3>1 DEF ToSet
  <2> QED
    BY <1>1, <2>2, <2>3
<1>3. ASSUME NEW x \in ToSet(s) PROVE x \in ToSet(s \o t)
  <2>1. PICK i \in 1 .. Len(s) : x = s[i]
    BY <1>1, <1>3 DEF ToSet
  <2>2. i \in 1 .. Len(s) + Len(t) /\ (s \o t)[i] = x
    BY <1>1, <2>1
  <2> QED
    BY <1>1, <2>2 DEF ToSet
<1>4. ASSUME NEW x \in ToSet(t) PROVE x \in ToSet(s \o t)
  <2>1. PICK i \in 1 .. Len(t) : x = t[i]
    BY <1>1, <1>4 DEF ToSet
  <2>2. i + Len(s) \in 1 .. Len(s) + Len(t)
    BY <1>1
  <2>3. (s \o t)[i + Len(s)] = x
    BY <1>1, <2>1, <2>2
  <2> QED
    BY <1>1, <2>2, <2>3 DEF ToSet
<1> QED
  BY <1>2, <1>3, <1>4

(* Append adds one element.                                                 *)
LEMMA ToSetAppend ==
  ASSUME NEW S, NEW s \in Seq(S), NEW e \in S
  PROVE  ToSet(Append(s, e)) = ToSet(s) \cup {e}
<1>1. /\ Len(s) \in Nat /\ DOMAIN s = 1 .. Len(s) /\ Append(s, e) \in Seq(S)
      /\ DOMAIN Append(s, e) = 1 .. Len(s) + 1
      /\ \A i \in 1 .. Len(s) : Append(s, e)[i] = s[i]
      /\ Append(s, e)[Len(s) + 1] = e
  BY AppendProperties, LenProperties
<1>2. DOMAIN Append(s, e) = DOMAIN s \cup {Len(s) + 1}
  BY <1>1
<1> QED
  BY <1>1, <1>2 DEF ToSet

(* The elements of a sequence over S are in S.                              *)
LEMMA ToSetType ==
  ASSUME NEW S, NEW s \in Seq(S)
  PROVE  ToSet(s) \subseteq S /\ (\A i \in DOMAIN s : s[i] \in S /\ s[i] \in ToSet(s))
BY LenProperties, ElementOfSeq DEF ToSet

(* The empty sequence has none.                                             *)
LEMMA ToSetEmpty == ToSet(<<>>) = {}
BY DEF ToSet

(* A sequence is at least as long as the set of its elements is large.      *)
LEMMA ToSetCardinality ==
  ASSUME NEW S, NEW s \in Seq(S)
  PROVE  IsFiniteSet(ToSet(s)) /\ Cardinality(ToSet(s)) \in Nat /\ Cardinality(ToSet(s)) <= Len(s)
<1>1. Len(s) \in Nat /\ DOMAIN s = 1 .. Len(s)
  BY LenProperties
<1>2. s \in [1 .. Len(s) -> ToSet(s)] /\ \A x \in ToSet(s) : \E i \in 1 .. Len(s) : s[i] = x
  BY <1>1, LenProperties DEF ToSet
<1>3. s \in Surjection(1 .. Len(s), ToSet(s))
  BY <1>2, Fun_IsSurj
<1>4. IsFiniteSet(1 .. Len(s)) /\ Cardinality(1 .. Len(s)) = Len(s)
  BY <1>1, FS_Interval
<1>5. IsFiniteSet(ToSet(s)) /\ Cardinality(ToSet(s)) <= Cardinality(1 .. Len(s))
  BY <1>3, <1>4, FS_Surjection
<1> QED
  BY <1>4, <1>5, FS_CardinalityType

(* SetToSeq lists a finite set.                                             *)
LEMMA SetToSeqLists ==
  ASSUME NEW S, IsFiniteSet(S)
  PROVE  SetToSeq(S) \in Seq(S) /\ ToSet(SetToSeq(S)) = S
<1> DEFINE n == Cardinality(S)
           f == SetToSeq(S)
<1>1. n \in Nat /\ ExistsBijection(1 .. n, S)
  BY FS_CardinalityType
<1>2. \E g \in [1 .. n -> S] : IsInjective(g)
  <2>1. PICK g : g \in Bijection(1 .. n, S)
    BY <1>1, Fun_ExistsBij
  <2>2. g \in [1 .. n -> S] /\ \A a, b \in 1 .. n : g[a] = g[b] => a = b
    BY <2>1, Fun_BijectionProperties
  <2> QED
    BY <2>2 DEF IsInjective
<1>3. f \in [1 .. n -> S] /\ IsInjective(f)
  BY <1>2 DEF SetToSeq
<1> HIDE DEF f
<1>4. f \in Injection(1 .. n, S)
  BY <1>3, Fun_IsInj DEF IsInjective
<1>5. Cardinality(1 .. n) = n
  BY <1>1, FS_Interval
<1>6. f \in Surjection(1 .. n, S)
  BY <1>4, <1>5, FS_Injection
<1>7. \A x \in S : \E i \in 1 .. n : f[i] = x
  BY <1>6 DEF Surjection
<1>8. f \in Seq(S)
  BY <1>1, <1>3, SeqDef
<1>9. ToSet(f) = S
  BY <1>3, <1>7 DEF ToSet
<1> QED
  BY <1>8, <1>9 DEF f

(* The orders of SetToSeqs list the set.                                    *)
LEMMA OrdersList ==
  ASSUME NEW S, IsFiniteSet(S), NEW s \in SetToSeqs(S)
  PROVE  s \in Seq(S) /\ ToSet(s) = S
<1> DEFINE n == Cardinality(S)
<1>1. n \in Nat
  BY FS_CardinalityType
<1>2. s \in [1 .. n -> S] /\ \A i, j \in 1 .. n : i # j => s[i] # s[j]
  BY DEF SetToSeqs
<1>3. s \in Injection(1 .. n, S)
  BY <1>2, Fun_IsInj
<1>4. Cardinality(1 .. n) = n
  <2>1. 1 \in Int /\ n \in Int /\ (IF 1 > n THEN 0 ELSE n - 1 + 1) = n
    BY <1>1
  <2> HIDE DEF n
  <2> QED
    BY <2>1, FS_Interval
<1>5. s \in Surjection(1 .. n, S)
  <2> HIDE DEF n
  <2> QED
    BY <1>3, <1>4, FS_Injection DEF n
<1>6. \A x \in S : \E i \in 1 .. n : s[i] = x
  BY <1>5 DEF Surjection
<1>7. s \in Seq(S)
  BY <1>1, <1>2, SeqDef
<1>8. ToSet(s) = S
  BY <1>2, <1>6 DEF ToSet
<1> QED
  BY <1>7, <1>8

(* A sequence is a prefix of itself and of itself with another appended.    *)
LEMMA PrefixOfConcat ==
  ASSUME NEW S, NEW s \in Seq(S), NEW t \in Seq(S)
  PROVE  IsPrefix(s, s \o t) /\ IsPrefix(s, s)
<1>1. /\ Len(s) \in Nat /\ Len(t) \in Nat /\ s \o t \in Seq(S) /\ Len(s \o t) = Len(s) + Len(t)
      /\ \A i \in 1 .. Len(s) : (s \o t)[i] = s[i] /\ s[i] \in S
  BY ConcatProperties, LenProperties, ElementOfSeq
<1>2. /\ SubSeq(s \o t, 1, Len(s)) \in Seq(S) /\ SubSeq(s, 1, Len(s)) \in Seq(S)
      /\ Len(SubSeq(s \o t, 1, Len(s))) = Len(s) /\ Len(SubSeq(s, 1, Len(s))) = Len(s)
      /\ \A i \in 1 .. Len(s) : SubSeq(s \o t, 1, Len(s))[i] = s[i]
                             /\ SubSeq(s, 1, Len(s))[i] = s[i]
  BY <1>1, SubSeqProperties
<1>3. SubSeq(s \o t, 1, Len(s)) = SubSeq(s, 1, Len(s))
  BY <1>1, <1>2, SeqEqual
<1> QED
  BY <1>1, <1>3 DEF IsPrefix

-----------------------------------------------------------------------------
(* A set of numbers that is not empty has a least element.                  *)
LEMMA LeastNumber ==
  ASSUME NEW T \in SUBSET Nat, T # {}
  PROVE  \E n \in T : \A m \in T : n <= m
<1> DEFINE R == {ss \in Nat \X Nat : ss[1] < ss[2]}
<1>1. IsWellFoundedOn(R, Nat)
  BY NatLessThanWellFounded, Zenon DEF OpToRel
<1>2. PICK n \in T : \A m \in T : ~ (<<m, n>> \in R)
  BY <1>1, WFMin, Zenon
<1>3. \A m \in T : ~ (m < n)
  <2> TAKE m \in T
  <2>1. m \in Nat /\ n \in Nat
    OBVIOUS
  <2>2. ~ (<<m, n>> \in R)
    BY <1>2
  <2> QED
    BY <2>1, <2>2
<1> QED
  BY <1>3

(* Induction over the numbers, as a fact about a set of them: the induction *)
(* theorems of the library take an operator, which the provers cannot       *)
(* instantiate.                                                             *)
LEMMA NumberInduction ==
  ASSUME NEW P \in SUBSET Nat, 0 \in P, \A n \in P : n + 1 \in P
  PROVE  P = Nat
<1> SUFFICES ASSUME Nat \ P # {} PROVE FALSE
  OBVIOUS
<1>1. PICK n \in Nat \ P : \A m \in Nat \ P : n <= m
  BY LeastNumber
<1>2. n - 1 \in Nat /\ n - 1 \in P /\ n = (n - 1) + 1
  BY <1>1
<1> QED
  BY <1>2

(* The element of a set that MapThenSumSet takes first.                     *)
Chosen(s) == CHOOSE x \in s : TRUE

(* it[s] is the sum of w over s, for every subset s of S, as MapThenSumSet  *)
(* forms it: an element at a time, in the order of CHOOSE.                  *)
SumRec(it, w, S) ==
  it = [s \in SUBSET S |-> IF s = {} THEN 0 ELSE w[Chosen(s)] + it[s \ {Chosen(s)}]]

(* The sum of w over S.                                                     *)
SumOver(w, S) == (CHOOSE it : SumRec(it, w, S))[S]

(* Appending to the second of two sequences appends to both.                *)
LEMMA ConcatAppend ==
  ASSUME NEW S, NEW s \in Seq(S), NEW t \in Seq(S), NEW k \in S
  PROVE  s \o Append(t, k) = Append(s \o t, k)
<1>1. <<k>> \in Seq(S) /\ s \o t \in Seq(S)
  BY ConcatProperties
<1>2. Append(t, k) = t \o <<k>> /\ Append(s \o t, k) = (s \o t) \o <<k>>
  BY <1>1, AppendIsConcat
<1>3. (s \o t) \o <<k>> = s \o (t \o <<k>>)
  BY <1>1, ConcatAssociative
<1> QED
  BY <1>2, <1>3

(* A finite set of no element is the empty set.                             *)
LEMMA NoneLeft ==
  ASSUME NEW S, IsFiniteSet(S), Cardinality(S) <= 0
  PROVE  S = {}
<1>1. Cardinality(S) \in Nat
  BY FS_CardinalityType
<1>2. Cardinality(S) = 0
  BY <1>1
<1> QED
  BY <1>2, FS_EmptySet

(* Taking an element away leaves a smaller set.                             *)
LEMMA TakenAway ==
  ASSUME NEW s, IsFiniteSet(s), s # {}, NEW n \in Nat, Cardinality(s) <= n + 1
  PROVE  /\ Chosen(s) \in s /\ IsFiniteSet(s \ {Chosen(s)})
         /\ Cardinality(s \ {Chosen(s)}) \in Nat /\ Cardinality(s \ {Chosen(s)}) <= n
<1>1. Chosen(s) \in s
  BY DEF Chosen
<1>2. Cardinality(s) \in Nat
  BY FS_CardinalityType
<1>3. IsFiniteSet(s \ {Chosen(s)}) /\ Cardinality(s \ {Chosen(s)}) = Cardinality(s) - 1
  BY <1>1, FS_RemoveElement
<1>4. Cardinality(s \ {Chosen(s)}) \in Nat
  BY <1>3, FS_CardinalityType
<1> QED
  BY <1>1, <1>2, <1>3, <1>4

(* There is a function that satisfies the recursion, so that CHOOSE finds   *)
(* one.                                                                     *)
LEMMA SumExists ==
  ASSUME NEW S, IsFiniteSet(S), NEW w, \A x \in S : w[x] \in Nat
  PROVE  \E it \in [SUBSET S -> Nat] : SumRec(it, w, S)
<1> DEFINE Small(n) == {s \in SUBSET S : Cardinality(s) <= n}
           Done(n) == \E it \in [Small(n) -> Nat] :
                        \A s \in Small(n) :
                          it[s] = IF s = {} THEN 0 ELSE w[Chosen(s)] + it[s \ {Chosen(s)}]
           P == {n \in Nat : Done(n)}
<1>1. \A s \in SUBSET S : IsFiniteSet(s) /\ Cardinality(s) \in Nat
  BY FS_Subset, FS_CardinalityType
<1>2. 0 \in P
  <2>1. \A s \in Small(0) : s = {}
    BY <1>1, NoneLeft
  <2> DEFINE it == [s \in Small(0) |-> 0]
  <2>2. it \in [Small(0) -> Nat]
    OBVIOUS
  <2>3. \A s \in Small(0) :
          it[s] = IF s = {} THEN 0 ELSE w[Chosen(s)] + it[s \ {Chosen(s)}]
    BY <2>1
  <2> QED
    BY <2>2, <2>3
<1>3. ASSUME NEW n \in P PROVE n + 1 \in P
  <2>1. PICK it \in [Small(n) -> Nat] :
               \A s \in Small(n) :
                 it[s] = IF s = {} THEN 0 ELSE w[Chosen(s)] + it[s \ {Chosen(s)}]
    OBVIOUS
  <2> DEFINE new == [s \in Small(n + 1) |->
                       IF s = {} THEN 0 ELSE w[Chosen(s)] + it[s \ {Chosen(s)}]]
  <2>2. \A s \in Small(n + 1) : s # {} => /\ Chosen(s) \in S
                                          /\ s \ {Chosen(s)} \in Small(n)
    BY <1>1, TakenAway
  <2>3. new \in [Small(n + 1) -> Nat]
    <3>1. ASSUME NEW s \in Small(n + 1), s # {} PROVE w[Chosen(s)] + it[s \ {Chosen(s)}] \in Nat
      <4>1. Chosen(s) \in S /\ s \ {Chosen(s)} \in Small(n)
        BY <2>2, <3>1
      <4>2. w[Chosen(s)] \in Nat /\ it[s \ {Chosen(s)}] \in Nat
        BY <4>1
      <4> QED
        BY <4>2
    <3> QED
      BY <3>1
  <2>4. \A s \in Small(n) : s \in Small(n + 1) /\ new[s] = it[s]
    BY <1>1, <2>1
  <2>5. \A s \in Small(n + 1) :
          new[s] = IF s = {} THEN 0 ELSE w[Chosen(s)] + new[s \ {Chosen(s)}]
    BY <2>2, <2>4
  <2> HIDE DEF new
  <2>6. Done(n + 1)
    BY <2>3, <2>5
  <2> HIDE DEF Done
  <2> QED
    BY <2>6
<1>4. Cardinality(S) \in P
  <2> HIDE DEF P
  <2>1. P \in SUBSET Nat
    BY DEF P
  <2> QED
    BY <1>1, <1>2, <1>3, <2>1, NumberInduction
<1>5. Small(Cardinality(S)) = SUBSET S
  <2>1. \A s \in SUBSET S : Cardinality(s) <= Cardinality(S)
    BY FS_Subset
  <2> QED
    BY <2>1
<1>6. PICK it \in [SUBSET S -> Nat] :
             \A s \in SUBSET S :
               it[s] = IF s = {} THEN 0 ELSE w[Chosen(s)] + it[s \ {Chosen(s)}]
  BY <1>4, <1>5
<1> QED
  BY <1>6 DEF SumRec

(* w and v agree on U.                                                      *)
SameOn(w, v, U) == \A x \in U : w[x] = v[x]

(* Any two functions that satisfy the recursion agree, on whatever sets     *)
(* they are both defined.                                                   *)
LEMMA SumUnique ==
  ASSUME NEW S, NEW T, NEW U, IsFiniteSet(U), U \subseteq S, U \subseteq T,
         NEW w, NEW v, SameOn(w, v, U),
         NEW a, SumRec(a, w, S), NEW b, SumRec(b, v, T)
  PROVE  a[U] = b[U]
<1> USE DEF SameOn
<1> DEFINE P == {n \in Nat : \A s \in SUBSET U : Cardinality(s) <= n => a[s] = b[s]}
<1>1. \A s \in SUBSET U : IsFiniteSet(s) /\ Cardinality(s) \in Nat
  BY FS_Subset, FS_CardinalityType
<1>2. \A s \in SUBSET U :
        /\ a[s] = IF s = {} THEN 0 ELSE w[Chosen(s)] + a[s \ {Chosen(s)}]
        /\ b[s] = IF s = {} THEN 0 ELSE v[Chosen(s)] + b[s \ {Chosen(s)}]
  BY DEF SumRec
<1>3. 0 \in P
  <2>1. \A s \in SUBSET U : Cardinality(s) <= 0 => s = {}
    BY <1>1, NoneLeft
  <2>2. a[{}] = b[{}]
    BY <1>2
  <2>3. \A s \in SUBSET U : Cardinality(s) <= 0 => a[s] = b[s]
    BY <2>1, <2>2
  <2> QED
    BY <2>3
<1>4. ASSUME NEW n \in P PROVE n + 1 \in P
  <2>1. ASSUME NEW s \in SUBSET U, Cardinality(s) <= n + 1, s # {}
        PROVE  a[s] = b[s]
    <3>1. Chosen(s) \in U /\ s \ {Chosen(s)} \in SUBSET U /\ Cardinality(s \ {Chosen(s)}) <= n
      BY <1>1, <2>1, TakenAway
    <3>2. a[s \ {Chosen(s)}] = b[s \ {Chosen(s)}]
      BY <3>1
    <3> QED
      BY <1>2, <2>1, <3>1, <3>2
  <2>2. a[{}] = b[{}]
    BY <1>2
  <2>3. \A s \in SUBSET U : Cardinality(s) <= n + 1 => a[s] = b[s]
    BY <2>1, <2>2
  <2> QED
    BY <2>3
<1>5. Cardinality(U) \in P
  <2> HIDE DEF P
  <2>1. P \in SUBSET Nat
    BY DEF P
  <2> QED
    BY <1>1, <1>3, <1>4, <2>1, NumberInduction
<1> QED
  BY <1>5

(* The sum is a number, and every function that satisfies the recursion     *)
(* gives it.                                                                *)
LEMMA SumDefined ==
  ASSUME NEW S, IsFiniteSet(S), NEW w, \A x \in S : w[x] \in Nat
  PROVE  /\ SumRec(CHOOSE it : SumRec(it, w, S), w, S)
         /\ SumOver(w, S) \in Nat
         /\ \A it : SumRec(it, w, S) => SumOver(w, S) = it[S]
<1>1. PICK it \in [SUBSET S -> Nat] : SumRec(it, w, S)
  BY SumExists
<1>2. SumRec(CHOOSE f : SumRec(f, w, S), w, S)
  BY <1>1, Zenon
<1>3. ASSUME NEW f, SumRec(f, w, S) PROVE SumOver(w, S) = f[S]
  <2>1. SameOn(w, w, S)
    BY DEF SameOn
  <2>2. (CHOOSE g : SumRec(g, w, S))[S] = f[S]
    BY <1>2, <1>3, <2>1, SumUnique
  <2> QED
    BY <2>2 DEF SumOver
<1> QED
  BY <1>1, <1>2, <1>3

(* The sum depends on the values over S alone.                              *)
LEMMA SumSame ==
  ASSUME NEW S, IsFiniteSet(S), NEW w, NEW v, \A x \in S : w[x] \in Nat /\ w[x] = v[x]
  PROVE  SumOver(w, S) = SumOver(v, S)
<1>1. PICK a : SumRec(a, w, S) /\ SumOver(w, S) = a[S]
  BY SumDefined
<1>2. PICK b : SumRec(b, v, S) /\ SumOver(v, S) = b[S]
  BY SumDefined
<1>3. a[S] = b[S]
  BY <1>1, <1>2, SumUnique DEF SameOn
<1> QED
  BY <1>1, <1>2, <1>3

(* The sum over no element is 0.                                            *)
LEMMA SumEmpty == ASSUME NEW w PROVE SumOver(w, {}) = 0
<1>1. IsFiniteSet({})
  BY FS_EmptySet
<1>2. PICK a : SumRec(a, w, {}) /\ SumOver(w, {}) = a[{}]
  BY <1>1, SumDefined
<1> QED
  BY <1>2 DEF SumRec

(* The recursion, of SumOver: the element CHOOSE takes, and the rest.       *)
LEMMA SumTakes ==
  ASSUME NEW S, IsFiniteSet(S), S # {}, NEW w, \A x \in S : w[x] \in Nat
  PROVE  /\ Chosen(S) \in S
         /\ SumOver(w, S) = w[Chosen(S)] + SumOver(w, S \ {Chosen(S)})
<1> DEFINE c == Chosen(S)
<1>1. PICK a : SumRec(a, w, S) /\ SumOver(w, S) = a[S]
  BY SumDefined
<1>2. c \in S /\ IsFiniteSet(S \ {c})
  BY FS_RemoveElement DEF Chosen
<1>3. PICK b : SumRec(b, w, S \ {c}) /\ SumOver(w, S \ {c}) = b[S \ {c}]
  BY <1>2, SumDefined
<1>4. a[S] = w[c] + a[S \ {c}]
  BY <1>1 DEF SumRec
<1>5. a[S \ {c}] = b[S \ {c}]
  <2>1. S \ {c} \subseteq S /\ SameOn(w, w, S \ {c})
    BY DEF SameOn
  <2> HIDE DEF c
  <2> QED
    BY <1>1, <1>2, <1>3, <2>1, SumUnique
<1> QED
  BY <1>1, <1>2, <1>3, <1>4, <1>5

(* The sum does not depend on the order: any element can be added last.     *)
LEMMA SumAdd ==
  ASSUME NEW S, IsFiniteSet(S), NEW w, \A x \in S : w[x] \in Nat,
         NEW y, y \notin S, w[y] \in Nat
  PROVE  SumOver(w, S \cup {y}) = w[y] + SumOver(w, S)
<1> DEFINE Good(T, x) == SumOver(w, T \cup {x}) = w[x] + SumOver(w, T)
           U == S \cup {y}
           P == {n \in Nat : \A T \in SUBSET U : \A x \in U \ T :
                               Cardinality(T) <= n => Good(T, x)}
<1>0. IsFiniteSet(U) /\ \A x \in U : w[x] \in Nat
  BY FS_AddElement
<1>1. \A T \in SUBSET U : IsFiniteSet(T) /\ Cardinality(T) \in Nat /\ SumOver(w, T) \in Nat
  BY <1>0, FS_Subset, FS_CardinalityType, SumDefined
<1>2. ASSUME NEW x \in U PROVE Good({}, x)
  <2>1. Chosen({x}) = x /\ {x} \ {x} = {} /\ {} \cup {x} = {x} /\ {x} \in SUBSET U
    BY DEF Chosen
  <2>2. SumOver(w, {x}) = w[x] + SumOver(w, {x} \ {Chosen({x})})
    BY <1>0, <1>1, <2>1, SumTakes
  <2> QED
    BY <2>1, <2>2
<1>3. 0 \in P
  <2>1. \A T \in SUBSET U : Cardinality(T) <= 0 => T = {}
    BY <1>1, NoneLeft
  <2> QED
    BY <1>2, <2>1
<1>4. ASSUME NEW n \in P PROVE n + 1 \in P
  <2>1. ASSUME NEW T \in SUBSET U, NEW x \in U \ T, Cardinality(T) <= n + 1, T # {}
        PROVE  Good(T, x)
    <3> DEFINE V == T \cup {x}
               c == Chosen(V)
    <3>1. c \in V /\ SumOver(w, V) = w[c] + SumOver(w, V \ {c})
      <4>1. V \in SUBSET U /\ V # {}
        OBVIOUS
      <4> HIDE DEF V
      <4> QED
        BY <1>0, <1>1, <4>1, SumTakes
    <3>2. CASE c = x
      <4>1. V \ {c} = T
        BY <3>2, <2>1
      <4> QED
        BY <3>1, <3>2, <4>1
    <3>3. CASE c # x
      <4> DEFINE W == T \ {c}
      <4>1. c \in T /\ V \ {c} = W \cup {x} /\ T = W \cup {c} /\ W \in SUBSET U /\ x \in U \ W /\ c \in U \ W
        BY <3>1, <3>3, <2>1
      <4>2. Cardinality(W) <= n
        <5>1. Cardinality(W) = Cardinality(T) - 1
          BY <1>1, <4>1, FS_RemoveElement
        <5> QED
          BY <1>1, <5>1, <2>1
      <4> HIDE DEF W, V, c
      <4>3. SumOver(w, W \cup {x}) = w[x] + SumOver(w, W)
        BY <4>1, <4>2
      <4>4. SumOver(w, W \cup {c}) = w[c] + SumOver(w, W)
        BY <4>1, <4>2
      <4>5. w[c] \in Nat /\ w[x] \in Nat /\ SumOver(w, W) \in Nat
        BY <1>0, <1>1, <4>1
      <4>6. SumOver(w, V) = w[c] + (w[x] + SumOver(w, W))
        BY <3>1, <4>1, <4>3
      <4>7. w[x] + SumOver(w, T) = w[x] + (w[c] + SumOver(w, W))
        BY <4>1, <4>4
      <4> QED
        BY <4>5, <4>6, <4>7 DEF V
    <3> QED
      BY <3>2, <3>3
  <2> HIDE DEF Good
  <2>2. \A T \in SUBSET U : \A x \in U \ T : Cardinality(T) <= n + 1 => Good(T, x)
    BY <1>2, <2>1
  <2> QED
    BY <2>2
<1>5. Cardinality(S) \in P
  <2> HIDE DEF P
  <2>1. P \in SUBSET Nat /\ S \in SUBSET U
    BY DEF P
  <2> QED
    BY <1>1, <1>3, <1>4, <2>1, NumberInduction
<1> QED
  BY <1>1, <1>5

(* Induction over the subsets of a finite set, an element at a time.        *)
LEMMA SetInduction ==
  ASSUME NEW S, IsFiniteSet(S), NEW P, {} \in P,
         \A T \in SUBSET S : \A x \in S \ T : T \in P => T \cup {x} \in P
  PROVE  S \in P
<1> DEFINE Q == {n \in Nat : \A T \in SUBSET S : Cardinality(T) <= n => T \in P}
<1>1. \A T \in SUBSET S : IsFiniteSet(T) /\ Cardinality(T) \in Nat
  BY FS_Subset, FS_CardinalityType
<1>2. 0 \in Q
  <2>1. \A T \in SUBSET S : Cardinality(T) <= 0 => T = {}
    BY <1>1, NoneLeft
  <2> QED
    BY <2>1
<1>3. ASSUME NEW n \in Q PROVE n + 1 \in Q
  <2>1. ASSUME NEW T \in SUBSET S, Cardinality(T) <= n + 1, T # {} PROVE T \in P
    <3> DEFINE x == Chosen(T)
    <3>1. x \in T /\ Cardinality(T \ {x}) <= n
      BY <1>1, <2>1, TakenAway
    <3> HIDE DEF x
    <3>2. T \ {x} \in P /\ x \in S \ (T \ {x}) /\ (T \ {x}) \cup {x} = T /\ T \ {x} \in SUBSET S
      BY <3>1
    <3> QED
      BY <3>2
  <2>2. \A T \in SUBSET S : Cardinality(T) <= n + 1 => T \in P
    BY <2>1
  <2> QED
    BY <2>2
<1>4. Cardinality(S) \in Q
  <2> HIDE DEF Q
  <2>1. Q \in SUBSET Nat
    BY DEF Q
  <2> QED
    BY <1>1, <1>2, <1>3, <2>1, NumberInduction
<1> QED
  BY <1>4

(* FoldLeft takes the largest index left, and folds the others first.       *)
Largest(s) == CHOOSE x \in s : \A y \in s : x >= y

(* A finite set of numbers has a largest element.                           *)
LEMMA LargestIs ==
  ASSUME NEW s \in SUBSET Nat, IsFiniteSet(s), s # {}
  PROVE  Largest(s) \in s /\ \A y \in s : Largest(s) >= y
<1> DEFINE P == {t \in SUBSET s : t # {} => \E x \in t : \A y \in t : x >= y}
<1>1. {} \in P
  OBVIOUS
<1>2. ASSUME NEW t \in SUBSET s, NEW x \in s \ t, t \in P PROVE t \cup {x} \in P
  <2>1. CASE t = {}
    BY <2>1
  <2>2. CASE t # {}
    <3>1. PICK m \in t : \A y \in t : m >= y
      BY <1>2, <2>2
    <3>2. CASE x >= m
      <4>1. \A y \in t \cup {x} : x >= y
        BY <3>1, <3>2
      <4> QED
        BY <4>1
    <3>3. CASE m > x
      <4>1. \A y \in t \cup {x} : m >= y
        BY <3>1, <3>3
      <4> QED
        BY <4>1
    <3> QED
      BY <3>2, <3>3
  <2> QED
    BY <2>1, <2>2
<1>3. s \in P
  <2> HIDE DEF P
  <2> QED
    BY <1>1, <1>2, SetInduction
<1>4. \E x \in s : \A y \in s : x >= y
  BY <1>3
<1> QED
  BY <1>4 DEF Largest

(* The sum over two disjoint sets is the sum of their sums.                 *)
LEMMA SumUnion ==
  ASSUME NEW S, IsFiniteSet(S), NEW T, IsFiniteSet(T), S \cap T = {},
         NEW w, \A x \in S \cup T : w[x] \in Nat
  PROVE  SumOver(w, S \cup T) = SumOver(w, S) + SumOver(w, T)
<1> DEFINE P == {U \in SUBSET T : SumOver(w, S \cup U) = SumOver(w, S) + SumOver(w, U)}
<1>1. \A U \in SUBSET T : /\ IsFiniteSet(U) /\ IsFiniteSet(S \cup U)
                          /\ SumOver(w, U) \in Nat /\ SumOver(w, S \cup U) \in Nat
  <2> TAKE U \in SUBSET T
  <2>1. IsFiniteSet(U) /\ IsFiniteSet(S \cup U)
    BY FS_Subset, FS_Union
  <2>2. (\A x \in U : w[x] \in Nat) /\ (\A x \in S \cup U : w[x] \in Nat)
    OBVIOUS
  <2> QED
    BY <2>1, <2>2, SumDefined
<1>2. SumOver(w, S) \in Nat
  BY SumDefined
<1>3. {} \in P
  <2>1. S \cup {} = S
    OBVIOUS
  <2> QED
    BY <1>2, <2>1, SumEmpty
<1>4. ASSUME NEW U \in SUBSET T, NEW x \in T \ U, U \in P PROVE U \cup {x} \in P
  <2>1. SumOver(w, U \cup {x}) = w[x] + SumOver(w, U)
    BY <1>1, <1>4, SumAdd
  <2>2. SumOver(w, (S \cup U) \cup {x}) = w[x] + SumOver(w, S \cup U)
    <3>1. IsFiniteSet(S \cup U) /\ x \notin S \cup U /\ w[x] \in Nat
          /\ \A y \in S \cup U : w[y] \in Nat
      BY <1>1, <1>4
    <3> QED
      BY <3>1, SumAdd
  <2>3. S \cup (U \cup {x}) = (S \cup U) \cup {x} /\ U \cup {x} \in SUBSET T /\ w[x] \in Nat
    OBVIOUS
  <2>4. /\ SumOver(w, U) \in Nat /\ SumOver(w, S \cup U) = SumOver(w, S) + SumOver(w, U)
        /\ SumOver(w, S \cup (U \cup {x})) = w[x] + SumOver(w, S \cup U)
    BY <1>1, <1>4, <2>2, <2>3
  <2>5. SumOver(w, S \cup (U \cup {x})) = SumOver(w, S) + SumOver(w, U \cup {x})
    BY <1>2, <2>1, <2>3, <2>4
  <2> QED
    BY <2>3, <2>5
<1>5. T \in P
  <2> HIDE DEF P
  <2> QED
    BY <1>3, <1>4, SetInduction
<1> QED
  BY <1>5

(* A sum over the image of a set under an injection is one over the set.    *)
LEMMA SumImage ==
  ASSUME NEW S, IsFiniteSet(S), NEW h, NEW v, NEW w,
         \A x, y \in S : h[x] = h[y] => x = y,
         \A x \in S : w[x] \in Nat /\ v[h[x]] = w[x]
  PROVE  SumOver(v, {h[x] : x \in S}) = SumOver(w, S)
<1> DEFINE Img(U) == {h[x] : x \in U}
           P == {U \in SUBSET S : IsFiniteSet(Img(U)) /\ SumOver(v, Img(U)) = SumOver(w, U)}
<1>1. {} \in P
  <2>1. Img({}) = {}
    OBVIOUS
  <2> QED
    BY <2>1, SumEmpty, FS_EmptySet
<1>2. ASSUME NEW U \in SUBSET S, NEW x \in S \ U, U \in P PROVE U \cup {x} \in P
  <2>1. Img(U \cup {x}) = Img(U) \cup {h[x]} /\ h[x] \notin Img(U)
    OBVIOUS
  <2>2. IsFiniteSet(U) /\ IsFiniteSet(Img(U)) /\ IsFiniteSet(Img(U \cup {x}))
    BY <1>2, <2>1, FS_Subset, FS_AddElement
  <2>3. (\A y \in Img(U) : v[y] \in Nat) /\ v[h[x]] \in Nat
    OBVIOUS
  <2>4. SumOver(v, Img(U) \cup {h[x]}) = v[h[x]] + SumOver(v, Img(U))
    <3> HIDE DEF Img
    <3> QED
      BY <2>1, <2>2, <2>3, SumAdd
  <2>5. SumOver(w, U \cup {x}) = w[x] + SumOver(w, U)
    BY <2>2, SumAdd
  <2> QED
    BY <1>2, <2>1, <2>2, <2>4, <2>5
<1>3. S \in P
  <2> HIDE DEF P
  <2> QED
    BY <1>1, <1>2, SetInduction
<1> QED
  BY <1>3
=============================================================================
