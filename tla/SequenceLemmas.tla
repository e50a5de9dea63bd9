--------------------------- MODULE SequenceLemmas ---------------------------
(***************************************************************************)
(* What FlattenSeq, ToSet and IsInjective of SequencesExt do with the      *)
(* sequences a model builds: appending, concatenating, taking the head.    *)
(*                                                                         *)
(* FlattenSeq is a recursive function, so its lemmas need induction;       *)
(* NatSetInd states it for a set, which the provers can instantiate where  *)
(* they cannot an operator.                                                *)
(***************************************************************************)
EXTENDS Integers, Sequences, SequencesExt, FiniteSetTheorems, SequenceTheorems, TLAPS

-----------------------------------------------------------------------------
(* Induction.                                                              *)

\* Induction over the naturals, for a set: one that has 0 and the successor of every natural it
\* has, has them all. (A set that lacked n would let x |-> x+1 map its part up to n one-to-one
\* into that part without 0, which the pigeonhole principle forbids.)
LEMMA NatSetInd ==
  ASSUME NEW S, 0 \in S, \A n \in Nat : n \in S => n+1 \in S
  PROVE  Nat \subseteq S
<1>. SUFFICES ASSUME NEW n \in Nat, n \notin S PROVE FALSE
  OBVIOUS
<1>. DEFINE T == S \cap (0..n)
            f == [x \in T |-> x+1]
<1>1. IsFiniteSet(T) /\ Cardinality(T) \in Nat
  <2>1. T \in SUBSET Nat /\ \A s \in T : s <= n
    OBVIOUS
  <2>. HIDE DEF T
  <2>2. IsFiniteSet(T)
    BY <2>1, FS_BoundedSetOfNaturals
  <2>. QED BY <2>2, FS_CardinalityType
<1>2. 0 \in T
  OBVIOUS
<1>3. IsFiniteSet(T \ {0}) /\ Cardinality(T \ {0}) = Cardinality(T) - 1
  BY <1>1, <1>2, FS_RemoveElement
<1>4. f \in [T -> T \ {0}]
  OBVIOUS
<1>5. Cardinality(T \ {0}) < Cardinality(T)
  BY <1>1, <1>3
<1>6. \E x, y \in T : x # y /\ f[x] = f[y]
  <2>. HIDE DEF T, f
  <2>. QED BY <1>1, <1>3, <1>4, <1>5, FS_PigeonHole
<1>. QED BY <1>6

-----------------------------------------------------------------------------
(* FlattenSeq: the elements of a sequence of sequences, end to end.        *)

\* f gives the concatenation of the first i elements of q, for every i up to n.
Flattens(f, q, n) == f = [i \in 1..n |-> IF i = 1 THEN q[i] ELSE f[i-1] \o q[i]]

\* The concatenation of the first n elements can be computed prefix by prefix.
LEMMA FlattensExist ==
  ASSUME NEW q
  PROVE  \A n \in Nat : \E f : Flattens(f, q, n)
<1>. DEFINE S == {n \in Nat : \E f : Flattens(f, q, n)}
<1>1. 0 \in S
  <2>. DEFINE f == [i \in 1..0 |-> q[i]]
  <2>1. f = [i \in 1..0 |-> IF i = 1 THEN q[i] ELSE f[i-1] \o q[i]]
    OBVIOUS
  <2>. QED BY <2>1 DEF Flattens
<1>2. ASSUME NEW n \in Nat, n \in S PROVE n+1 \in S
  <2>1. PICK f : Flattens(f, q, n)
    BY <1>2
  <2>. DEFINE g == [i \in 1..(n+1) |-> IF i <= n THEN f[i]
                                       ELSE IF i = 1 THEN q[i] ELSE f[i-1] \o q[i]]
              h == [i \in 1..(n+1) |-> IF i = 1 THEN q[i] ELSE g[i-1] \o q[i]]
  <2>2. ASSUME NEW i \in 1..(n+1) PROVE g[i] = h[i]
    <3>1. CASE i = 1 /\ i <= n
      BY <2>1, <3>1 DEF Flattens
    <3>2. CASE i # 1 /\ i <= n
      <4>1. i-1 \in 1..(n+1) /\ i-1 <= n /\ i \in 1..n
        BY <3>2
      <4>2. g[i] = f[i] /\ g[i-1] = f[i-1] /\ h[i] = g[i-1] \o q[i]
        BY <4>1, <3>2
      <4>3. f[i] = f[i-1] \o q[i]
        BY <2>1, <4>1, <3>2 DEF Flattens
      <4>. QED BY <4>2, <4>3
    <3>3. CASE i = 1 /\ i > n
      BY <3>3
    <3>4. CASE i # 1 /\ i > n
      <4>1. i-1 \in 1..(n+1) /\ i-1 <= n /\ ~(i <= n)
        BY <3>4
      <4>2. g[i] = f[i-1] \o q[i] /\ g[i-1] = f[i-1] /\ h[i] = g[i-1] \o q[i]
        BY <4>1, <3>4
      <4>. QED BY <4>2
    <3>. QED BY <3>1, <3>2, <3>3, <3>4
  <2>3. g = h
    <3>. HIDE DEF h
    <3>1. DOMAIN h = 1..(n+1) /\ h = [i \in 1..(n+1) |-> h[i]]
      BY DEF h
    <3>. QED BY <2>2, <3>1
  <2>. HIDE DEF g
  <2>4. Flattens(g, q, n+1)
    BY <2>3 DEF Flattens
  <2>. QED BY <2>4
<1>. HIDE DEF S
<1>3. Nat \subseteq S
  BY <1>1, <1>2, NatSetInd
<1>. QED BY <1>3 DEF S

\* What FlattenSeq chooses is such a computation.
LEMMA FlattenIs ==
  ASSUME NEW q, Len(q) \in Nat, Len(q) # 0
  PROVE  \E f : Flattens(f, q, Len(q)) /\ FlattenSeq(q) = f[Len(q)]
<1>. DEFINE f == CHOOSE g : Flattens(g, q, Len(q))
<1>1. Flattens(f, q, Len(q))
  BY FlattensExist
<1>2. FlattenSeq(q) = f[Len(q)]
  BY DEF FlattenSeq, Flattens
<1>. QED BY <1>1, <1>2

\* The same, as a first step and one for each further element.
Steps(f, q, n) == f[1] = q[1] /\ \A k \in 1..n : k # 1 => f[k] = f[k-1] \o q[k]

\* The computation, one step at a time.
LEMMA FlattensSteps ==
  ASSUME NEW q, Len(q) \in Nat, Len(q) # 0
  PROVE  \E f : Steps(f, q, Len(q)) /\ FlattenSeq(q) = f[Len(q)]
<1>. DEFINE n == Len(q)
<1>. HIDE DEF n
<1>1. PICK f : Flattens(f, q, n) /\ FlattenSeq(q) = f[n]
  BY FlattenIs DEF n
<1>. DEFINE h == [i \in 1..n |-> IF i = 1 THEN q[i] ELSE f[i-1] \o q[i]]
<1>2. f = h
  BY <1>1 DEF Flattens
<1>3. h[1] = q[1] /\ \A k \in 1..n : k # 1 => h[k] = f[k-1] \o q[k]
  <2>1. 1 \in 1..n
    BY DEF n
  <2>. QED BY <2>1
<1>. HIDE DEF h
<1>4. Steps(f, q, n)
  BY <1>2, <1>3 DEF Steps
<1>. QED BY <1>1, <1>4 DEF n

\* Nothing flattened is nothing.
LEMMA FlattenEmpty == FlattenSeq(<< >>) = << >>
BY DEF FlattenSeq

\* Every prefix of sequences over S is flattened to a sequence over S.
LEMMA FlattensTyped ==
  ASSUME NEW S, NEW n \in Nat \ {0}, NEW q, \A k \in 1..n : q[k] \in Seq(S),
         NEW f, Steps(f, q, n)
  PROVE  \A k \in 1..n : f[k] \in Seq(S)
<1>. DEFINE I == {k \in Nat : k \in 1..n => f[k] \in Seq(S)}
<1>1. 0 \in I
  OBVIOUS
<1>2. ASSUME NEW k \in Nat, k \in I PROVE k+1 \in I
  <2>1. f[1] \in Seq(S)
    BY DEF Steps
  <2>2. CASE k # 0 /\ k+1 \in 1..n
    <3>1. k \in 1..n /\ f[k] \in Seq(S) /\ q[k+1] \in Seq(S) /\ k+1 # 1 /\ (k+1)-1 = k
      BY <1>2, <2>2
    <3>2. f[k+1] = f[k] \o q[k+1]
      BY <3>1, <2>2 DEF Steps
    <3>. HIDE DEF I
    <3>3. f[k+1] \in Seq(S)
      BY <3>1, <3>2, ConcatProperties
    <3>. QED BY <3>3 DEF I
  <2>. QED BY <2>1, <2>2
<1>. HIDE DEF I
<1>3. Nat \subseteq I
  BY <1>1, <1>2, NatSetInd
<1>. QED BY <1>3 DEF I

\* Sequences over S are flattened to one over S.
LEMMA FlattenType ==
  ASSUME NEW S, NEW q \in Seq(Seq(S))
  PROVE  FlattenSeq(q) \in Seq(S)
<1>1. CASE q = << >>
  <2>1. FlattenSeq(q) = << >>
    BY <1>1, FlattenEmpty, Zenon
  <2>. QED BY <2>1
<1>2. CASE q # << >>
  <2>1. Len(q) \in Nat \ {0} /\ \A k \in 1..Len(q) : q[k] \in Seq(S)
    BY <1>2
  <2>2. PICK f : Steps(f, q, Len(q)) /\ FlattenSeq(q) = f[Len(q)]
    BY <2>1, FlattensSteps
  <2>. QED BY <2>1, <2>2, FlattensTyped
<1>. QED BY <1>1, <1>2

\* Sequences that agree on the first n elements are flattened alike up to there.
LEMMA FlattensAgree ==
  ASSUME NEW n \in Nat, NEW q, NEW r, \A k \in 1..n : q[k] = r[k],
         NEW f, NEW g, Steps(f, q, n), Steps(g, r, n)
  PROVE  \A k \in 1..n : f[k] = g[k]
<1>. DEFINE I == {k \in Nat : k \in 1..n => f[k] = g[k]}
<1>1. 0 \in I
  OBVIOUS
<1>2. ASSUME NEW k \in Nat, k \in I PROVE k+1 \in I
  <2>1. SUFFICES ASSUME k+1 \in 1..n PROVE f[k+1] = g[k+1]
    OBVIOUS
  <2>2. n # 0 /\ f[1] = g[1]
    BY <2>1 DEF Steps
  <2>3. CASE k # 0
    <3>1. k \in 1..n /\ f[k] = g[k] /\ q[k+1] = r[k+1] /\ k+1 # 1 /\ (k+1)-1 = k
      BY <1>2, <2>1, <2>3
    <3>2. f[k+1] = f[k] \o q[k+1] /\ g[k+1] = g[k] \o r[k+1]
      BY <3>1, <2>1, <2>2 DEF Steps
    <3>. QED BY <3>1, <3>2
  <2>. QED BY <2>2, <2>3
<1>. HIDE DEF I
<1>3. Nat \subseteq I
  BY <1>1, <1>2, NatSetInd
<1>. QED BY <1>3 DEF I

\* A last element comes last.
LEMMA FlattenAppend ==
  ASSUME NEW S, NEW q \in Seq(Seq(S)), NEW e \in Seq(S)
  PROVE  FlattenSeq(Append(q, e)) = FlattenSeq(q) \o e
<1>. DEFINE r == Append(q, e)
            n == Len(q)
<1>1. /\ r \in Seq(Seq(S)) /\ Len(r) = n + 1 /\ n \in Nat /\ r[n+1] = e
      /\ \A k \in 1..n : r[k] = q[k]
  OBVIOUS
<1>. HIDE DEF r
<1>2. PICK g : Steps(g, r, n+1) /\ FlattenSeq(r) = g[n+1]
  BY <1>1, FlattensSteps
<1>3. CASE q = << >>
  <2>1. FlattenSeq(r) = e
    BY <1>1, <1>2, <1>3 DEF Steps
  <2>. QED BY <2>1, <1>3, FlattenEmpty DEF r
<1>4. CASE q # << >>
  <2>1. n # 0
    BY <1>4
  <2>2. PICK f : Steps(f, q, n) /\ FlattenSeq(q) = f[n]
    BY <2>1, <1>1, FlattensSteps
  <2>3. f[n] = g[n]
    <3>1. /\ n \in 1..n /\ \A k \in 1..n : k \in 1..(n+1)
      BY <1>1, <2>1
    <3>. HIDE DEF n
    <3>2. Steps(g, r, n)
      BY <1>2, <3>1 DEF Steps
    <3>3. n \in Nat /\ \A k \in 1..n : q[k] = r[k]
      BY <1>1
    <3>4. Steps(f, q, n)
      BY <2>2
    <3>5. \A k \in 1..n : f[k] = g[k]
      BY <3>2, <3>3, <3>4, FlattensAgree
    <3>. QED BY <3>1, <3>5
  <2>4. g[n+1] = g[n] \o r[n+1]
    <3>1. n+1 \in 1..(n+1) /\ n+1 # 1 /\ (n+1)-1 = n /\ n+1 \in Nat \ {0}
      BY <1>1, <2>1
    <3>. HIDE DEF n
    <3>. QED BY <3>1, <1>2 DEF Steps
  <2>. QED BY <2>2, <2>3, <2>4, <1>1, <1>2 DEF r
<1>. QED BY <1>3, <1>4

\* Concatenation is associative on the sequences of S.
Regroups(S) == \A s, t, u \in Seq(S) : (s \o t) \o u = s \o (t \o u)

LEMMA ConcatRegroups ==
  \A S : Regroups(S)
<1>. SUFFICES ASSUME NEW S, NEW s \in Seq(S), NEW t \in Seq(S), NEW u \in Seq(S)
              PROVE  (s \o t) \o u = s \o (t \o u)
  BY DEF Regroups
<1>. QED BY ConcatAssociative

\* The first element comes first.
LEMMA FlattenHead ==
  ASSUME NEW S, NEW q \in Seq(Seq(S)), q # << >>
  PROVE  FlattenSeq(q) = Head(q) \o FlattenSeq(Tail(q))
<1>. DEFINE r == Tail(q)
            n == Len(q)
<1>1. /\ r \in Seq(Seq(S)) /\ n \in Nat \ {0} /\ Len(r) = n - 1 /\ Head(q) = q[1]
      /\ \A k \in 1..(n-1) : r[k] = q[k+1]
      /\ \A k \in 1..n : q[k] \in Seq(S)
  OBVIOUS
<1>2. Regroups(S)
  BY ConcatRegroups, Zenon
<1>. HIDE DEF r, n
<1>3. PICK f : Steps(f, q, n) /\ FlattenSeq(q) = f[n]
  BY <1>1, FlattensSteps DEF n
<1>4. CASE n = 1
  <2>1. r = << >>
    BY <1>1, <1>4
  <2>2. f[1] = q[1]
    BY <1>1, <1>3 DEF Steps
  <2>3. q[1] \o << >> = q[1]
    BY <1>1, ConcatEmptySeq
  <2>. QED BY <2>1, <2>2, <2>3, <1>1, <1>3, <1>4, FlattenEmpty DEF r
<1>5. CASE n # 1
  <2>1. n-1 \in Nat \ {0}
    BY <1>1, <1>5
  <2>2. PICK g : Steps(g, r, n-1) /\ FlattenSeq(r) = g[n-1]
    BY <2>1, <1>1, FlattensSteps
  <2>3. \A k \in 1..(n-1) : g[k] \in Seq(S)
    <3>1. \A k \in 1..(n-1) : r[k] \in Seq(S)
      BY <1>1
    <3>. QED BY <3>1, <2>1, <2>2, FlattensTyped
  <2>. DEFINE P(k) == k \in 1..(n-1) => f[k+1] = q[1] \o g[k]
              I == {k \in Nat : P(k)}
  <2>4. 0 \in I
    OBVIOUS
  <2>5. ASSUME NEW k \in Nat, k \in I PROVE k+1 \in I
    <3>. SUFFICES P(k+1)
      <4>. HIDE DEF P
      <4>. QED OBVIOUS
    <3>. DEFINE Claim == f[(k+1)+1] = q[1] \o g[k+1]
    <3>. HIDE DEF Claim
    <3>. SUFFICES ASSUME k+1 \in 1..(n-1) PROVE Claim
      BY DEF Claim
    <3>1. k+1 \in 1..(n-1)
      OBVIOUS
    <3>2. /\ (k+1)+1 \in 1..n /\ (k+1)+1 # 1 /\ ((k+1)+1)-1 = k+1
          /\ r[k+1] = q[(k+1)+1] /\ q[1] \in Seq(S) /\ r[k+1] \in Seq(S)
      BY <3>1, <1>1
    <3>3. f[(k+1)+1] = f[k+1] \o r[k+1]
      BY <3>2, <1>1, <1>3 DEF Steps
    <3>4. CASE k = 0
      <4>1. f[k+1] = q[1] /\ g[k+1] = r[k+1]
        BY <3>4, <1>1, <1>3, <2>1, <2>2 DEF Steps
      <4>. QED BY <3>3, <4>1 DEF Claim
    <3>5. CASE k # 0
      <4>1. k \in 1..(n-1) /\ k+1 # 1 /\ (k+1)-1 = k
        BY <3>1, <3>5, <1>1
      <4>2. g[k+1] = g[k] \o r[k+1]
        BY <4>1, <3>1, <2>1, <2>2 DEF Steps
      <4>3. f[k+1] = q[1] \o g[k] /\ g[k] \in Seq(S)
        BY <4>1, <2>3, <2>5
      <4>. HIDE DEF I
      <4>. HIDE DEF P
      <4>4. (q[1] \o g[k]) \o r[k+1] = q[1] \o (g[k] \o r[k+1])
        BY <3>2, <4>3, <1>2 DEF Regroups
      <4>. QED BY <3>3, <4>2, <4>3, <4>4 DEF Claim
    <3>. QED BY <3>4, <3>5
  <2>. HIDE DEF I
  <2>6. Nat \subseteq I
    BY <2>4, <2>5, NatSetInd
  <2>7. f[n] = q[1] \o g[n-1]
    <3>1. n-1 \in I
      BY <2>6, <2>1
    <3>2. n-1 \in 1..(n-1) /\ (n-1)+1 = n
      BY <2>1, <1>1
    <3>. QED BY <3>1, <3>2 DEF I
  <2>. QED BY <2>7, <2>2, <1>1, <1>3 DEF r
<1>. QED BY <1>4, <1>5

-----------------------------------------------------------------------------
(* ToSet and IsInjective: what a sequence lists, and that it lists it once.*)

\* The empty sequence lists nothing, and nothing twice.
LEMMA NothingListed == ToSet(<< >>) = {} /\ IsInjective(<< >>)
BY DEF ToSet, IsInjective

\* A sequence over S lists elements of S.
LEMMA ListedType ==
  ASSUME NEW S, NEW s \in Seq(S)
  PROVE  ToSet(s) \subseteq S
BY DEF ToSet

\* A concatenation lists what its two parts list,
LEMMA ListedConcat ==
  ASSUME NEW S, NEW s \in Seq(S), NEW t \in Seq(S)
  PROVE  ToSet(s \o t) = ToSet(s) \cup ToSet(t)
<1>1. /\ s \o t \in Seq(S) /\ Len(s \o t) = Len(s) + Len(t) /\ Len(s) \in Nat /\ Len(t) \in Nat
      /\ \A i \in 1 .. Len(s) + Len(t) :
            (s \o t)[i] = IF i <= Len(s) THEN s[i] ELSE t[i - Len(s)]
  BY ConcatProperties
<1>2. DOMAIN s = 1..Len(s) /\ DOMAIN t = 1..Len(t) /\ DOMAIN (s \o t) = 1..(Len(s) + Len(t))
  BY <1>1
<1>3. ASSUME NEW x \in ToSet(s) PROVE x \in ToSet(s \o t)
  BY <1>1, <1>2 DEF ToSet
<1>4. ASSUME NEW x \in ToSet(t) PROVE x \in ToSet(s \o t)
  <2>1. PICK i \in 1..Len(t) : x = t[i]
    BY <1>2 DEF ToSet
  <2>2. i + Len(s) \in 1..(Len(s) + Len(t)) /\ ~(i + Len(s) <= Len(s)) /\ (i + Len(s)) - Len(s) = i
    BY <1>1
  <2>3. (s \o t)[i + Len(s)] = x
    BY <1>1, <2>1, <2>2
  <2>. QED BY <1>2, <2>2, <2>3 DEF ToSet
<1>5. ASSUME NEW x \in ToSet(s \o t) PROVE x \in ToSet(s) \cup ToSet(t)
  <2>1. PICK i \in 1..(Len(s) + Len(t)) : x = (s \o t)[i]
    BY <1>2 DEF ToSet
  <2>2. CASE i <= Len(s)
    <3>1. x = s[i] /\ i \in 1..Len(s)
      BY <1>1, <2>1, <2>2
    <3>. QED BY <3>1, <1>2 DEF ToSet
  <2>3. CASE ~(i <= Len(s))
    <3>1. x = t[i - Len(s)] /\ i - Len(s) \in 1..Len(t)
      BY <1>1, <2>1, <2>3
    <3>. QED BY <3>1, <1>2 DEF ToSet
  <2>. QED BY <2>2, <2>3
<1>. QED BY <1>3, <1>4, <1>5

\* ... and nothing twice if neither part does and they have nothing in common.
LEMMA InjectiveConcat ==
  ASSUME NEW S, NEW s \in Seq(S), NEW t \in Seq(S)
  PROVE  IsInjective(s \o t) <=>
           IsInjective(s) /\ IsInjective(t) /\ ToSet(s) \cap ToSet(t) = {}
<1>1. /\ Len(s) \in Nat /\ Len(t) \in Nat
      /\ \A i \in 1 .. Len(s) + Len(t) :
            (s \o t)[i] = IF i <= Len(s) THEN s[i] ELSE t[i - Len(s)]
  BY ConcatProperties
<1>2. DOMAIN s = 1..Len(s) /\ DOMAIN t = 1..Len(t) /\ DOMAIN (s \o t) = 1..(Len(s) + Len(t))
  BY ConcatProperties
<1>. DEFINE n == Len(s)
            c == s \o t
<1>3. \A i \in 1..n : i \in 1..(n + Len(t)) /\ c[i] = s[i]
  BY <1>1
<1>4. \A i \in 1..Len(t) : i + n \in 1..(n + Len(t)) /\ c[i + n] = t[i]
  <2>. SUFFICES ASSUME NEW i \in 1..Len(t) PROVE i + n \in 1..(n + Len(t)) /\ c[i + n] = t[i]
    OBVIOUS
  <2>1. i + n \in 1..(n + Len(t)) /\ ~(i + n <= n) /\ (i + n) - n = i
    BY <1>1
  <2>. QED BY <1>1, <2>1
<1>5. \A i \in 1..(n + Len(t)) : i \in 1..n \/ \E j \in 1..Len(t) : i = j + n
  <2>. SUFFICES ASSUME NEW i \in 1..(n + Len(t)), i \notin 1..n PROVE \E j \in 1..Len(t) : i = j + n
    OBVIOUS
  <2>1. i - n \in 1..Len(t) /\ i = (i - n) + n
    BY <1>1
  <2>. QED BY <2>1
<1>. HIDE DEF n, c
<1>6. ASSUME IsInjective(c) PROVE IsInjective(s)
  <2>. SUFFICES ASSUME NEW i \in 1..n, NEW j \in 1..n, s[i] = s[j] PROVE i = j
    BY <1>2 DEF IsInjective, n
  <2>1. c[i] = c[j] /\ i \in DOMAIN c /\ j \in DOMAIN c
    BY <1>2, <1>3 DEF n, c
  <2>. QED BY <1>6, <2>1 DEF IsInjective
<1>7. ASSUME IsInjective(c) PROVE IsInjective(t)
  <2>. SUFFICES ASSUME NEW i \in 1..Len(t), NEW j \in 1..Len(t), t[i] = t[j] PROVE i = j
    BY <1>2 DEF IsInjective
  <2>1. c[i + n] = c[j + n] /\ i + n \in DOMAIN c /\ j + n \in DOMAIN c
    BY <1>2, <1>4 DEF n, c
  <2>2. i + n = j + n
    BY <1>7, <2>1 DEF IsInjective
  <2>. QED BY <2>2, <1>1 DEF n
<1>8. ASSUME IsInjective(c), NEW x, x \in ToSet(s), x \in ToSet(t) PROVE FALSE
  <2>1. PICK i \in 1..n : x = s[i]
    BY <1>2, <1>8 DEF ToSet, n
  <2>2. PICK j \in 1..Len(t) : x = t[j]
    BY <1>2, <1>8 DEF ToSet
  <2>3. c[i] = c[j + n] /\ i \in DOMAIN c /\ j + n \in DOMAIN c
    BY <1>2, <1>3, <1>4, <2>1, <2>2 DEF n, c
  <2>4. i = j + n
    BY <1>8, <2>3 DEF IsInjective
  <2>. QED BY <2>4, <1>1 DEF n
<1>9. ASSUME IsInjective(s), IsInjective(t), ToSet(s) \cap ToSet(t) = {} PROVE IsInjective(c)
  <2>. SUFFICES ASSUME NEW a \in 1..(n + Len(t)), NEW b \in 1..(n + Len(t)), c[a] = c[b] PROVE a = b
    BY <1>2 DEF IsInjective, n, c
  <2>1. \A i \in 1..n : s[i] \in ToSet(s)
    BY <1>2 DEF ToSet, n
  <2>2. \A j \in 1..Len(t) : t[j] \in ToSet(t)
    BY <1>2 DEF ToSet
  <2>3. CASE a \in 1..n /\ b \in 1..n
    <3>1. s[a] = s[b]
      BY <2>3, <1>3
    <3>. QED BY <3>1, <2>3, <1>9, <1>2 DEF IsInjective, n
  <2>4. ASSUME NEW i \in 1..Len(t), a = i + n, NEW j \in 1..Len(t), b = j + n PROVE a = b
    <3>1. t[i] = t[j]
      BY <2>4, <1>4
    <3>2. i = j
      BY <3>1, <1>9, <1>2 DEF IsInjective
    <3>. QED BY <3>2, <2>4
  <2>5. ASSUME NEW j \in 1..Len(t), b = j + n, a \in 1..n PROVE FALSE
    <3>1. s[a] = t[j]
      BY <2>5, <1>3, <1>4
    <3>. QED BY <3>1, <2>1, <2>2, <2>5, <1>9
  <2>6. ASSUME NEW j \in 1..Len(t), a = j + n, b \in 1..n PROVE FALSE
    <3>1. s[b] = t[j]
      BY <2>6, <1>3, <1>4
    <3>. QED BY <3>1, <2>1, <2>2, <2>6, <1>9
  <2>. QED BY <2>3, <2>4, <2>5, <2>6, <1>5
<1>. QED BY <1>6, <1>7, <1>8, <1>9 DEF c

\* A sequence of one element lists that one.
LEMMA OneListed ==
  ASSUME NEW e
  PROVE  <<e>> \in Seq({e}) /\ ToSet(<<e>>) = {e} /\ IsInjective(<<e>>)
BY DEF ToSet, IsInjective

\* What appending an element adds to the list.
LEMMA ListedAppend ==
  ASSUME NEW S, NEW s \in Seq(S), NEW e \in S
  PROVE  /\ Append(s, e) \in Seq(S)
         /\ ToSet(Append(s, e)) = ToSet(s) \cup {e}
         /\ IsInjective(s) /\ e \notin ToSet(s) => IsInjective(Append(s, e))
<1>1. Append(s, e) = s \o <<e>> /\ <<e>> \in Seq(S)
  BY AppendIsConcat
<1>2. ToSet(s \o <<e>>) = ToSet(s) \cup ToSet(<<e>>)
  BY <1>1, ListedConcat
<1>3. IsInjective(s \o <<e>>) <=>
        IsInjective(s) /\ IsInjective(<<e>>) /\ ToSet(s) \cap ToSet(<<e>>) = {}
  BY <1>1, InjectiveConcat
<1>. QED BY <1>1, <1>2, <1>3, OneListed

\* A list is its head and its tail, and has its head only once if nothing is twice in it.
LEMMA ListedHead ==
  ASSUME NEW S, NEW s \in Seq(S), s # << >>
  PROVE  /\ Head(s) \in S /\ Tail(s) \in Seq(S)
         /\ ToSet(s) = ToSet(Tail(s)) \cup {Head(s)}
         /\ IsInjective(s) => IsInjective(Tail(s)) /\ Head(s) \notin ToSet(Tail(s))
<1>1. /\ Head(s) \in S /\ Tail(s) \in Seq(S) /\ <<Head(s)>> \in Seq(S)
      /\ s = <<Head(s)>> \o Tail(s)
  OBVIOUS
<1>. DEFINE h == Head(s)
            r == Tail(s)
<1>. HIDE DEF h, r
<1>2. ToSet(<<h>> \o r) = ToSet(<<h>>) \cup ToSet(r)
  BY <1>1, ListedConcat DEF h, r
<1>3. IsInjective(<<h>> \o r) <=>
        IsInjective(<<h>>) /\ IsInjective(r) /\ ToSet(<<h>>) \cap ToSet(r) = {}
  BY <1>1, InjectiveConcat DEF h, r
<1>4. ToSet(<<h>>) = {h}
  BY OneListed
<1>5. s = <<h>> \o r
  BY <1>1 DEF h, r
<1>. QED BY <1>1, <1>2, <1>3, <1>4, <1>5 DEF h, r

=============================================================================
