---------------------------- MODULE DataTheorems ----------------------------
(***************************************************************************)
(* Facts about data that the proofs share: the ranges of sequences;        *)
(* induction over the naturals, by a set rather than a predicate; that a   *)
(* function on 0..n can be defined by recursion; and that a fold over a    *)
(* sequence is the last of a chain of values, one for each element. A step *)
(* of a recursion is a function, of an index and the value so far.         *)
(***************************************************************************)
EXTENDS Integers, Sequences, SequencesExt, FiniteSets, FiniteSetTheorems, SequenceTheorems,
        WellFoundedInduction, TLAPS

-----------------------------------------------------------------------------
(* Sequences, by their ranges.                                             *)

LEMMA RangeEmpty == Range(<<>>) = {}
BY DEF Range

LEMMA RangeAppend ==
    ASSUME NEW S, NEW s \in Seq(S), NEW e
    PROVE  Range(Append(s, e)) = Range(s) \union {e}
<1>1. DOMAIN Append(s, e) = DOMAIN s \union {Len(s) + 1} /\ DOMAIN s = 1..Len(s) /\ Len(s) \in Nat
  OBVIOUS
<1>2. \A i \in DOMAIN s : Append(s, e)[i] = s[i]
  OBVIOUS
<1>3. Append(s, e)[Len(s) + 1] = e
  OBVIOUS
<1> QED  BY <1>1, <1>2, <1>3 DEF Range

LEMMA RangeConcat ==
    ASSUME NEW S, NEW s \in Seq(S), NEW t \in Seq(S)
    PROVE  Range(s \o t) = Range(s) \union Range(t)
<1>1. /\ s \o t \in Seq(S) /\ Len(s \o t) = Len(s) + Len(t)
      /\ Len(s) \in Nat /\ Len(t) \in Nat
      /\ DOMAIN s = 1..Len(s) /\ DOMAIN t = 1..Len(t) /\ DOMAIN (s \o t) = 1..(Len(s) + Len(t))
      /\ \A i \in 1..(Len(s) + Len(t)) : (s \o t)[i] = IF i <= Len(s) THEN s[i] ELSE t[i - Len(s)]
  OBVIOUS
<1>2. \A x \in Range(s) : x \in Range(s \o t)
  BY <1>1 DEF Range
<1>3. ASSUME NEW x \in Range(t) PROVE x \in Range(s \o t)
  <2>1. PICK i \in 1..Len(t) : x = t[i]
    BY <1>1, <1>3 DEF Range
  <2>2. Len(s) + i \in 1..(Len(s) + Len(t)) /\ (s \o t)[Len(s) + i] = t[i]
    BY <1>1, <2>1
  <2> QED  BY <1>1, <2>1, <2>2 DEF Range
<1>4. ASSUME NEW x \in Range(s \o t) PROVE x \in Range(s) \union Range(t)
  <2>1. PICK i \in 1..(Len(s) + Len(t)) : x = (s \o t)[i]
    BY <1>1, <1>4 DEF Range
  <2>2. CASE i <= Len(s)
    BY <1>1, <2>1, <2>2 DEF Range
  <2>3. CASE i > Len(s)
    <3>1. i - Len(s) \in 1..Len(t)
      BY <1>1, <2>3
    <3> QED  BY <1>1, <2>1, <2>3, <3>1 DEF Range
  <2> QED  BY <1>1, <2>2, <2>3
<1> QED  BY <1>2, <1>3, <1>4

\* What it is for one sequence to begin another.
LEMMA PrefixIs ==
    ASSUME NEW W, NEW s \in Seq(W), NEW t \in Seq(W)
    PROVE  IsPrefix(s, t) <=> Len(s) <= Len(t) /\ \A i \in 1..Len(s) : s[i] = t[i]
<1>1. Len(s) \in Nat /\ Len(t) \in Nat
  OBVIOUS
<1>2. CASE Len(s) <= Len(t)
  <2> DEFINE a == SubSeq(s, 1, Len(s))
             b == SubSeq(t, 1, Len(s))
  <2>1. /\ a \in Seq(W) /\ Len(a) = Len(s) /\ \A i \in 1..Len(s) : a[i] = s[i]
        /\ b \in Seq(W) /\ Len(b) = Len(s) /\ \A i \in 1..Len(s) : b[i] = t[i]
    BY <1>1, <1>2
  <2>2. IsPrefix(s, t) <=> a = b
    BY <1>2 DEF IsPrefix
  <2> HIDE DEF a, b
  <2>3. a = b <=> \A i \in 1..Len(s) : a[i] = b[i]
    BY <1>1, <2>1
  <2> QED  BY <1>2, <2>1, <2>2, <2>3
<1> QED  BY <1>1, <1>2 DEF IsPrefix

LEMMA RangeTail ==
    ASSUME NEW S, NEW s \in Seq(S), s # <<>>
    PROVE  /\ Head(s) \in S /\ Tail(s) \in Seq(S)
           /\ Head(s) \in Range(s) /\ Range(Tail(s)) \subseteq Range(s)
           /\ Range(s) = {Head(s)} \union Range(Tail(s))
<1>1. /\ Len(s) \in Nat \ {0} /\ DOMAIN s = 1..Len(s)
      /\ Tail(s) \in Seq(S) /\ Len(Tail(s)) = Len(s) - 1 /\ DOMAIN Tail(s) = 1..(Len(s) - 1)
      /\ \A i \in 1..(Len(s) - 1) : Tail(s)[i] = s[i + 1]
      /\ Head(s) = s[1] /\ Head(s) \in S
  BY HeadTailProperties
<1>2. ASSUME NEW x \in Range(Tail(s)) PROVE x \in Range(s)
  <2>1. PICK i \in 1..(Len(s) - 1) : x = Tail(s)[i]
    BY <1>1, <1>2 DEF Range
  <2> QED  BY <1>1, <2>1 DEF Range
<1>3. ASSUME NEW x \in Range(s), x # Head(s) PROVE x \in Range(Tail(s))
  <2>1. PICK i \in 1..Len(s) : x = s[i]
    BY <1>1, <1>3 DEF Range
  <2>2. i - 1 \in 1..(Len(s) - 1) /\ Tail(s)[i - 1] = s[i]
    BY <1>1, <1>3, <2>1
  <2> QED  BY <1>1, <2>1, <2>2 DEF Range
<1>4. Head(s) \in Range(s)
  BY <1>1 DEF Range
<1> QED  BY <1>1, <1>2, <1>3, <1>4

LEMMA RangeType ==
    ASSUME NEW S, NEW s \in Seq(S)
    PROVE  Range(s) \subseteq S
BY DEF Range

\* A finite set can be put into a sequence.
LEMMA SetToSeqIs ==
    ASSUME NEW S, IsFiniteSet(S)
    PROVE  SetToSeq(S) \in Seq(S) /\ Range(SetToSeq(S)) = S /\ IsInjective(SetToSeq(S))
<1> DEFINE n == Cardinality(S)
           f == SetToSeq(S)
<1>1. n \in Nat /\ ExistsBijection(1..n, S)
  BY FS_CardinalityType
<1>2. \E g \in [1..n -> S] : IsInjective(g)
  BY <1>1 DEF ExistsBijection, Bijection, Injection
<1>3. f \in [1..n -> S] /\ IsInjective(f)
  BY <1>2 DEF SetToSeq
<1>4. f \in Injection(1..n, S)
  BY <1>3 DEF Injection
<1>5. IsFiniteSet(1..n) /\ Cardinality(1..n) = n
  BY <1>1, FS_Interval
<1>6. f \in Surjection(1..n, S)
  BY <1>4, <1>5, FS_Injection
<1>7. Range(f) = S
  BY <1>3, <1>6 DEF Surjection, Range
<1>8. f \in Seq(S)
  BY <1>1, <1>3, SeqDef
<1> QED  BY <1>3, <1>7, <1>8

LEMMA FiniteRange ==
    ASSUME NEW S, NEW s \in Seq(S)
    PROVE  IsFiniteSet(Range(s))
<1>1. IsFiniteSet(1..Len(s)) /\ DOMAIN s = 1..Len(s)
  BY FS_Interval
<1>2. s \in Surjection(1..Len(s), Range(s))
  BY <1>1 DEF Surjection, Range
<1> QED  BY <1>1, <1>2, FS_Surjection

-----------------------------------------------------------------------------
(* Induction and recursion over the naturals, of sets and functions.       *)

LEMMA NatInductionOverSet ==
    ASSUME NEW S, 0 \in S, \A n \in Nat : n \in S => n + 1 \in S
    PROVE  Nat \subseteq S
<1> SUFFICES ASSUME Nat \ S # {} PROVE FALSE
  OBVIOUS
<1> DEFINE R == OpToRel(<, Nat)
<1>1. \E x \in Nat \ S : \A y \in Nat \ S : ~(<<y, x>> \in R)
  <2> HIDE DEF R
  <2>1. IsWellFoundedOn(R, Nat) /\ Nat \ S \subseteq Nat
    BY NatLessThanWellFounded DEF R
  <2> QED  BY <2>1, WFMin
<1>2. PICK n \in Nat \ S : \A y \in Nat \ S : ~(<<y, n>> \in R)
  BY <1>1
<1>3. \A m \in Nat \ S : ~(m < n)
  BY <1>2 DEF OpToRel
<1> HIDE DEF R
<1>4. n - 1 \in Nat /\ n - 1 \in S
  BY <1>3
<1> QED  BY <1>4

\* A function on 0..n may be defined from its value one before.
Steps(V) == [Nat \X V -> V]
Unfolds(f, base, step, V, n) ==
    /\ f \in [0..n -> V]
    /\ f[0] = base
    /\ \A i \in 1..n : f[i] = step[<<i, f[i - 1]>>]

LEMMA RecursionExists ==
    ASSUME NEW V, NEW base \in V, NEW step \in Steps(V), NEW n \in Nat
    PROVE  \E f : Unfolds(f, base, step, V, n)
<1> DEFINE Is(f, k) == f[0] = base /\ \A i \in 1..k : f[i] = step[<<i, f[i - 1]>>]
           S == {k \in Nat : \E f \in [0..k -> V] : Is(f, k)}
<1>1. 0 \in S
  <2> DEFINE g == [i \in 0..0 |-> base]
  <2>1. g \in [0..0 -> V] /\ Is(g, 0)
    OBVIOUS
  <2> QED  BY <2>1
<1>2. ASSUME NEW k \in Nat, k \in S
      PROVE  k + 1 \in S
  <2>1. PICK f \in [0..k -> V] : Is(f, k)
    BY <1>2
  <2> DEFINE g == [i \in 0..k + 1 |-> IF i <= k THEN f[i] ELSE step[<<k + 1, f[k]>>]]
  <2>2. g \in [0..k + 1 -> V]
    BY DEF Steps
  <2>3. \A i \in 0..k + 1 : g[i] = IF i <= k THEN f[i] ELSE step[<<k + 1, f[k]>>]
    OBVIOUS
  <2> HIDE DEF g
  <2>4. \A i \in 1..k : g[i] = f[i] /\ g[i - 1] = f[i - 1]
    BY <2>3
  <2>5. g[k + 1] = step[<<k + 1, g[k]>>] /\ g[0] = f[0]
    BY <2>3
  <2>6. ASSUME NEW i \in 1..k + 1
        PROVE  g[i] = step[<<i, g[i - 1]>>]
    <3>1. CASE i \in 1..k
      BY <2>1, <2>4, <3>1
    <3>2. CASE i = k + 1
      <4>1. i - 1 = k
        BY <3>2
      <4> QED  BY <2>5, <3>2, <4>1
    <3> QED  BY <3>1, <3>2
  <2>7. Is(g, k + 1)
    BY <2>1, <2>5, <2>6
  <2> QED  BY <2>2, <2>7
<1> HIDE DEF S
<1>3. Nat \subseteq S
  BY <1>1, <1>2, NatInductionOverSet
<1> QED  BY <1>3 DEF S, Unfolds

-----------------------------------------------------------------------------
(* Folds. FoldLeft goes down from the largest index, over the subsets of   *)
(* 1..n, and only the intervals among them matter.                         *)

LEMMA MaxIs ==
    ASSUME NEW n \in Nat, NEW s \in SUBSET (1..n), s # {}
    PROVE  Max(s) \in s /\ \A i \in s : i <= Max(s)
<1> DEFINE T == {k \in Nat : \A r \in SUBSET (1..k) : r # {} => \E m \in r : \A i \in r : m >= i}
<1>1. 0 \in T
  <2>1. \A r \in SUBSET (1..0) : r = {}
    OBVIOUS
  <2> QED  BY <2>1
<1>2. ASSUME NEW k \in Nat, k \in T PROVE k + 1 \in T
  <2> SUFFICES ASSUME NEW r \in SUBSET (1..(k + 1)), r # {} PROVE \E m \in r : \A i \in r : m >= i
    OBVIOUS
  <2>1. CASE k + 1 \in r
    BY <2>1
  <2>2. CASE k + 1 \notin r
    <3>1. r \in SUBSET (1..k)
      BY <2>2
    <3> QED  BY <1>2, <3>1
  <2> QED  BY <2>1, <2>2
<1> HIDE DEF T
<1>3. n \in T
  BY <1>1, <1>2, NatInductionOverSet
<1>4. \E m \in s : \A i \in s : m >= i
  BY <1>3 DEF T
<1> QED  BY <1>4 DEF Max

LEMMA MinIs ==
    ASSUME NEW n \in Nat, NEW s \in SUBSET (1..n), s # {}
    PROVE  Min(s) \in s /\ \A i \in s : Min(s) <= i
<1> DEFINE r == {n + 1 - i : i \in s}
<1>1. r \in SUBSET (1..n) /\ r # {}
  <2>1. \A i \in s : n + 1 - i \in 1..n
    OBVIOUS
  <2> QED  BY <2>1
<1>2. PICK m \in r : \A i \in r : i <= m
  BY <1>1, MaxIs
<1>3. PICK k \in s : m = n + 1 - k
  OBVIOUS
<1>4. n + 1 - m = k /\ k \in 1..n
  BY <1>3
<1>5. ASSUME NEW i \in s PROVE k <= i
  <2>1. n + 1 - i \in r /\ i \in 1..n
    OBVIOUS
  <2>2. n + 1 - i <= m
    BY <1>2, <2>1
  <2> QED  BY <1>3, <1>4, <2>1, <2>2
<1> QED  BY <1>5 DEF Min

LEMMA MaxOfInterval ==
    ASSUME NEW k \in Nat
    PROVE  Max(1..(k + 1)) = k + 1 /\ (1..(k + 1)) \ {k + 1} = 1..k
<1>1. 1..(k + 1) \in SUBSET (1..(k + 1)) /\ 1..(k + 1) # {} /\ k + 1 \in Nat
  OBVIOUS
<1>2. Max(1..(k + 1)) \in 1..(k + 1) /\ \A i \in 1..(k + 1) : i <= Max(1..(k + 1))
  BY <1>1, MaxIs
<1> QED  BY <1>2

\* The function MapThenFoldSet chooses, and what its values on 1..k are.
FoldValue(f, base, step, s) == IF s = {} THEN base ELSE step[<<Max(s), f[s \ {Max(s)}]>>]
FoldsDown(f, base, step, n) == f = [s \in SUBSET (1..n) |-> FoldValue(f, base, step, s)]
IsFold(f, base, step, V, k) ==
    f \in [SUBSET (1..k) -> V] /\ \A s \in SUBSET (1..k) : f[s] = FoldValue(f, base, step, s)

LEMMA FoldExtends ==
    ASSUME NEW V, NEW base \in V, NEW n \in Nat, NEW step \in [(1..n) \X V -> V],
           NEW k \in Nat, k + 1 <= n, NEW f, IsFold(f, base, step, V, k)
    PROVE  \E g : IsFold(g, base, step, V, k + 1)
<1> DEFINE g == [s \in SUBSET (1..(k + 1)) |->
                  IF k + 1 \in s THEN step[<<k + 1, f[s \ {k + 1}]>>] ELSE f[s]]
<1>1. f \in [SUBSET (1..k) -> V] /\ \A s \in SUBSET (1..k) : f[s] = FoldValue(f, base, step, s)
  BY DEF IsFold
<1>2. ASSUME NEW s \in SUBSET (1..(k + 1)), k + 1 \notin s
      PROVE  s \in SUBSET (1..k)
  BY <1>2
<1>3. ASSUME NEW s \in SUBSET (1..(k + 1)), k + 1 \in s
      PROVE  s # {} /\ Max(s) = k + 1 /\ s \ {k + 1} \in SUBSET (1..k)
  <2>1. k + 1 \in Nat /\ s # {}
    BY <1>3
  <2>2. Max(s) \in s /\ \A i \in s : i <= Max(s)
    BY <2>1, MaxIs
  <2>3. \A i \in s : i \in Nat /\ i <= k + 1
    OBVIOUS
  <2>4. Max(s) = k + 1
    <3> DEFINE m == Max(s)
    <3>1. m \in Nat /\ m <= k + 1 /\ k + 1 <= m
      BY <1>3, <2>2, <2>3
    <3> HIDE DEF m
    <3>2. m = k + 1
      BY <3>1
    <3> QED  BY <3>2 DEF m
  <2>5. s \ {k + 1} \in SUBSET (1..k)
    OBVIOUS
  <2> QED  BY <2>1, <2>4, <2>5
<1>4. ASSUME NEW s \in SUBSET (1..(k + 1)) PROVE g[s] \in V
  <2>1. CASE k + 1 \in s
    <3>1. f[s \ {k + 1}] \in V /\ k + 1 \in 1..n
      BY <1>1, <1>3, <2>1
    <3> QED  BY <2>1, <3>1
  <2>2. CASE k + 1 \notin s
    BY <1>1, <1>2, <2>2
  <2> QED  BY <2>1, <2>2
<1>5. g \in [SUBSET (1..(k + 1)) -> V]
  BY <1>4
<1>6. \A s \in SUBSET (1..(k + 1)) : g[s] = IF k + 1 \in s THEN step[<<k + 1, f[s \ {k + 1}]>>] ELSE f[s]
  OBVIOUS
<1> HIDE DEF g
<1>7. ASSUME NEW s \in SUBSET (1..k) PROVE g[s] = f[s]
  <2>1. s \in SUBSET (1..(k + 1)) /\ k + 1 \notin s
    OBVIOUS
  <2> QED  BY <1>6, <2>1
<1>8. ASSUME NEW s \in SUBSET (1..(k + 1)) PROVE g[s] = FoldValue(g, base, step, s)
  <2>1. CASE k + 1 \in s
    BY <1>3, <1>6, <1>7, <2>1 DEF FoldValue
  <2>2. CASE k + 1 \notin s
    <3>1. s \in SUBSET (1..k) /\ g[s] = f[s] /\ f[s] = FoldValue(f, base, step, s)
      BY <1>1, <1>2, <1>7, <2>2
    <3>2. s \ {Max(s)} \in SUBSET (1..k)
      BY <3>1
    <3> QED  BY <1>7, <3>1, <3>2 DEF FoldValue
  <2> QED  BY <2>1, <2>2
<1> QED  BY <1>5, <1>8 DEF IsFold

LEMMA FoldExists ==
    ASSUME NEW V, NEW base \in V, NEW n \in Nat, NEW step \in [(1..n) \X V -> V]
    PROVE  \E f \in [SUBSET (1..n) -> V] : FoldsDown(f, base, step, n)
<1> DEFINE T == {k \in Nat : k <= n => \E f : IsFold(f, base, step, V, k)}
<1>1. 0 \in T
  <2> DEFINE g == [s \in SUBSET (1..0) |-> base]
  <2>1. g \in [SUBSET (1..0) -> V] /\ \A s \in SUBSET (1..0) : s = {} /\ g[s] = base
    OBVIOUS
  <2>2. IsFold(g, base, step, V, 0)
    BY <2>1 DEF IsFold, FoldValue
  <2> QED  BY <2>2
<1>2. ASSUME NEW k \in Nat, k \in T PROVE k + 1 \in T
  <2> SUFFICES ASSUME k + 1 <= n PROVE \E g : IsFold(g, base, step, V, k + 1)
    OBVIOUS
  <2>1. PICK f : IsFold(f, base, step, V, k)
    BY <1>2
  <2> QED  BY <2>1, FoldExtends
<1>3. n \in T
  <2> HIDE DEF T
  <2> QED  BY <1>1, <1>2, NatInductionOverSet
<1>4. PICK f : IsFold(f, base, step, V, n)
  BY <1>3
<1>5. f = [s \in SUBSET (1..n) |-> FoldValue(f, base, step, s)]
  BY <1>4 DEF IsFold
<1>6. f \in [SUBSET (1..n) -> V]
  BY <1>4 DEF IsFold
<1> QED  BY <1>5, <1>6 DEF FoldsDown

\* f is such a fold as far as its values stay in V; they do on the intervals.
Folds(f, base, step, V, n) ==
    /\ f[{}] = base
    /\ \A s \in SUBSET (1..n) : s # {} /\ f[s \ {Max(s)}] \in V
           => f[s] = step[<<Max(s), f[s \ {Max(s)}]>>]

\* What it comes to is the last of the chain.
EndsChain(v, base, step, V, n) == \E g : Unfolds(g, base, step, V, n) /\ v = g[n]

LEMMA FoldIsChain ==
    ASSUME NEW V, NEW base \in V, NEW n \in Nat, NEW step \in [(1..n) \X V -> V],
           NEW f, Folds(f, base, step, V, n)
    PROVE  EndsChain(f[1..n], base, step, V, n)
<1> DEFINE g == [k \in 0..n |-> f[1..k]]
           T == {k \in Nat : k <= n => g[k] \in V}
<1>1. g[0] = base
  <2>1. 1..0 = {} /\ 0 \in 0..n
    OBVIOUS
  <2> QED  BY <2>1 DEF Folds
<1>2. ASSUME NEW k \in Nat, k + 1 <= n, g[k] \in V
      PROVE  g[k + 1] = step[<<k + 1, g[k]>>]
  <2>1. 1..(k + 1) \in SUBSET (1..n) /\ k \in 0..n /\ k + 1 \in 0..n
    BY <1>2
  <2>2. k + 1 \in 1..(k + 1)
    OBVIOUS
  <2>3. f[1..k] \in V /\ g[k] = f[1..k] /\ g[k + 1] = f[1..(k + 1)]
    BY <1>2, <2>1
  <2>4. f[1..(k + 1)] = step[<<k + 1, f[1..k]>>]
    BY <2>1, <2>2, <2>3, MaxOfInterval DEF Folds
  <2> QED  BY <2>3, <2>4
<1>3. g[n] = f[1..n] /\ ((\A k \in 0..n : g[k] \in V) => g \in [0..n -> V])
  OBVIOUS
<1> HIDE DEF g
<1>4. 0 \in T
  BY <1>1
<1>5. ASSUME NEW k \in Nat, k \in T PROVE k + 1 \in T
  <2> SUFFICES ASSUME k + 1 <= n PROVE g[k + 1] \in V
    OBVIOUS
  <2>1. g[k] \in V /\ k + 1 \in 1..n
    BY <1>5
  <2> QED  BY <1>2, <2>1
<1> HIDE DEF T
<1>6. Nat \subseteq T
  BY <1>4, <1>5, NatInductionOverSet
<1>7. \A k \in 0..n : g[k] \in V
  BY <1>6 DEF T
<1>8. \A i \in 1..n : g[i] = step[<<i, g[i - 1]>>]
  <2> SUFFICES ASSUME NEW i \in 1..n PROVE g[i] = step[<<i, g[i - 1]>>]
    OBVIOUS
  <2>1. i - 1 \in Nat /\ (i - 1) + 1 = i /\ i <= n /\ g[i - 1] \in V
    BY <1>7
  <2> QED  BY <1>2, <2>1
<1>9. Unfolds(g, base, step, V, n)
  BY <1>1, <1>3, <1>7, <1>8 DEF Unfolds
<1> QED  BY <1>3, <1>9 DEF EndsChain
=============================================================================
