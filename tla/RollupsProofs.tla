---------------------------- MODULE RollupsProofs ----------------------------
(***************************************************************************)
(* What enumeration and the rollups make of any API, any objects, any      *)
(* documents and sources that cannot be read, and any changes meanwhile:   *)
(* each type once, from the group it should be taken from, and no rollup   *)
(* that leaves out what was there or counts what never was.                *)
(***************************************************************************)
EXTENDS Rollups, DataTheorems

-----------------------------------------------------------------------------
(* The folds: of resources_from_list, of _dedupe_by_type and of the types  *)
(* of a pack.                                                              *)

\* One entry of a document.
Found(g, found, k) == IF k.listable THEN Append(found, Resource(g, k)) ELSE found

LEMMA ServedType ==
    ASSUME NEW g, g.kinds \in Seq(Range(g.kinds))
    PROVE  /\ Served(g) \in Seq(Range(Served(g)))
           /\ \A r \in Range(Served(g)) : r.group = g.name /\ \E k \in Range(g.kinds) : r = Resource(g, k)
<1> DEFINE ks == g.kinds
           n == Len(ks)
           W == {Resource(g, k) : k \in Range(ks)}
           V == Seq(W)
           step == [p \in (1..n) \X V |-> Found(g, p[2], ks[p[1]])]
<1>1. ks \in Seq(Range(ks)) /\ n \in Nat /\ DOMAIN ks = 1..n
  BY LenProperties
<1>2. \A i \in 1..n : ks[i] \in Range(ks)
  BY <1>1 DEF Range
<1>3. <<>> \in V /\ step \in [(1..n) \X V -> V]
  <2>1. \A i \in 1..n : Resource(g, ks[i]) \in W
    BY <1>2
  <2>2. \A i \in 1..n, v \in V : Found(g, v, ks[i]) \in V
    BY <2>1 DEF Found
  <2>3. <<>> \in V
    OBVIOUS
  <2> HIDE DEF V
  <2>4. \A p \in (1..n) \X V : Found(g, p[2], ks[p[1]]) \in V
    BY <2>2
  <2> QED  BY <2>3, <2>4
<1>4. PICK f0 \in [SUBSET (1..n) -> V] : FoldsDown(f0, <<>>, step, n)
  <2> HIDE DEF V, step, n
  <2> QED  BY <1>1, <1>3, FoldExists
<1>5. f0 = [s \in SUBSET DOMAIN ks |-> IF s = {} THEN <<>> ELSE Found(g, f0[s \ {Max(s)}], ks[Max(s)])]
  <2>1. f0 = [s \in SUBSET (1..n) |-> FoldValue(f0, <<>>, step, s)]
    BY <1>4 DEF FoldsDown
  <2>2. ASSUME NEW s \in SUBSET (1..n)
        PROVE  FoldValue(f0, <<>>, step, s) = IF s = {} THEN <<>> ELSE Found(g, f0[s \ {Max(s)}], ks[Max(s)])
    <3>1. CASE s # {}
      <4>1. Max(s) \in 1..n /\ f0[s \ {Max(s)}] \in V
        BY <1>1, <1>4, <3>1, MaxIs
      <4> QED  BY <3>1, <4>1 DEF FoldValue
    <3> QED  BY <3>1 DEF FoldValue
  <2> QED  BY <1>1, <2>1, <2>2
<1>6. PICK f : /\ f = [s \in SUBSET DOMAIN ks |-> IF s = {} THEN <<>> ELSE Found(g, f[s \ {Max(s)}], ks[Max(s)])]
               /\ Served(g) = f[DOMAIN ks]
  BY <1>5 DEF Served, FoldLeft, MapThenFoldSet, Found
<1>7. Folds(f, <<>>, step, V, n)
  <2>1. f[{}] = <<>>
    BY <1>6
  <2>2. ASSUME NEW s \in SUBSET (1..n), s # {}, f[s \ {Max(s)}] \in V
        PROVE  f[s] = step[<<Max(s), f[s \ {Max(s)}]>>]
    <3>1. Max(s) \in 1..n
      BY <1>1, <2>2, MaxIs
    <3>2. f[s] = Found(g, f[s \ {Max(s)}], ks[Max(s)])
      BY <1>1, <1>6, <2>2
    <3> QED  BY <2>2, <3>1, <3>2
  <2> QED  BY <2>1, <2>2 DEF Folds
<1>8. EndsChain(f[1..n], <<>>, step, V, n)
  <2> HIDE DEF V, step, n
  <2> QED  BY <1>1, <1>3, <1>7, FoldIsChain
<1>9. Served(g) \in V
  <2> HIDE DEF V, step, n
  <2> QED  BY <1>1, <1>6, <1>8 DEF EndsChain, Unfolds
<1>10. Range(Served(g)) \subseteq W
  BY <1>9, RangeType
<1> QED  BY <1>9, <1>10 DEF Resource, Range

\* One resource of those that were enumerated.
Keep(kept, r) ==
    LET at == SelectInSeq(kept, LAMBDA k : k.spec.type = r.spec.type)
    IN  IF at = 0 THEN Append(kept, r)
        ELSE IF Replaces(r, kept[at]) THEN [kept EXCEPT ![at] = r] ELSE kept

LEMMA SelectInIs ==
    ASSUME NEW W, NEW s \in Seq(W), NEW type
    PROVE  LET at == SelectInSeq(s, LAMBDA k : k.spec.type = type)
           IN  \/ at = 0 /\ \A i \in 1..Len(s) : s[i].spec.type # type
               \/ at \in 1..Len(s) /\ s[at].spec.type = type
<1> DEFINE I == {i \in 1..Len(s) : s[i].spec.type = type}
<1>1. SelectInSeq(s, LAMBDA k : k.spec.type = type) = IF I # {} THEN Min(I) ELSE 0
  BY DEF SelectInSeq
<1>2. CASE I = {}
  BY <1>1, <1>2
<1>3. CASE I # {}
  <2>1. Min(I) \in I
    BY <1>3, Len(s) \in Nat, MinIs
  <2> QED  BY <1>1, <1>3, <2>1
<1> QED  BY <1>2, <1>3

\* What becomes of one: it is the first of its type, or takes the place of
\* another, or that stays.
KeptFirst(kept, r) ==
    /\ \A i \in 1..Len(kept) : kept[i].spec.type # r.spec.type
    /\ Keep(kept, r) = Append(kept, r)
KeptAt(kept, r, at) ==
    /\ at \in 1..Len(kept) /\ kept[at].spec.type = r.spec.type
    /\ Keep(kept, r) = IF Replaces(r, kept[at]) THEN [kept EXCEPT ![at] = r] ELSE kept

LEMMA KeepIs ==
    ASSUME NEW W, NEW kept \in Seq(W), NEW r \in W
    PROVE  /\ KeptFirst(kept, r) \/ \E at \in 1..Len(kept) : KeptAt(kept, r, at)
           /\ Keep(kept, r) \in Seq(W)
<1> DEFINE at == SelectInSeq(kept, LAMBDA k : k.spec.type = r.spec.type)
<1>1. \/ at = 0 /\ \A i \in 1..Len(kept) : kept[i].spec.type # r.spec.type
      \/ at \in 1..Len(kept) /\ kept[at].spec.type = r.spec.type
  BY SelectInIs
<1>2. Keep(kept, r) = IF at = 0 THEN Append(kept, r)
                      ELSE IF Replaces(r, kept[at]) THEN [kept EXCEPT ![at] = r] ELSE kept
  BY DEF Keep
<1> HIDE DEF at
<1>3. CASE at = 0
  BY <1>1, <1>2, <1>3 DEF KeptFirst
<1>4. CASE at \in 1..Len(kept)
  <2>1. KeptAt(kept, r, at)
    BY <1>1, <1>2, <1>4 DEF KeptAt
  <2>2. [kept EXCEPT ![at] = r] \in Seq(W)
    BY <1>4
  <2> QED  BY <1>2, <1>4, <2>1, <2>2
<1> QED  BY <1>1, <1>3, <1>4

LEMMA DedupedIs ==
    ASSUME NEW W, NEW rs \in Seq(W)
    PROVE  \E g \in [0..Len(rs) -> Seq(W)] :
              /\ g[0] = <<>> /\ Deduped(rs) = g[Len(rs)]
              /\ \A i \in 1..Len(rs) : g[i] = Keep(g[i - 1], rs[i])
<1> DEFINE n == Len(rs)
           V == Seq(W)
           step == [p \in (1..n) \X V |-> Keep(p[2], rs[p[1]])]
<1>1. n \in Nat /\ DOMAIN rs = 1..n
  BY LenProperties
<1>2. \A i \in 1..n : rs[i] \in W
  OBVIOUS
<1>3. <<>> \in V /\ step \in [(1..n) \X V -> V]
  <2>1. \A i \in 1..n, v \in V : Keep(v, rs[i]) \in V
    BY <1>2, KeepIs
  <2>2. <<>> \in V
    OBVIOUS
  <2> HIDE DEF V
  <2>3. \A p \in (1..n) \X V : Keep(p[2], rs[p[1]]) \in V
    BY <2>1
  <2> QED  BY <2>2, <2>3
<1>4. PICK f0 \in [SUBSET (1..n) -> V] : FoldsDown(f0, <<>>, step, n)
  <2> HIDE DEF V, step, n
  <2> QED  BY <1>1, <1>3, FoldExists
<1>5. f0 = [s \in SUBSET DOMAIN rs |-> IF s = {} THEN <<>> ELSE Keep(f0[s \ {Max(s)}], rs[Max(s)])]
  <2>1. f0 = [s \in SUBSET (1..n) |-> FoldValue(f0, <<>>, step, s)]
    BY <1>4 DEF FoldsDown
  <2>2. ASSUME NEW s \in SUBSET (1..n)
        PROVE  FoldValue(f0, <<>>, step, s) = IF s = {} THEN <<>> ELSE Keep(f0[s \ {Max(s)}], rs[Max(s)])
    <3>1. CASE s # {}
      <4>1. Max(s) \in 1..n /\ f0[s \ {Max(s)}] \in V
        BY <1>1, <1>4, <3>1, MaxIs
      <4> QED  BY <3>1, <4>1 DEF FoldValue
    <3> QED  BY <3>1 DEF FoldValue
  <2> QED  BY <1>1, <2>1, <2>2
<1>6. PICK f : /\ f = [s \in SUBSET DOMAIN rs |-> IF s = {} THEN <<>> ELSE Keep(f[s \ {Max(s)}], rs[Max(s)])]
               /\ Deduped(rs) = f[DOMAIN rs]
  BY <1>5 DEF Deduped, Keep, FoldLeft, MapThenFoldSet
<1>7. Folds(f, <<>>, step, V, n)
  <2>1. f[{}] = <<>>
    BY <1>6
  <2>2. ASSUME NEW s \in SUBSET (1..n), s # {}, f[s \ {Max(s)}] \in V
        PROVE  f[s] = step[<<Max(s), f[s \ {Max(s)}]>>]
    <3>1. Max(s) \in 1..n
      BY <1>1, <2>2, MaxIs
    <3>2. f[s] = Keep(f[s \ {Max(s)}], rs[Max(s)])
      BY <1>1, <1>6, <2>2
    <3> QED  BY <2>2, <3>1, <3>2
  <2> QED  BY <2>1, <2>2 DEF Folds
<1>8. EndsChain(f[1..n], <<>>, step, V, n)
  <2> HIDE DEF V, step, n
  <2> QED  BY <1>1, <1>3, <1>7, FoldIsChain
<1>9. PICK g : Unfolds(g, <<>>, step, V, n) /\ f[1..n] = g[n]
  BY <1>8 DEF EndsChain
<1>10. /\ g \in [0..n -> V] /\ g[0] = <<>> /\ Deduped(rs) = g[n]
       /\ \A i \in 1..n : g[i] = step[<<i, g[i - 1]>>]
  BY <1>1, <1>6, <1>9 DEF Unfolds
<1>11. \A i \in 1..n : g[i - 1] \in V /\ g[i] = Keep(g[i - 1], rs[i])
  <2> SUFFICES ASSUME NEW i \in 1..n PROVE g[i - 1] \in V /\ g[i] = Keep(g[i - 1], rs[i])
    OBVIOUS
  <2>1. i - 1 \in 0..n
    BY <1>1
  <2> QED  BY <1>10, <2>1
<1> QED  BY <1>10, <1>11

\* What is kept of the first k: each type once, from among them; of what any
\* of them is, something that is no more legacy than it, and core if it is.
StandsFor(e, r) ==
    /\ e.spec.type = r.spec.type
    /\ e.group \in LegacyGroups => r.group \in LegacyGroups
    /\ r.group = NoGroup => e.group = NoGroup
KeptOf(kept, rs, k) ==
    /\ \A i, j \in 1..Len(kept) : kept[i].spec.type = kept[j].spec.type => i = j
    /\ \A i \in 1..Len(kept) : \E p \in 1..k : kept[i] = rs[p]
    /\ \A p \in 1..k : \E i \in 1..Len(kept) : StandsFor(kept[i], rs[p])
CoreComesFirst(rs) ==
    \A i, j \in 1..Len(rs) : i < j /\ rs[j].group = NoGroup => rs[i].group = NoGroup

LEMMA OneMoreIsKept ==
    ASSUME NEW W, NEW rs \in Seq(W), CoreComesFirst(rs), NEW k \in Nat, k + 1 <= Len(rs),
           NEW kept \in Seq(W), KeptOf(kept, rs, k)
    PROVE  KeptOf(Keep(kept, rs[k + 1]), rs, k + 1)
<1> DEFINE r == rs[k + 1]
           next == Keep(kept, r)
<1>1. k + 1 \in 1..Len(rs) /\ r \in W /\ k \in Nat /\ Len(kept) \in Nat
  OBVIOUS
<1>2. /\ \A i, j \in 1..Len(kept) : kept[i].spec.type = kept[j].spec.type => i = j
      /\ \A i \in 1..Len(kept) : \E p \in 1..k : kept[i] = rs[p]
      /\ \A p \in 1..k : \E i \in 1..Len(kept) : StandsFor(kept[i], rs[p])
  BY DEF KeptOf
<1>3. NoGroup \notin LegacyGroups
  BY BoundsAssumption
<1>4. \A p \in 1..k : p \in 1..(k + 1)
  OBVIOUS
<1>5. ASSUME NEW i \in 1..Len(kept) PROVE \E p \in 1..(k + 1) : kept[i] = rs[p]
  <2>1. PICK p \in 1..k : kept[i] = rs[p]
    BY <1>2
  <2> QED  BY <1>4, <2>1
<1>6. StandsFor(r, r) /\ \A p \in 1..(k + 1) : p \in 1..k \/ p = k + 1
  BY <1>1 DEF StandsFor
<1>7. CASE KeptFirst(kept, r)
  <2>1. next = Append(kept, r) /\ \A i \in 1..Len(kept) : kept[i].spec.type # r.spec.type
    BY <1>7 DEF KeptFirst
  <2> HIDE DEF next
  <2>2. /\ Len(next) = Len(kept) + 1 /\ next[Len(kept) + 1] = r
        /\ \A i \in 1..Len(kept) : next[i] = kept[i]
    BY <1>1, <2>1
  <2> HIDE DEF r
  <2>3. \A i, j \in 1..Len(next) : next[i].spec.type = next[j].spec.type => i = j
    <3> SUFFICES ASSUME NEW i \in 1..Len(next), NEW j \in 1..Len(next), next[i].spec.type = next[j].spec.type
                 PROVE  i = j
      OBVIOUS
    <3>1. CASE i \in 1..Len(kept) /\ j \in 1..Len(kept)
      BY <1>2, <2>2, <3>1
    <3>2. CASE i \in 1..Len(kept) /\ j = Len(kept) + 1
      BY <2>1, <2>2, <3>2
    <3>3. CASE i = Len(kept) + 1 /\ j \in 1..Len(kept)
      BY <2>1, <2>2, <3>3
    <3> QED  BY <1>1, <2>2, <3>1, <3>2, <3>3
  <2>4. \A i \in 1..Len(next) : \E p \in 1..(k + 1) : next[i] = rs[p]
    <3> SUFFICES ASSUME NEW i \in 1..Len(next) PROVE \E p \in 1..(k + 1) : next[i] = rs[p]
      OBVIOUS
    <3>1. CASE i \in 1..Len(kept)
      BY <1>5, <2>2, <3>1
    <3>2. CASE i = Len(kept) + 1
      BY <1>1, <2>2, <3>2 DEF r
    <3> QED  BY <1>1, <2>2, <3>1, <3>2
  <2>5. \A p \in 1..(k + 1) : \E i \in 1..Len(next) : StandsFor(next[i], rs[p])
    <3> SUFFICES ASSUME NEW p \in 1..(k + 1) PROVE \E i \in 1..Len(next) : StandsFor(next[i], rs[p])
      OBVIOUS
    <3>1. CASE p \in 1..k
      <4>1. PICK i \in 1..Len(kept) : StandsFor(kept[i], rs[p])
        BY <1>2, <3>1
      <4>2. i \in 1..Len(next) /\ next[i] = kept[i]
        BY <1>1, <2>2
      <4> QED  BY <4>1, <4>2
    <3>2. CASE p = k + 1
      <4>1. Len(kept) + 1 \in 1..Len(next)
        BY <1>1, <2>2
      <4> QED  BY <1>6, <2>2, <3>2, <4>1 DEF r
    <3> QED  BY <1>6, <3>1, <3>2
  <2> QED  BY <2>3, <2>4, <2>5 DEF KeptOf, next, r
<1>8. ASSUME NEW at \in 1..Len(kept), KeptAt(kept, r, at)
      PROVE  KeptOf(next, rs, k + 1)
  <2>1. /\ kept[at].spec.type = r.spec.type
        /\ next = IF Replaces(r, kept[at]) THEN [kept EXCEPT ![at] = r] ELSE kept
    BY <1>8 DEF KeptAt
  <2> HIDE DEF next
  <2>2. CASE Replaces(r, kept[at])
    <3>1. /\ Len(next) = Len(kept) /\ next[at] = r
          /\ \A i \in 1..Len(kept) : i # at => next[i] = kept[i]
      BY <2>1, <2>2
    <3>2. kept[at].group \in LegacyGroups /\ r.group \notin LegacyGroups
      BY <2>2 DEF Replaces
    <3> HIDE DEF r
    <3>3. \A i \in 1..Len(kept) : next[i].spec.type = kept[i].spec.type
      BY <2>1, <3>1
    <3>4. \A i, j \in 1..Len(next) : next[i].spec.type = next[j].spec.type => i = j
      BY <1>2, <3>1, <3>3
    <3>5. \A i \in 1..Len(next) : \E p \in 1..(k + 1) : next[i] = rs[p]
      <4> SUFFICES ASSUME NEW i \in 1..Len(next) PROVE \E p \in 1..(k + 1) : next[i] = rs[p]
        OBVIOUS
      <4>1. CASE i = at
        BY <1>1, <3>1, <4>1 DEF r
      <4>2. CASE i # at
        BY <1>5, <3>1, <4>2
      <4> QED  BY <4>1, <4>2
    <3>6. ASSUME NEW p \in 1..k PROVE \E i \in 1..Len(next) : StandsFor(next[i], rs[p])
      <4>1. PICK i \in 1..Len(kept) : StandsFor(kept[i], rs[p])
        BY <1>2
      <4>2. CASE i = at
        <5>1. StandsFor(r, rs[p])
          BY <1>3, <2>1, <3>2, <4>1, <4>2 DEF StandsFor
        <5> QED  BY <3>1, <4>2, <5>1
      <4>3. CASE i # at
        BY <3>1, <4>1, <4>3
      <4> QED  BY <4>2, <4>3
    <3>7. StandsFor(next[at], rs[k + 1]) /\ at \in 1..Len(next)
      BY <1>6, <3>1 DEF r
    <3>8. \A p \in 1..(k + 1) : \E i \in 1..Len(next) : StandsFor(next[i], rs[p])
      BY <1>6, <3>6, <3>7
    <3> QED  BY <3>4, <3>5, <3>8 DEF KeptOf
  <2>3. CASE ~Replaces(r, kept[at])
    <3>1. next = kept
      BY <2>1, <2>3
    <3>2. kept[at].group \in LegacyGroups => r.group \in LegacyGroups
      BY <2>3 DEF Replaces
    <3>3. r.group = NoGroup => kept[at].group = NoGroup
      <4>1. PICK q \in 1..k : kept[at] = rs[q]
        BY <1>2
      <4>2. q \in 1..Len(rs) /\ q < k + 1
        BY <1>1
      <4> QED  BY <1>1, <4>1, <4>2 DEF CoreComesFirst
    <3>4. StandsFor(kept[at], rs[k + 1])
      BY <2>1, <3>2, <3>3 DEF StandsFor
    <3> HIDE DEF r
    <3>5. \A i \in 1..Len(kept) : \E p \in 1..(k + 1) : kept[i] = rs[p]
      BY <1>5
    <3>6. \A p \in 1..(k + 1) : \E i \in 1..Len(kept) : StandsFor(kept[i], rs[p])
      BY <1>2, <1>6, <3>4
    <3> QED  BY <1>2, <3>1, <3>5, <3>6 DEF KeptOf
  <2> QED  BY <2>2, <2>3
<1> HIDE DEF next
<1>9. KeptFirst(kept, r) \/ \E at \in 1..Len(kept) : KeptAt(kept, r, at)
  BY <1>1, KeepIs
<1>10. KeptOf(next, rs, k + 1)
  BY <1>7, <1>8, <1>9 DEF next
<1> QED  BY <1>10 DEF next

LEMMA DedupedHolds ==
    ASSUME NEW W, NEW rs \in Seq(W), CoreComesFirst(rs)
    PROVE  Deduped(rs) \in Seq(W) /\ KeptOf(Deduped(rs), rs, Len(rs))
<1> DEFINE n == Len(rs)
<1>1. PICK g \in [0..n -> Seq(W)] :
         /\ g[0] = <<>> /\ Deduped(rs) = g[n]
         /\ \A i \in 1..n : g[i] = Keep(g[i - 1], rs[i])
  BY DedupedIs
<1> DEFINE T == {k \in Nat : k <= n => KeptOf(g[k], rs, k)}
<1>2. n \in Nat
  OBVIOUS
<1>3. 0 \in T
  BY <1>1 DEF KeptOf
<1>4. ASSUME NEW k \in Nat, k \in T PROVE k + 1 \in T
  <2> SUFFICES ASSUME k + 1 <= n PROVE KeptOf(g[k + 1], rs, k + 1)
    OBVIOUS
  <2>1. k \in 0..n /\ k + 1 \in 1..n /\ (k + 1) - 1 = k /\ k <= n
    BY <1>2
  <2>2. g[k] \in Seq(W) /\ g[k + 1] = Keep(g[k], rs[k + 1])
    BY <1>1, <2>1
  <2>3. KeptOf(g[k], rs, k)
    BY <1>4, <2>1
  <2> QED  BY <2>2, <2>3, OneMoreIsKept
<1>5. n \in T
  <2> HIDE DEF T
  <2> QED  BY <1>2, <1>3, <1>4, NatInductionOverSet
<1>6. n \in 0..n
  BY <1>2
<1> QED  BY <1>1, <1>5, <1>6

-----------------------------------------------------------------------------
(* The types a pack adds, and what the registry makes of them.             *)

Extra(covered, extra, s) == IF s.type \in covered THEN extra ELSE Append(extra, s)

Covered(cs) == {s.type : s \in BuiltinSpecs} \union {CrdSpec(c).type : c \in Range(cs)}

LEMMA ExtraSpecsAre ==
    ASSUME NEW W, NEW specs \in Seq(W), NEW cs
    PROVE  /\ ExtraSpecs(specs, cs) \in Seq(W)
           /\ \A i \in 1..Len(specs) :
                 specs[i].type \in Covered(cs) \/ specs[i] \in Range(ExtraSpecs(specs, cs))
<1> DEFINE n == Len(specs)
           V == Seq(W)
           covered == Covered(cs)
           step == [p \in (1..n) \X V |-> Extra(covered, p[2], specs[p[1]])]
<1>1. n \in Nat /\ DOMAIN specs = 1..n
  BY LenProperties
<1>2. \A i \in 1..n : specs[i] \in W
  OBVIOUS
<1>3. <<>> \in V /\ step \in [(1..n) \X V -> V]
  <2> HIDE DEF covered
  <2>1. \A i \in 1..n, v \in V : Extra(covered, v, specs[i]) \in V
    BY <1>2 DEF Extra
  <2>2. <<>> \in V
    OBVIOUS
  <2> HIDE DEF V
  <2>3. \A p \in (1..n) \X V : Extra(covered, p[2], specs[p[1]]) \in V
    BY <2>1
  <2> QED  BY <2>2, <2>3
<1>4. PICK f0 \in [SUBSET (1..n) -> V] : FoldsDown(f0, <<>>, step, n)
  <2> HIDE DEF V, step, n
  <2> QED  BY <1>1, <1>3, FoldExists
<1>5. f0 = [s \in SUBSET DOMAIN specs |-> IF s = {} THEN <<>> ELSE Extra(covered, f0[s \ {Max(s)}], specs[Max(s)])]
  <2>1. f0 = [s \in SUBSET (1..n) |-> FoldValue(f0, <<>>, step, s)]
    BY <1>4 DEF FoldsDown
  <2>2. ASSUME NEW s \in SUBSET (1..n)
        PROVE  FoldValue(f0, <<>>, step, s) = IF s = {} THEN <<>> ELSE Extra(covered, f0[s \ {Max(s)}], specs[Max(s)])
    <3>1. CASE s # {}
      <4>1. Max(s) \in 1..n /\ f0[s \ {Max(s)}] \in V
        BY <1>1, <1>4, <3>1, MaxIs
      <4> QED  BY <3>1, <4>1 DEF FoldValue
    <3> QED  BY <3>1 DEF FoldValue
  <2> QED  BY <1>1, <2>1, <2>2
<1>6. PICK f : /\ f = [s \in SUBSET DOMAIN specs |-> IF s = {} THEN <<>> ELSE Extra(covered, f[s \ {Max(s)}], specs[Max(s)])]
               /\ ExtraSpecs(specs, cs) = f[DOMAIN specs]
  BY <1>5 DEF ExtraSpecs, Extra, Covered, FoldLeft, MapThenFoldSet
<1>7. Folds(f, <<>>, step, V, n)
  <2>1. f[{}] = <<>>
    BY <1>6
  <2>2. ASSUME NEW s \in SUBSET (1..n), s # {}, f[s \ {Max(s)}] \in V
        PROVE  f[s] = step[<<Max(s), f[s \ {Max(s)}]>>]
    <3>1. Max(s) \in 1..n
      BY <1>1, <2>2, MaxIs
    <3>2. f[s] = Extra(covered, f[s \ {Max(s)}], specs[Max(s)])
      BY <1>1, <1>6, <2>2
    <3> QED  BY <2>2, <3>1, <3>2
  <2> QED  BY <2>1, <2>2 DEF Folds
<1>8. EndsChain(f[1..n], <<>>, step, V, n)
  <2> HIDE DEF V, step, n
  <2> QED  BY <1>1, <1>3, <1>7, FoldIsChain
<1>9. PICK g : Unfolds(g, <<>>, step, V, n) /\ f[1..n] = g[n]
  BY <1>8 DEF EndsChain
<1>10. /\ g \in [0..n -> V] /\ g[0] = <<>> /\ ExtraSpecs(specs, cs) = g[n]
       /\ \A i \in 1..n : g[i] = step[<<i, g[i - 1]>>]
  BY <1>1, <1>6, <1>9 DEF Unfolds
<1> DEFINE Among(k) == \A i \in 1..k : specs[i].type \in covered \/ specs[i] \in Range(g[k])
           T == {k \in Nat : k <= n => Among(k)}
<1>11. 0 \in T
  OBVIOUS
<1>12. ASSUME NEW k \in Nat, k \in T PROVE k + 1 \in T
  <2> SUFFICES ASSUME k + 1 <= n PROVE Among(k + 1)
    OBVIOUS
  <2>1. k \in 0..n /\ k + 1 \in 1..n /\ (k + 1) - 1 = k /\ k <= n
    BY <1>1
  <2>2. Among(k) /\ g[k] \in Seq(W)
    BY <1>10, <1>12, <2>1
  <2>3. g[k + 1] = Extra(covered, g[k], specs[k + 1])
    BY <1>10, <2>1, <2>2
  <2> HIDE DEF covered
  <2>4. Range(g[k]) \subseteq Range(g[k + 1])
    BY <2>2, <2>3, RangeAppend DEF Extra
  <2>5. specs[k + 1].type \in covered \/ specs[k + 1] \in Range(g[k + 1])
    BY <2>2, <2>3, RangeAppend DEF Extra
  <2>6. \A i \in 1..(k + 1) : i \in 1..k \/ i = k + 1
    OBVIOUS
  <2> QED  BY <2>2, <2>4, <2>5, <2>6
<1>13. n \in T
  <2> HIDE DEF T
  <2> QED  BY <1>1, <1>11, <1>12, NatInductionOverSet
<1>14. Among(n) /\ n \in 0..n
  BY <1>1, <1>13
<1> QED  BY <1>10, <1>14

\* What a pack adds: the type of every CRD, every type enumerated that is not
\* covered, and nothing else.
LEMMA AdditiveTypesAre ==
    ASSUME NEW specs, specs \in Seq(Range(specs)), NEW cs, cs \in Seq(Range(cs))
    PROVE  LET all == AdditiveTypes(specs, cs)
           IN  /\ all \in Seq(Range(all))
               /\ Range(all) \subseteq {CrdSpec(c) : c \in Range(cs)} \union Range(specs)
               /\ \A c \in Range(cs) : CrdSpec(c) \in Range(all)
               /\ \A s \in Range(specs) : s.type \in Covered(cs) \/ s \in Range(all)
<1> DEFINE own == [i \in DOMAIN cs |-> CrdSpec(cs[i])]
           extra == ExtraSpecs(specs, cs)
           all == AdditiveTypes(specs, cs)
           X == {CrdSpec(c) : c \in Range(cs)} \union Range(specs)
<1>1. DOMAIN cs = 1..Len(cs) /\ Len(cs) \in Nat /\ \A i \in 1..Len(cs) : cs[i] \in Range(cs)
  OBVIOUS
<1>2. own \in Seq(X)
  <2>1. own \in [1..Len(cs) -> X]
    BY <1>1
  <2> HIDE DEF own, X
  <2> QED  BY <1>1, <2>1, SeqDef
<1>3. \A c \in Range(cs) : CrdSpec(c) \in Range(own)
  BY <1>1 DEF Range
<1>4. extra \in Seq(X) /\ \A s \in Range(specs) : s.type \in Covered(cs) \/ s \in Range(extra)
  <2> HIDE DEF X, extra
  <2>1. /\ extra \in Seq(Range(specs))
        /\ \A i \in 1..Len(specs) : specs[i].type \in Covered(cs) \/ specs[i] \in Range(extra)
    BY ExtraSpecsAre DEF extra
  <2>2. Range(specs) \subseteq X /\ DOMAIN specs = 1..Len(specs)
    BY DEF X
  <2>3. \A s \in Range(specs) : \E i \in 1..Len(specs) : s = specs[i]
    BY <2>2 DEF Range
  <2>4. extra \in Seq(X)
    BY <2>1, <2>2, SeqDef
  <2> QED  BY <2>1, <2>3, <2>4
<1>5. all = own \o extra
  BY DEF AdditiveTypes
<1> HIDE DEF own, extra, all, X
<1>6. all \in Seq(X) /\ Range(all) = Range(own) \union Range(extra)
  BY <1>2, <1>4, <1>5, RangeConcat
<1>7. Range(all) \subseteq X
  BY <1>6, RangeType
<1>8. all \in Seq(Range(all))
  <2>1. all \in [1..Len(all) -> X] /\ Len(all) \in Nat /\ DOMAIN all = 1..Len(all)
    BY <1>6, LenProperties
  <2>2. \A i \in 1..Len(all) : all[i] \in Range(all)
    BY <2>1 DEF Range
  <2>3. all \in [1..Len(all) -> Range(all)]
    BY <2>1, <2>2
  <2> QED  BY <2>1, <2>3, SeqDef
<1> QED  BY <1>3, <1>4, <1>6, <1>7, <1>8 DEF all, X

\* A registry that has each type once.
TypesDiffer(reg) == \A r, s \in reg : r.type = s.type => r = s
Register(reg, s) == IF Conflicts(reg, s) THEN reg ELSE reg \union {s}

LEMMA BuiltinTypesDiffer == TypesDiffer(BuiltinSpecs)
BY SMTT(120) DEF TypesDiffer, BuiltinSpecs, Builtins, Cluster, Namespace, TypeSpec, Def, Namespaced,
      ClusterScoped, Ephemeral, NoParent

\* A registration leaves each type once, takes the static ones, and takes an
\* additive one unless something else registered or added is in conflict.
LEMMA RegisteredIs ==
    ASSUME NEW reg, TypesDiffer(reg), NEW additive, additive \in Seq(Range(additive))
    PROVE  LET after == Registered(reg, additive)
           IN  /\ TypesDiffer(after) /\ BuiltinSpecs \subseteq after
               /\ \A s \in Range(additive) :
                     s \in after \/ Conflicts(reg \union BuiltinSpecs \union Range(additive), s)
<1> DEFINE n == Len(additive)
           X == Range(additive)
           base == {r \in reg : r.type \notin {b.type : b \in BuiltinSpecs}} \union BuiltinSpecs
           V == {R \in SUBSET (base \union X) : TypesDiffer(R) /\ BuiltinSpecs \subseteq R}
           step == [p \in (1..n) \X V |-> Register(p[2], additive[p[1]])]
<1>1. n \in Nat /\ DOMAIN additive = 1..n
  BY LenProperties
<1>2. \A i \in 1..n : additive[i] \in X
  OBVIOUS
<1>3. base \in V /\ step \in [(1..n) \X V -> V]
  <2>1. TypesDiffer(base) /\ BuiltinSpecs \subseteq base
    BY BuiltinTypesDiffer DEF TypesDiffer
  <2> HIDE DEF base
  <2>2. \A s \in X, v \in V : Register(v, s) \in V
    BY DEF Register, Conflicts, TypesDiffer
  <2>3. base \in V
    BY <2>1
  <2> HIDE DEF V
  <2>4. \A p \in (1..n) \X V : Register(p[2], additive[p[1]]) \in V
    BY <1>2, <2>2
  <2> QED  BY <2>3, <2>4
<1>4. PICK f0 \in [SUBSET (1..n) -> V] : FoldsDown(f0, base, step, n)
  <2> HIDE DEF V, step, n, base
  <2> QED  BY <1>1, <1>3, FoldExists
<1>5. f0 = [s \in SUBSET DOMAIN additive |-> IF s = {} THEN base ELSE Register(f0[s \ {Max(s)}], additive[Max(s)])]
  <2>1. f0 = [s \in SUBSET (1..n) |-> FoldValue(f0, base, step, s)]
    BY <1>4 DEF FoldsDown
  <2>2. ASSUME NEW s \in SUBSET (1..n)
        PROVE  FoldValue(f0, base, step, s) = IF s = {} THEN base ELSE Register(f0[s \ {Max(s)}], additive[Max(s)])
    <3>1. CASE s # {}
      <4>1. Max(s) \in 1..n /\ f0[s \ {Max(s)}] \in V
        BY <1>1, <1>4, <3>1, MaxIs
      <4> QED  BY <3>1, <4>1 DEF FoldValue
    <3> QED  BY <3>1 DEF FoldValue
  <2> QED  BY <1>1, <2>1, <2>2
<1>6. PICK f : /\ f = [s \in SUBSET DOMAIN additive |-> IF s = {} THEN base ELSE Register(f[s \ {Max(s)}], additive[Max(s)])]
               /\ Registered(reg, additive) = f[DOMAIN additive]
  BY <1>5 DEF Registered, Register, FoldLeft, MapThenFoldSet
<1>7. Folds(f, base, step, V, n)
  <2>1. f[{}] = base
    BY <1>6
  <2>2. ASSUME NEW s \in SUBSET (1..n), s # {}, f[s \ {Max(s)}] \in V
        PROVE  f[s] = step[<<Max(s), f[s \ {Max(s)}]>>]
    <3>1. Max(s) \in 1..n
      BY <1>1, <2>2, MaxIs
    <3>2. f[s] = Register(f[s \ {Max(s)}], additive[Max(s)])
      BY <1>1, <1>6, <2>2
    <3> QED  BY <2>2, <3>1, <3>2
  <2> QED  BY <2>1, <2>2 DEF Folds
<1>8. EndsChain(f[1..n], base, step, V, n)
  <2> HIDE DEF V, step, n, base
  <2> QED  BY <1>1, <1>3, <1>7, FoldIsChain
<1>9. PICK g : Unfolds(g, base, step, V, n) /\ f[1..n] = g[n]
  BY <1>8 DEF EndsChain
<1>10. /\ g \in [0..n -> V] /\ g[0] = base /\ Registered(reg, additive) = g[n]
       /\ \A i \in 1..n : g[i] = step[<<i, g[i - 1]>>]
  BY <1>1, <1>6, <1>9 DEF Unfolds
<1> DEFINE others == reg \union BuiltinSpecs \union X
           Tried(k) == \A i \in 1..k : additive[i] \in g[k] \/ Conflicts(others, additive[i])
           T == {k \in Nat : k <= n => Tried(k)}
<1>11. 0 \in T
  OBVIOUS
<1>12. ASSUME NEW k \in Nat, k \in T PROVE k + 1 \in T
  <2> HIDE DEF Tried
  <2> SUFFICES ASSUME k + 1 <= n PROVE Tried(k + 1)
    OBVIOUS
  <2>1. k \in 0..n /\ k + 1 \in 1..n /\ (k + 1) - 1 = k /\ k <= n
    BY <1>1
  <2>2. Tried(k) /\ g[k] \in V
    BY <1>10, <1>12, <2>1
  <2>3. g[k + 1] = Register(g[k], additive[k + 1])
    BY <1>10, <2>1, <2>2
  <2>4. g[k] \subseteq others
    BY <2>2
  <2> HIDE DEF others, V
  <2>5. g[k] \subseteq g[k + 1]
    BY <2>3 DEF Register
  <2>6. additive[k + 1] \in g[k + 1] \/ Conflicts(others, additive[k + 1])
    BY <2>3, <2>4 DEF Register, Conflicts
  <2>7. \A i \in 1..(k + 1) : i \in 1..k \/ i = k + 1
    OBVIOUS
  <2> QED  BY <2>2, <2>5, <2>6, <2>7 DEF Tried
<1>13. n \in T
  <2> HIDE DEF T
  <2> QED  BY <1>1, <1>11, <1>12, NatInductionOverSet
<1>14. Tried(n) /\ n \in 0..n
  <2> HIDE DEF Tried
  <2> QED  BY <1>1, <1>13
<1>15. g[n] \in V
  <2> HIDE DEF V
  <2> QED  BY <1>10, <1>14
<1>16. \A s \in X : s \in g[n] \/ Conflicts(others, s)
  <2> HIDE DEF others
  <2>1. \A s \in X : \E i \in 1..n : s = additive[i]
    BY <1>1 DEF Range
  <2> QED  BY <1>14, <2>1
<1>17. TypesDiffer(g[n]) /\ BuiltinSpecs \subseteq g[n]
  BY <1>15
<1> HIDE DEF V, step, base, Tried, T
<1> QED  BY <1>10, <1>16, <1>17

-----------------------------------------------------------------------------
(* The invariant.                                                          *)

\* A sequence of which some was taken from the front.
Rest(s, t) == Len(s) <= Len(t) /\ \A i \in 1..Len(s) : s[i] = t[(Len(t) - Len(s)) + i]
OfType(t, S) == {o \in S : o.type = t}

Typed ==
    /\ pc \in {"crds", "core", "groups", "pack", "sources", "push", "failed"}
    /\ api \in Apis /\ crds \in api.crds \union {<<>>}
    /\ toRead \in Seq(Range(api.groups)) /\ Rest(toRead, api.groups)
    /\ resources \in Seq(Range(resources))
    /\ unread \subseteq {g.name : g \in Range(api.groups)}
    /\ TypesDiffer(registry)
    /\ sourceTodo \in Seq(Range(Sources)) /\ Rest(sourceTodo, Sources)
    /\ unavailable \subseteq Range(Sources)
    /\ read \in [Range(Sources) -> SUBSET Objs]
    /\ changes \in 0..MaxChanges

\* What was there throughout is there now, what is there now has been; and
\* some group serves it.
History ==
    /\ run.steady \subseteq live /\ live \subseteq run.ever /\ run.ever \subseteq Objs
    /\ \A o \in live : Exists(o)

\* What has been enumerated: each group is still to be read, or is among the
\* resources whole, or is unread; nothing else is, and the core group leads.
ReadWhole(g) == Range(Served(g)) \subseteq Range(resources)
Enumerating ==
    /\ pc \in {"crds", "core"} => resources = <<>> /\ toRead = api.groups /\ unread = {}
    /\ pc = "groups" =>
        /\ CoreComesFirst(resources)
        /\ \A g \in Range(toRead) : g.name \notin unread
        /\ \A g \in ReadGroups : g \in Range(toRead) \/ ReadWhole(g)
        /\ \A r \in Range(resources) :
              \E g \in ReadGroups : g \notin Range(toRead) /\ r \in Range(Served(g))
    /\ pc = "pack" => EveryTypeOnce
    /\ pc \in {"pack", "sources", "push"} => \A g \in ReadGroups : \A t \in TypesOf(g) : IsServed(t)

\* What has been read of the sources: each is still to be read, or could not
\* be, or is not served, or nothing that was there throughout is missing.
Reading ==
    /\ pc \notin {"sources", "push"} =>
          sourceTodo = <<>> /\ unavailable = {} /\ \A t \in Range(Sources) : read[t] = {}
    /\ pc = "push" => sourceTodo = <<>>
    /\ \A t \in Range(sourceTodo) : t \notin unavailable /\ read[t] = {}
    /\ \A t \in Range(Sources) : read[t] \subseteq OfType(t, run.ever)
    /\ \A t \in unavailable : read[t] = {}
    /\ pc \in {"sources", "push"} =>
          \A t \in Range(Sources) : \/ t \in Range(sourceTodo) \/ t \in unavailable \/ ~IsServed(t)
                                    \/ OfType(t, run.steady) \subseteq read[t]

\* What is pushed is summed up from what was read.
Pushing ==
    /\ pushed # {} => pc = "push"
    /\ \A p \in pushed : p.item \in Objs /\ p.rollups = RollupsFor(p.item)

RInv == Typed /\ History /\ Enumerating /\ Reading /\ Pushing

LEMMA SourcesAre ==
    /\ Sources \in Seq(Range(Sources)) /\ Len(Sources) = 5
    /\ Range(Sources) = {"pod", "replicaset", "endpointslice", "job", "event"}
    /\ \A i, j \in 1..5 : Sources[i] = Sources[j] => i = j
<1> DEFINE S == {"pod", "replicaset", "endpointslice", "job", "event"}
<1>1. /\ Sources[1] = "pod" /\ Sources[2] = "replicaset" /\ Sources[3] = "endpointslice"
      /\ Sources[4] = "job" /\ Sources[5] = "event" /\ Sources \in Seq(S) /\ Len(Sources) = 5
      /\ DOMAIN Sources = 1..5
  <2>1. /\ Sources[1] = "pod" /\ Sources[2] = "replicaset" /\ Sources[3] = "endpointslice"
        /\ Sources[4] = "job" /\ Sources[5] = "event"
    BY DEF Sources
  <2>2. Len(Sources) = 5
    BY DEF Sources
  <2>3. Sources \in Seq(S)
    BY DEF Sources
  <2> QED  BY <2>1, <2>2, <2>3
<1>2. \A i \in 1..5 : i = 1 \/ i = 2 \/ i = 3 \/ i = 4 \/ i = 5
  OBVIOUS
<1>3. Range(Sources) = {"pod", "replicaset", "endpointslice", "job", "event"}
  BY <1>1, <1>2 DEF Range
<1>4. Sources \in Seq(Range(Sources))
  BY <1>1, <1>3
<1>5. \A i, j \in 1..5 : Sources[i] = Sources[j] => i = j
  BY <1>1, <1>2
<1> QED  BY <1>1, <1>3, <1>4, <1>5

LEMMA RestIs ==
    ASSUME NEW S, NEW s \in Seq(S), NEW t \in Seq(S), Rest(s, t)
    PROVE  IsSuffix(s, t) /\ Range(s) \subseteq Range(t)
<1>1. Len(s) \in Nat /\ Len(t) \in Nat /\ DOMAIN s = 1..Len(s) /\ DOMAIN t = 1..Len(t) /\ Len(s) <= Len(t)
  BY DEF Rest
<1>2. \A i \in 1..Len(s) : (Len(t) - Len(s)) + i \in 1..Len(t) /\ s[i] = t[(Len(t) - Len(s)) + i]
  BY <1>1 DEF Rest
<1>3. Range(s) \subseteq Range(t)
  BY <1>1, <1>2 DEF Range
<1> DEFINE rs == Reverse(s)
           rt == Reverse(t)
<1>4. /\ rs = [i \in 1..Len(s) |-> s[(Len(s) - i) + 1]]
      /\ rt = [i \in 1..Len(t) |-> t[(Len(t) - i) + 1]]
  BY DEF Reverse
<1>5. rs \in Seq(S) /\ rt \in Seq(S) /\ Len(rs) = Len(s) /\ Len(rt) = Len(t)
  <2>1. \A i \in 1..Len(s) : s[(Len(s) - i) + 1] \in S
    BY <1>1
  <2>2. \A i \in 1..Len(t) : t[(Len(t) - i) + 1] \in S
    BY <1>1
  <2>3. rs \in [1..Len(s) -> S] /\ rt \in [1..Len(t) -> S]
    BY <1>4, <2>1, <2>2
  <2> HIDE DEF rs, rt
  <2>4. rs \in Seq(S) /\ rt \in Seq(S)
    <3>1. \A n \in Nat : \A f \in [1..n -> S] : f \in Seq(S)
      BY SeqDef
    <3>2. rs \in Seq(S)
      BY <1>1, <2>3, <3>1
    <3>3. rt \in Seq(S)
      BY <1>1, <2>3, <3>1
    <3> QED  BY <3>2, <3>3
  <2>5. DOMAIN rs = 1..Len(s) /\ DOMAIN rt = 1..Len(t)
    BY <2>3
  <2> QED  BY <1>1, <2>4, <2>5, LenProperties
<1>6. ASSUME NEW i \in 1..Len(s) PROVE rs[i] = rt[i]
  <2>1. /\ (Len(s) - i) + 1 \in 1..Len(s) /\ i \in 1..Len(t)
        /\ (Len(t) - Len(s)) + ((Len(s) - i) + 1) = (Len(t) - i) + 1
    BY <1>1
  <2>2. rs[i] = s[(Len(s) - i) + 1] /\ rt[i] = t[(Len(t) - i) + 1]
    BY <1>4, <2>1
  <2> HIDE DEF rs, rt
  <2> QED  BY <1>2, <2>1, <2>2
<1> HIDE DEF rs, rt
<1>7. SubSeq(rs, 1, Len(rs)) = SubSeq(rt, 1, Len(rs))
  <2>1. /\ SubSeq(rs, 1, Len(s)) = [i \in 1..Len(s) |-> rs[i]]
        /\ SubSeq(rt, 1, Len(s)) = [i \in 1..Len(s) |-> rt[i]]
    BY <1>1, <1>5
  <2> QED  BY <1>5, <1>6, <2>1
<1>8. IsSuffix(s, t)
  BY <1>1, <1>5, <1>7 DEF IsSuffix, IsPrefix, rs, rt
<1> QED  BY <1>3, <1>8

LEMMA RestOfTail ==
    ASSUME NEW S, NEW s \in Seq(S), NEW t \in Seq(S), Rest(s, t), s # <<>>
    PROVE  /\ Rest(Tail(s), t)
           /\ (\A i, j \in 1..Len(t) : t[i] = t[j] => i = j) => Head(s) \notin Range(Tail(s))
<1>1. /\ Len(s) \in Nat \ {0} /\ Len(t) \in Nat /\ Len(s) <= Len(t)
      /\ Tail(s) \in Seq(S) /\ Len(Tail(s)) = Len(s) - 1 /\ DOMAIN Tail(s) = 1..(Len(s) - 1)
      /\ \A i \in 1..(Len(s) - 1) : Tail(s)[i] = s[i + 1]
      /\ Head(s) = s[1]
  BY HeadTailProperties DEF Rest
<1>2. \A i \in 1..Len(s) : (Len(t) - Len(s)) + i \in 1..Len(t) /\ s[i] = t[(Len(t) - Len(s)) + i]
  BY <1>1 DEF Rest
<1>3. ASSUME NEW i \in 1..(Len(s) - 1)
      PROVE  Tail(s)[i] = t[(Len(t) - (Len(s) - 1)) + i]
  <2>1. i + 1 \in 1..Len(s) /\ (Len(t) - Len(s)) + (i + 1) = (Len(t) - (Len(s) - 1)) + i
    BY <1>1
  <2> QED  BY <1>1, <1>2, <2>1
<1>4. Rest(Tail(s), t)
  BY <1>1, <1>3 DEF Rest
<1>5. ASSUME \A i, j \in 1..Len(t) : t[i] = t[j] => i = j, Head(s) \in Range(Tail(s))
      PROVE  FALSE
  <2>1. PICK i \in 1..(Len(s) - 1) : Head(s) = Tail(s)[i]
    BY <1>1, <1>5 DEF Range
  <2>2. 1 \in 1..Len(s) /\ i + 1 \in 1..Len(s) /\ s[1] = s[i + 1]
    BY <1>1, <2>1
  <2> DEFINE a == (Len(t) - Len(s)) + 1
             b == (Len(t) - Len(s)) + (i + 1)
  <2>3. a # b
    BY <1>1
  <2>4. a \in 1..Len(t) /\ b \in 1..Len(t) /\ s[1] = t[a] /\ s[i + 1] = t[b]
    BY <1>2, <2>2
  <2> HIDE DEF a, b
  <2>5. t[a] = t[b]
    BY <2>2, <2>4
  <2> QED  BY <1>5, <2>3, <2>4, <2>5
<1> QED  BY <1>4, <1>5

\* What ApisAssumption says of the API there is.
LEMMA ApiIs ==
    ASSUME api \in Apis
    PROVE  /\ api.groups \in Seq(Range(api.groups))
           /\ \A i, j \in 1..Len(api.groups) : api.groups[i] = api.groups[j] => i = j
           /\ \A g, h \in AllGroups : g.name = h.name => g = h
           /\ \A g \in Range(api.groups) : g.name # NoGroup
           /\ \A g \in AllGroups : /\ Served(g) \in Seq(Range(Served(g)))
                                   /\ \A r \in Range(Served(g)) : r.group = g.name
<1>1. /\ api.groups \in Seq(Range(api.groups))
      /\ \A g \in Range(api.groups) : g.name # NoGroup /\ g.kinds \in Seq(Range(g.kinds))
      /\ \A i, j \in DOMAIN api.groups : api.groups[i].name = api.groups[j].name => i = j
  BY ApisAssumption
<1>2. DOMAIN api.groups = 1..Len(api.groups)
  BY <1>1
<1>3. CoreGroup.name = NoGroup /\ CoreGroup.kinds \in Seq(Range(CoreGroup.kinds))
  BY ApisAssumption DEF CoreGroup
<1>4. \A g, h \in AllGroups : g.name = h.name => g = h
  BY <1>1, <1>3 DEF AllGroups, Range
<1>5. ASSUME NEW g \in AllGroups
      PROVE  Served(g) \in Seq(Range(Served(g))) /\ \A r \in Range(Served(g)) : r.group = g.name
  <2>1. g.kinds \in Seq(Range(g.kinds))
    BY <1>1, <1>3 DEF AllGroups
  <2> QED  BY <2>1, ServedType
<1> QED  BY <1>1, <1>2, <1>4, <1>5

LEMMA InitHolds == Init => RInv
<1> SUFFICES ASSUME Init PROVE RInv
  OBVIOUS
<1> USE DEF Init
<1>1. api.groups \in Seq(Range(api.groups))
  BY ApiIs
<1>2. TypesDiffer(registry)
  BY ApisAssumption DEF TypesDiffer
<1>3. Rest(toRead, api.groups)
  BY <1>1 DEF Rest
<1>4. Rest(sourceTodo, Sources) /\ sourceTodo \in Seq(Range(Sources))
  BY SourcesAre DEF Rest
<1>5. read \in [Range(Sources) -> SUBSET Objs] /\ changes \in 0..MaxChanges
  BY BoundsAssumption
<1>6. Typed
  BY <1>1, <1>2, <1>3, <1>4, <1>5 DEF Typed
<1>7. History
  BY ObjsAssumption DEF History
<1>8. Enumerating /\ Pushing
  BY DEF Enumerating, Pushing
<1>9. Reading
  BY RangeEmpty DEF Reading
<1> QED  BY <1>6, <1>7, <1>8, <1>9 DEF RInv

-----------------------------------------------------------------------------
(* Every step keeps it. What a step leaves alone first.                    *)

LEMMA EnumerationKept ==
    ASSUME Enumerating, UNCHANGED <<pc, enumeration>>
    PROVE  Enumerating'
<1> USE DEF enumeration
<1>1. ReadGroups' = ReadGroups /\ \A t : IsServed(t)' <=> IsServed(t)
  BY DEF ReadGroups, AllGroups, IsServed
<1>2. \A t : Servers(t)' = Servers(t)
  BY DEF Servers, ReadGroups, AllGroups
<1>3. EveryTypeOnce' <=> EveryTypeOnce
  BY DEF EveryTypeOnce, Servers, ReadGroups, AllGroups, IsServed
<1> QED  BY <1>1, <1>3 DEF Enumerating, ReadWhole

LEMMA HistoryKept ==
    ASSUME History, UNCHANGED <<api, cluster>>
    PROVE  History'
BY DEF History, cluster, Exists, AllGroups

LEMMA NothingRead ==
    ASSUME Reading, UNCHANGED <<sources, cluster>>, pc \notin {"sources", "push"}, pc' \notin {"sources", "push"}
    PROVE  Reading'
BY DEF Reading, sources, cluster, OfType

LEMMA NothingPushed ==
    ASSUME Pushing, pushed' = pushed, pc # "push"
    PROVE  Pushing'
BY DEF Pushing

LEMMA ReadCrdsHolds == RInv /\ ReadCrds => RInv'
<1> SUFFICES ASSUME RInv, ReadCrds PROVE RInv'
  OBVIOUS
<1> USE DEF RInv
<1>1. /\ pc = "crds" /\ pc' = "core" /\ crds' \in api.crds \union {<<>>}
      /\ api' = api /\ toRead' = toRead /\ resources' = resources /\ unread' = unread
      /\ registry' = registry /\ UNCHANGED sources /\ UNCHANGED cluster /\ pushed' = pushed
  BY DEF ReadCrds
<1>2. Typed'
  BY <1>1 DEF Typed, sources, cluster
<1>3. Enumerating'
  BY <1>1 DEF Enumerating
<1> QED  BY <1>1, <1>2, <1>3, HistoryKept, NothingRead, NothingPushed

LEMMA ReadCoreHolds == RInv /\ ReadCore => RInv'
<1> SUFFICES ASSUME RInv, ReadCore PROVE RInv'
  OBVIOUS
<1> USE DEF RInv
<1>1. /\ pc = "core" /\ api' = api /\ crds' = crds /\ toRead' = toRead /\ unread' = unread
      /\ registry' = registry /\ UNCHANGED sources /\ UNCHANGED cluster /\ pushed' = pushed
      /\ \/ pc' = "groups" /\ resources' = Served(CoreGroup)
         \/ pc' = "failed" /\ resources' = resources
  BY DEF ReadCore
<1>2. api \in Apis /\ resources = <<>> /\ toRead = api.groups /\ unread = {}
  BY <1>1 DEF Typed, Enumerating
<1>3. /\ CoreGroup \in AllGroups /\ CoreGroup.name = NoGroup
      /\ Served(CoreGroup) \in Seq(Range(Served(CoreGroup)))
      /\ \A r \in Range(Served(CoreGroup)) : r.group = NoGroup
      /\ \A g \in Range(api.groups) : g.name # NoGroup
  BY <1>2, ApiIs DEF AllGroups, CoreGroup
<1>4. Typed'
  <2>1. resources' \in Seq(Range(resources'))
    BY <1>1, <1>3 DEF Typed
  <2> QED  BY <1>1, <2>1 DEF Typed, sources, cluster
<1>5. Enumerating'
  <2>1. CASE pc' = "failed"
    BY <2>1 DEF Enumerating
  <2>2. CASE pc' = "groups" /\ resources' = Served(CoreGroup)
    <3>1. CoreComesFirst(resources')
      <4>1. \A i \in 1..Len(resources') : resources'[i] \in Range(resources')
        BY <1>3, <2>2 DEF Range
      <4> QED  BY <1>3, <2>2, <4>1 DEF CoreComesFirst
    <3>2. CoreGroup \notin Range(toRead') /\ CoreGroup \in ReadGroups'
      BY <1>1, <1>2, <1>3 DEF ReadGroups, AllGroups
    <3>3. \A g \in ReadGroups' : g \in Range(toRead') \/ ReadWhole(g)'
      BY <1>1, <1>2, <2>2 DEF ReadGroups, AllGroups, ReadWhole
    <3> QED  BY <1>1, <1>2, <2>2, <3>1, <3>2, <3>3 DEF Enumerating
  <2> QED  BY <1>1, <2>1, <2>2
<1> QED  BY <1>1, <1>4, <1>5, HistoryKept, NothingRead, NothingPushed

\* The resources of a group that is not the core's go behind the core's.
LEMMA CoreStaysFirst ==
    ASSUME NEW W, NEW rs \in Seq(W), CoreComesFirst(rs),
           NEW found \in Seq(W), \A r \in Range(found) : r.group # NoGroup
    PROVE  CoreComesFirst(rs \o found)
<1>1. /\ Len(rs) \in Nat /\ Len(found) \in Nat /\ Len(rs \o found) = Len(rs) + Len(found)
      /\ DOMAIN found = 1..Len(found)
      /\ \A i \in 1..(Len(rs) + Len(found)) :
            (rs \o found)[i] = IF i <= Len(rs) THEN rs[i] ELSE found[i - Len(rs)]
  OBVIOUS
<1>2. \A i \in 1..Len(found) : found[i].group # NoGroup
  BY <1>1 DEF Range
<1> SUFFICES ASSUME NEW i \in 1..Len(rs \o found), NEW j \in 1..Len(rs \o found), i < j,
                    (rs \o found)[j].group = NoGroup
             PROVE  (rs \o found)[i].group = NoGroup
  BY DEF CoreComesFirst
<1>3. CASE j <= Len(rs)
  <2>1. i \in 1..Len(rs) /\ j \in 1..Len(rs)
    BY <1>1, <1>3
  <2>2. (rs \o found)[i] = rs[i] /\ (rs \o found)[j] = rs[j]
    BY <1>1, <2>1
  <2> QED  BY <2>1, <2>2 DEF CoreComesFirst
<1>4. CASE j > Len(rs)
  <2>1. j - Len(rs) \in 1..Len(found) /\ (rs \o found)[j] = found[j - Len(rs)]
    BY <1>1, <1>4
  <2> QED  BY <1>2, <2>1
<1> QED  BY <1>1, <1>3, <1>4

LEMMA ReadGroupHolds == RInv /\ ReadGroup => RInv'
<1> SUFFICES ASSUME RInv, ReadGroup PROVE RInv'
  OBVIOUS
<1> USE DEF RInv
<1> DEFINE head == Head(toRead)
<1>1. /\ pc = "groups" /\ toRead # <<>> /\ toRead' = Tail(toRead)
      /\ pc' = pc /\ api' = api /\ crds' = crds /\ registry' = registry
      /\ UNCHANGED sources /\ UNCHANGED cluster /\ pushed' = pushed
      /\ \/ resources' = resources \o Served(head) /\ unread' = unread
         \/ unread' = unread \union {head.name} /\ resources' = resources
  BY DEF ReadGroup
<1>2. /\ api \in Apis /\ toRead \in Seq(Range(api.groups)) /\ Rest(toRead, api.groups)
      /\ resources \in Seq(Range(resources))
  BY DEF Typed
<1>3. /\ CoreComesFirst(resources)
      /\ \A g \in Range(toRead) : g.name \notin unread
      /\ \A g \in ReadGroups : g \in Range(toRead) \/ ReadWhole(g)
      /\ \A r \in Range(resources) :
            \E g \in ReadGroups : g \notin Range(toRead) /\ r \in Range(Served(g))
  BY <1>1 DEF Enumerating
<1>4. /\ api.groups \in Seq(Range(api.groups))
      /\ \A i, j \in 1..Len(api.groups) : api.groups[i] = api.groups[j] => i = j
      /\ \A g, h \in AllGroups : g.name = h.name => g = h
      /\ \A g \in Range(api.groups) : g.name # NoGroup
      /\ \A g \in AllGroups : /\ Served(g) \in Seq(Range(Served(g)))
                              /\ \A r \in Range(Served(g)) : r.group = g.name
  BY <1>2, ApiIs
<1>5. /\ head \in Range(api.groups) /\ toRead' \in Seq(Range(api.groups)) /\ head \in Range(toRead)
      /\ Range(toRead) = {head} \union Range(toRead')
  BY <1>1, <1>2, RangeTail
<1>6. Rest(toRead', api.groups) /\ head \notin Range(toRead')
  BY <1>1, <1>2, <1>4, RestOfTail
<1>7. /\ Range(api.groups) \subseteq AllGroups /\ head \in AllGroups /\ AllGroups' = AllGroups
      /\ Range(toRead) \subseteq Range(api.groups)
  BY <1>1, <1>2, <1>5, RangeType DEF AllGroups
<1> HIDE DEF head
<1>8. CASE resources' = resources \o Served(head) /\ unread' = unread
  <2> DEFINE W == Range(resources) \union Range(Served(head))
  <2>1. resources \in Seq(W) /\ Served(head) \in Seq(W)
    <3>1. Served(head) \in Seq(Range(Served(head)))
      BY <1>4, <1>7
    <3> QED  BY <1>2, <3>1
  <2>2. Range(resources') = Range(resources) \union Range(Served(head)) /\ resources' \in Seq(W)
    <3> HIDE DEF W
    <3> QED  BY <1>8, <2>1, RangeConcat
  <2>3. resources' \in Seq(Range(resources'))
    BY <2>2
  <2>4. Typed'
    BY <1>1, <1>5, <1>6, <1>8, <2>3 DEF Typed, sources, cluster
  <2>5. CoreComesFirst(resources')
    <3>1. \A r \in Range(Served(head)) : r.group # NoGroup
      BY <1>4, <1>5, <1>7
    <3> HIDE DEF W
    <3> QED  BY <1>3, <1>8, <2>1, <3>1, CoreStaysFirst
  <2>6. ReadGroups' = ReadGroups /\ head \in ReadGroups
    BY <1>3, <1>5, <1>7, <1>8 DEF ReadGroups
  <2>7. \A g \in ReadGroups : g \in Range(toRead') \/ ReadWhole(g)'
    BY <1>3, <1>5, <2>2 DEF ReadWhole
  <2>8. \A r \in Range(resources') :
           \E g \in ReadGroups : g \notin Range(toRead') /\ r \in Range(Served(g))
    <3> SUFFICES ASSUME NEW r \in Range(resources')
                 PROVE  \E g \in ReadGroups : g \notin Range(toRead') /\ r \in Range(Served(g))
      OBVIOUS
    <3>1. CASE r \in Range(resources)
      BY <1>3, <1>5, <3>1
    <3>2. CASE r \in Range(Served(head))
      BY <1>6, <2>6, <3>2
    <3> QED  BY <2>2, <3>1, <3>2
  <2>9. \A g \in Range(toRead') : g.name \notin unread'
    BY <1>3, <1>5, <1>8
  <2>10. Enumerating'
    BY <1>1, <2>5, <2>6, <2>7, <2>8, <2>9 DEF Enumerating
  <2> QED  BY <1>1, <2>4, <2>10, HistoryKept, NothingRead, NothingPushed
<1>9. CASE unread' = unread \union {head.name} /\ resources' = resources
  <2>1. Typed'
    <3>1. unread' \subseteq {g.name : g \in Range(api.groups)}
      BY <1>5, <1>9 DEF Typed
    <3> QED  BY <1>1, <1>5, <1>6, <1>9, <3>1 DEF Typed, sources, cluster
  <2>2. ReadGroups' = ReadGroups \ {head}
    BY <1>4, <1>7, <1>9 DEF ReadGroups
  <2>3. \A g \in Range(toRead') : g.name \notin unread'
    BY <1>3, <1>4, <1>5, <1>6, <1>7, <1>9
  <2>4. \A g \in ReadGroups' : g \in Range(toRead') \/ ReadWhole(g)'
    BY <1>3, <1>5, <1>9, <2>2 DEF ReadWhole
  <2>5. \A r \in Range(resources') :
           \E g \in ReadGroups' : g \notin Range(toRead') /\ r \in Range(Served(g))
    BY <1>3, <1>5, <1>9, <2>2
  <2>6. Enumerating'
    BY <1>1, <1>3, <1>9, <2>3, <2>4, <2>5 DEF Enumerating
  <2> QED  BY <1>1, <2>1, <2>6, HistoryKept, NothingRead, NothingPushed
<1> QED  BY <1>1, <1>8, <1>9

LEMMA EnumeratedHolds == RInv /\ Enumerated => RInv'
<1> SUFFICES ASSUME RInv, Enumerated PROVE RInv'
  OBVIOUS
<1> USE DEF RInv
<1> DEFINE kept == Deduped(resources)
           W == Range(resources)
<1>1. /\ pc = "groups" /\ toRead = <<>> /\ pc' = "pack" /\ resources' = kept
      /\ api' = api /\ crds' = crds /\ toRead' = toRead /\ unread' = unread /\ registry' = registry
      /\ UNCHANGED sources /\ UNCHANGED cluster /\ pushed' = pushed
  BY DEF Enumerated
<1>2. api \in Apis /\ resources \in Seq(W) /\ DOMAIN resources = 1..Len(resources)
  BY DEF Typed
<1>3. /\ CoreComesFirst(resources)
      /\ \A g \in ReadGroups : ReadWhole(g)
      /\ \A r \in Range(resources) : \E g \in ReadGroups : r \in Range(Served(g))
  BY <1>1, RangeEmpty DEF Enumerating
<1>4. kept \in Seq(W) /\ KeptOf(kept, resources, Len(resources))
  <2> HIDE DEF W
  <2> QED  BY <1>2, <1>3, DedupedHolds
<1> HIDE DEF kept
<1>5. /\ DOMAIN kept = 1..Len(kept)
      /\ \A i, j \in 1..Len(kept) : kept[i].spec.type = kept[j].spec.type => i = j
      /\ \A i \in 1..Len(kept) : \E p \in 1..Len(resources) : kept[i] = resources[p]
      /\ \A p \in 1..Len(resources) : \E i \in 1..Len(kept) : StandsFor(kept[i], resources[p])
  BY <1>4 DEF KeptOf
<1>6. kept \in Seq(Range(kept))
  <2>1. kept \in [1..Len(kept) -> W] /\ Len(kept) \in Nat
    BY <1>4, LenProperties
  <2>2. \A i \in 1..Len(kept) : kept[i] \in Range(kept)
    BY <1>5 DEF Range
  <2>3. kept \in [1..Len(kept) -> Range(kept)]
    BY <2>1, <2>2
  <2> QED  BY <2>1, <2>3, SeqDef
<1>7. /\ ReadGroups' = ReadGroups /\ \A t : Servers(t)' = Servers(t)
      /\ \A g \in ReadGroups : g \in AllGroups
  BY <1>1 DEF ReadGroups, AllGroups, Servers
<1>8. \A g \in AllGroups : \A r \in Range(Served(g)) : r.group = g.name
  BY <1>2, ApiIs
\* What a readable group serves is stood for by something kept.
<1>9. ASSUME NEW g \in ReadGroups, NEW t \in TypesOf(g)
      PROVE  \E i \in 1..Len(kept) :
                /\ kept[i].spec.type = t
                /\ kept[i].group \in LegacyGroups => g.name \in LegacyGroups
                /\ g.name = NoGroup => kept[i].group = NoGroup
  <2>1. PICK r \in Range(Served(g)) : r.spec.type = t
    BY DEF TypesOf
  <2>2. r \in Range(resources) /\ r.group = g.name
    BY <1>3, <1>7, <1>8 DEF ReadWhole
  <2>3. PICK p \in 1..Len(resources) : resources[p] = r
    BY <1>2, <2>2 DEF Range
  <2>4. PICK i \in 1..Len(kept) : StandsFor(kept[i], r)
    BY <1>5, <2>3
  <2> QED  BY <2>1, <2>2, <2>4 DEF StandsFor
<1>10. \A g \in ReadGroups : \A t \in TypesOf(g) : \E i \in 1..Len(kept) : kept[i].spec.type = t
  BY <1>9
<1>11. ASSUME NEW i \in 1..Len(kept)
       PROVE  LET r == kept[i]
              IN  /\ r.group \in Servers(r.spec.type)
                  /\ r.group \in LegacyGroups => Servers(r.spec.type) \subseteq LegacyGroups
                  /\ NoGroup \in Servers(r.spec.type) => r.group = NoGroup
  <2> DEFINE r == kept[i]
             t == r.spec.type
  <2>1. r \in Range(resources)
    BY <1>2, <1>5 DEF Range
  <2>2. PICK g \in ReadGroups : r \in Range(Served(g))
    BY <1>3, <2>1
  <2>3. r.group = g.name /\ t \in TypesOf(g)
    BY <1>7, <1>8, <2>2 DEF TypesOf
  <2>4. r.group \in Servers(t)
    BY <2>2, <2>3 DEF Servers
  <2>5. ASSUME NEW h \in ReadGroups, t \in TypesOf(h)
        PROVE  /\ r.group \in LegacyGroups => h.name \in LegacyGroups
               /\ h.name = NoGroup => r.group = NoGroup
    <3>1. PICK j \in 1..Len(kept) :
             /\ kept[j].spec.type = t
             /\ kept[j].group \in LegacyGroups => h.name \in LegacyGroups
             /\ h.name = NoGroup => kept[j].group = NoGroup
      BY <1>9, <2>5
    <3>2. j = i
      BY <1>5, <3>1
    <3> QED  BY <3>1, <3>2
  <2> QED  BY <2>4, <2>5 DEF Servers
<1>12. EveryTypeOnce'
  <2>1. \A i, j \in DOMAIN kept : kept[i].spec.type = kept[j].spec.type => i = j
    BY <1>5
  <2>2. \A g \in ReadGroups : \A t \in TypesOf(g) : IsServed(t)'
    BY <1>1, <1>5, <1>10 DEF IsServed
  <2>3. \A r \in Range(kept) :
           /\ r.group \in Servers(r.spec.type)
           /\ r.group \in LegacyGroups => Servers(r.spec.type) \subseteq LegacyGroups
           /\ NoGroup \in Servers(r.spec.type) => r.group = NoGroup
    BY <1>5, <1>11 DEF Range
  <2> QED  BY <1>1, <1>7, <2>1, <2>2, <2>3 DEF EveryTypeOnce
<1>13. Typed'
  BY <1>1, <1>6 DEF Typed, sources, cluster
<1>14. Enumerating'
  BY <1>1, <1>12 DEF Enumerating, EveryTypeOnce
<1> QED  BY <1>1, <1>13, <1>14, HistoryKept, NothingRead, NothingPushed

\* What a pack is built from.
SpecsFound == [i \in DOMAIN resources |-> resources[i].spec]

LEMMA PackIsOf ==
    ASSUME Typed
    PROVE  /\ SpecsFound \in Seq(Range(SpecsFound)) /\ crds \in Seq(Range(crds))
           /\ Range(SpecsFound) = {r.spec : r \in Range(resources)}
<1>1. resources \in Seq(Range(resources)) /\ DOMAIN resources = 1..Len(resources) /\ Len(resources) \in Nat
  BY DEF Typed
<1>2. /\ DOMAIN SpecsFound = 1..Len(resources) /\ \A i \in 1..Len(resources) : SpecsFound[i] = resources[i].spec
      /\ SpecsFound = [i \in 1..Len(resources) |-> SpecsFound[i]]
  BY <1>1 DEF SpecsFound
<1>3. SpecsFound \in [1..Len(resources) -> Range(SpecsFound)]
  BY <1>2 DEF Range
<1>4. SpecsFound \in Seq(Range(SpecsFound))
  BY <1>1, <1>3, SeqDef
<1>5. Range(SpecsFound) = {r.spec : r \in Range(resources)}
  BY <1>1, <1>2 DEF Range
<1>6. crds \in Seq(Range(crds))
  <2>1. CASE crds \in api.crds
    BY <2>1, ApisAssumption DEF Typed
  <2>2. CASE crds = <<>>
    BY <2>2
  <2> QED  BY <2>1, <2>2 DEF Typed
<1> QED  BY <1>4, <1>5, <1>6

LEMMA PutPackHolds == RInv /\ PutPack => RInv'
<1> SUFFICES ASSUME RInv, PutPack PROVE RInv'
  OBVIOUS
<1> USE DEF RInv
<1> DEFINE specs == SpecsFound
           additive == AdditiveTypes(specs, crds)
<1>1. /\ pc = "pack" /\ api' = api /\ crds' = crds /\ toRead' = toRead /\ resources' = resources
      /\ unread' = unread /\ unavailable' = unavailable /\ read' = read /\ UNCHANGED cluster /\ pushed' = pushed
      /\ \/ registry' = Registered(registry, additive) /\ sourceTodo' = Sources /\ pc' = "sources"
         \/ pc' = "failed" /\ registry' = registry /\ sourceTodo' = sourceTodo
  BY DEF PutPack, SpecsFound
<1>2. Enumerating'
  <2>1. \A g \in ReadGroups : \A t \in TypesOf(g) : IsServed(t)
    BY <1>1 DEF Enumerating
  <2>2. pc' \in {"failed", "sources"} /\ ReadGroups' = ReadGroups /\ \A t : IsServed(t)' <=> IsServed(t)
    BY <1>1 DEF ReadGroups, AllGroups, IsServed
  <2> QED  BY <2>1, <2>2 DEF Enumerating
<1>3. CASE registry' = Registered(registry, additive) /\ sourceTodo' = Sources /\ pc' = "sources"
  <2>1. additive \in Seq(Range(additive))
    <3>1. specs \in Seq(Range(specs)) /\ crds \in Seq(Range(crds))
      BY PackIsOf
    <3> HIDE DEF specs
    <3> QED  BY <3>1, AdditiveTypesAre
  <2>2. TypesDiffer(registry')
    <3>1. TypesDiffer(registry)
      BY DEF Typed
    <3> HIDE DEF additive
    <3> QED  BY <1>3, <2>1, <3>1, RegisteredIs
  <2>3. sourceTodo' \in Seq(Range(Sources)) /\ Rest(sourceTodo', Sources)
    BY <1>3, SourcesAre DEF Rest
  <2>4. Typed'
    BY <1>1, <1>3, <2>2, <2>3 DEF Typed, cluster
  <2>5. Reading'
    BY <1>1, <1>3 DEF Reading, cluster, OfType
  <2> QED  BY <1>1, <1>2, <2>4, <2>5, HistoryKept, NothingPushed
<1>4. CASE pc' = "failed" /\ registry' = registry /\ sourceTodo' = sourceTodo
  <2>1. Typed'
    BY <1>1, <1>4 DEF Typed, cluster
  <2>2. Reading'
    BY <1>1, <1>4, NothingRead DEF sources
  <2> QED  BY <1>1, <1>2, <2>1, <2>2, HistoryKept, NothingPushed
<1> QED  BY <1>1, <1>3, <1>4

LEMMA ReadSourceHolds == RInv /\ ReadSource => RInv'
<1> SUFFICES ASSUME RInv, ReadSource PROVE RInv'
  OBVIOUS
<1> USE DEF RInv
<1> DEFINE head == Head(sourceTodo)
<1>1. /\ pc = "sources" /\ pc' = pc /\ sourceTodo # <<>> /\ sourceTodo' = Tail(sourceTodo)
      /\ UNCHANGED enumeration /\ UNCHANGED cluster /\ pushed' = pushed
      /\ \/ ~IsServed(head) /\ read' = read /\ unavailable' = unavailable
         \/ /\ IsServed(head)
            /\ read' = [read EXCEPT ![head] = {o \in live : o.type = head}] /\ unavailable' = unavailable
         \/ IsServed(head) /\ unavailable' = unavailable \union {head} /\ read' = read
  BY DEF ReadSource
<1>2. /\ sourceTodo \in Seq(Range(Sources)) /\ Rest(sourceTodo, Sources)
      /\ unavailable \subseteq Range(Sources) /\ read \in [Range(Sources) -> SUBSET Objs]
  BY DEF Typed
<1>3. /\ head \in Range(Sources) /\ sourceTodo' \in Seq(Range(Sources))
      /\ Range(sourceTodo) = {head} \union Range(sourceTodo')
  BY <1>1, <1>2, RangeTail
<1>4. Rest(sourceTodo', Sources) /\ head \notin Range(sourceTodo')
  <2>1. Sources \in Seq(Range(Sources)) /\ \A i, j \in 1..Len(Sources) : Sources[i] = Sources[j] => i = j
    BY SourcesAre
  <2>2. Rest(Tail(sourceTodo), Sources) /\ Head(sourceTodo) \notin Range(Tail(sourceTodo))
    BY <1>1, <1>2, <2>1, RestOfTail
  <2> QED  BY <1>1, <2>2
<1>5. Range(sourceTodo') \subseteq Range(Sources)
  BY <1>3, RangeType
<1> HIDE DEF head
<1>6. run.steady \subseteq live /\ live \subseteq run.ever /\ live \subseteq Objs /\ run' = run
  BY <1>1 DEF History, cluster
<1>7. /\ \A t \in Range(sourceTodo) : t \notin unavailable /\ read[t] = {}
      /\ \A t \in Range(Sources) : read[t] \subseteq OfType(t, run.ever)
      /\ \A t \in unavailable : read[t] = {}
      /\ \A t \in Range(Sources) : \/ t \in Range(sourceTodo) \/ t \in unavailable \/ ~IsServed(t)
                                   \/ OfType(t, run.steady) \subseteq read[t]
  BY <1>1 DEF Reading
<1>8. /\ read' \in [Range(Sources) -> SUBSET Objs] /\ unavailable' \subseteq Range(Sources)
      /\ \A t \in Range(Sources) : t # head => read'[t] = read[t] /\ (t \in unavailable' <=> t \in unavailable)
  <2>1. {o \in live : o.type = head} \in SUBSET Objs
    BY <1>6
  <2> QED  BY <1>1, <1>2, <1>3, <2>1
<1>9. /\ read'[head] \subseteq OfType(head, run.ever) /\ (head \in unavailable' => read'[head] = {})
      /\ head \in unavailable' \/ ~IsServed(head) \/ OfType(head, run.steady) \subseteq read'[head]
  <2>1. head \notin unavailable /\ read[head] = {}
    BY <1>3, <1>7
  <2>2. CASE read' = read /\ unavailable' = unavailable /\ ~IsServed(head)
    BY <2>1, <2>2
  <2>3. CASE read' = [read EXCEPT ![head] = {o \in live : o.type = head}] /\ unavailable' = unavailable
    <3>1. read'[head] = {o \in live : o.type = head}
      BY <1>2, <1>3, <2>3
    <3> QED  BY <1>6, <2>1, <2>3, <3>1 DEF OfType
  <2>4. CASE unavailable' = unavailable \union {head} /\ read' = read
    BY <2>1, <2>4
  <2> QED  BY <1>1, <2>2, <2>3, <2>4
<1>10. \A t : IsServed(t)' <=> IsServed(t)
  BY <1>1 DEF IsServed, enumeration
<1>11. Typed'
  BY <1>1, <1>3, <1>4, <1>8 DEF Typed, enumeration, cluster
<1>12. Reading'
  <2>1. \A t \in Range(sourceTodo') : t \notin unavailable' /\ read'[t] = {}
    BY <1>3, <1>4, <1>5, <1>7, <1>8
  <2>2. \A t \in Range(Sources) : read'[t] \subseteq OfType(t, run.ever)
    BY <1>7, <1>8, <1>9
  <2>3. \A t \in unavailable' : read'[t] = {}
    BY <1>7, <1>8, <1>9
  <2>4. \A t \in Range(Sources) : \/ t \in Range(sourceTodo') \/ t \in unavailable' \/ ~IsServed(t)
                                  \/ OfType(t, run.steady) \subseteq read'[t]
    BY <1>3, <1>7, <1>8, <1>9
  <2> QED  BY <1>1, <1>6, <1>10, <2>1, <2>2, <2>3, <2>4 DEF Reading
<1> QED  BY <1>1, <1>11, <1>12, EnumerationKept, HistoryKept, NothingPushed DEF enumeration

LEMMA SourcesReadHolds == RInv /\ SourcesRead => RInv'
<1> SUFFICES ASSUME RInv, SourcesRead PROVE RInv'
  OBVIOUS
<1> USE DEF RInv
<1>1. /\ pc = "sources" /\ sourceTodo = <<>> /\ pc' = "push"
      /\ UNCHANGED enumeration /\ UNCHANGED sources /\ UNCHANGED cluster /\ pushed' = pushed
  BY DEF SourcesRead
<1>2. Typed'
  BY <1>1 DEF Typed, enumeration, sources, cluster
<1>3. ReadGroups' = ReadGroups /\ \A t : IsServed(t)' <=> IsServed(t)
  BY <1>1 DEF ReadGroups, AllGroups, IsServed, enumeration
<1>4. Enumerating'
  BY <1>1, <1>3 DEF Enumerating
<1>5. Reading'
  BY <1>1, <1>3 DEF Reading, sources, cluster, OfType
<1> QED  BY <1>1, <1>2, <1>4, <1>5, HistoryKept, NothingPushed DEF enumeration

LEMMA PushHolds ==
    ASSUME RInv, NEW x, Push(x)
    PROVE  RInv'
<1> USE DEF RInv
<1>1. /\ pc = "push" /\ pc' = pc /\ x \in live
      /\ \E r \in Range(resources) :
            pushed' = pushed \union {[item |-> x, chain |-> ChainOf(r.spec), rollups |-> RollupsFor(x)]}
      /\ UNCHANGED enumeration /\ UNCHANGED sources /\ UNCHANGED cluster
  BY DEF Push
<1>2. Typed'
  BY <1>1 DEF Typed, enumeration, sources, cluster
<1>3. \A t : IsServed(t)' <=> IsServed(t)
  BY <1>1 DEF IsServed, enumeration
<1>4. Reading'
  BY <1>1, <1>3 DEF Reading, sources, cluster, OfType
<1>5. \A y : RollupsFor(y)' = RollupsFor(y)
  BY <1>1 DEF RollupsFor, Available, sources
<1>6. Pushing'
  <2>1. x \in Objs
    BY <1>1 DEF History
  <2>2. PICK r \in Range(resources) :
           pushed' = pushed \union {[item |-> x, chain |-> ChainOf(r.spec), rollups |-> RollupsFor(x)]}
    BY <1>1
  <2> QED  BY <1>1, <1>5, <2>1, <2>2 DEF Pushing
<1> QED  BY <1>1, <1>2, <1>4, <1>6, EnumerationKept, HistoryKept DEF enumeration

\* The cluster may change under any step of the run.
LEMMA ChangeHolds ==
    ASSUME RInv, NEW S, Change(S), S \subseteq Objs, \A o \in S : o \in live \/ Exists(o)
    PROVE  RInv'
<1> USE DEF RInv
<1>1. /\ changes < MaxChanges /\ changes' = changes + 1 /\ live' = S
      /\ run' = [steady |-> run.steady \intersect S, ever |-> run.ever \union S]
      /\ pc' = pc /\ UNCHANGED enumeration /\ UNCHANGED sources /\ pushed' = pushed
  BY DEF Change
<1>2. Typed'
  <2>1. changes' \in 0..MaxChanges
    BY <1>1, BoundsAssumption DEF Typed
  <2> QED  BY <1>1, <2>1 DEF Typed, enumeration, sources
<1>3. History'
  <2>1. \A o : Exists(o)' <=> Exists(o)
    BY <1>1 DEF Exists, AllGroups, enumeration
  <2>2. run'.steady = run.steady \intersect S /\ run'.ever = run.ever \union S
    BY <1>1
  <2> QED  BY <1>1, <2>1, <2>2 DEF History
<1>4. \A t : IsServed(t)' <=> IsServed(t)
  BY <1>1 DEF IsServed, enumeration
<1>5. Reading'
  <2>1. run'.steady \subseteq run.steady /\ run.ever \subseteq run'.ever
    BY <1>1
  <2>2. \A t : OfType(t, run'.steady) \subseteq OfType(t, run.steady) /\ OfType(t, run.ever) \subseteq OfType(t, run'.ever)
    BY <2>1 DEF OfType
  <2>3. /\ \A t \in Range(Sources) : read[t] \subseteq OfType(t, run'.ever)
        /\ pc \in {"sources", "push"} =>
              \A t \in Range(Sources) : \/ t \in Range(sourceTodo) \/ t \in unavailable \/ ~IsServed(t)
                                        \/ OfType(t, run'.steady) \subseteq read[t]
    BY <2>2 DEF Reading
  <2> QED  BY <1>1, <1>4, <2>3 DEF Reading, sources
<1>6. Pushing'
  <2>1. \A y : RollupsFor(y)' = RollupsFor(y)
    BY <1>1 DEF RollupsFor, Available, sources
  <2> QED  BY <1>1, <2>1 DEF Pushing
<1> QED  BY <1>1, <1>2, <1>3, <1>5, <1>6, EnumerationKept

LEMMA NextHolds == RInv /\ [Next]_vars => RInv'
<1> SUFFICES ASSUME RInv, [Next]_vars PROVE RInv'
  OBVIOUS
<1>1. CASE ReadCrds
  BY <1>1, ReadCrdsHolds
<1>2. CASE ReadCore
  BY <1>2, ReadCoreHolds
<1>3. CASE ReadGroup
  BY <1>3, ReadGroupHolds
<1>4. CASE Enumerated
  BY <1>4, EnumeratedHolds
<1>5. CASE PutPack
  BY <1>5, PutPackHolds
<1>6. CASE ReadSource
  BY <1>6, ReadSourceHolds
<1>7. CASE SourcesRead
  BY <1>7, SourcesReadHolds
<1>8. ASSUME NEW x \in Objs, Push(x) PROVE RInv'
  BY <1>8, PushHolds
<1>9. ASSUME NEW x \in Objs, Create(x) PROVE RInv'
  <2>1. Change(live \union {x}) /\ Exists(x) /\ live \union {x} \subseteq Objs
    BY <1>9 DEF Create, RInv, History
  <2> QED  BY <2>1, ChangeHolds
<1>10. ASSUME NEW x \in Objs, Delete(x) PROVE RInv'
  <2>1. Change(live \ {x}) /\ live \ {x} \subseteq Objs
    BY <1>10 DEF Delete, RInv, History
  <2> QED  BY <2>1, ChangeHolds
<1>11. CASE UNCHANGED vars
  <2> USE DEF RInv
  <2>1. pc' = pc /\ UNCHANGED enumeration /\ UNCHANGED sources /\ pushed' = pushed /\ UNCHANGED cluster
    BY <1>11 DEF vars
  <2>2. Typed'
    BY <2>1 DEF Typed, enumeration, sources, cluster
  <2>3. \A t : IsServed(t)' <=> IsServed(t)
    BY <2>1 DEF IsServed, enumeration
  <2>4. Reading'
    BY <2>1, <2>3 DEF Reading, sources, cluster, OfType
  <2>5. \A y : RollupsFor(y)' = RollupsFor(y)
    BY <2>1 DEF RollupsFor, Available, sources
  <2>6. Pushing'
    BY <2>1, <2>5 DEF Pushing
  <2> QED  BY <2>1, <2>2, <2>4, <2>6, EnumerationKept, HistoryKept DEF enumeration
<1> QED  BY <1>1, <1>2, <1>3, <1>4, <1>5, <1>6, <1>7, <1>8, <1>9, <1>10, <1>11 DEF Next

LEMMA InvariantHolds == Spec => []RInv
BY InitHolds, NextHolds, PTL DEF Spec

-----------------------------------------------------------------------------
(* What follows.                                                           *)

\* TypeOK: an enumeration only gets on, takes no group and no source twice,
\* registers no type twice, has nothing of a source it could not read, and
\* pushes no facet that the type of the item does not have.
THEOREM TypeCorrect == Spec => []TypeOK
<1>1. ASSUME RInv PROVE TypeOK
  <2> USE DEF RInv
  <2>1. api \in Apis /\ toRead \in Seq(Range(api.groups)) /\ Rest(toRead, api.groups)
    BY <1>1 DEF Typed
  <2>2. sourceTodo \in Seq(Range(Sources)) /\ Rest(sourceTodo, Sources)
    BY <1>1 DEF Typed
  <2>3. IsSuffix(toRead, api.groups)
    <3>1. api.groups \in Seq(Range(api.groups))
      BY <2>1, ApiIs
    <3> QED  BY <2>1, <3>1, RestIs
  <2>4. IsSuffix(sourceTodo, Sources)
    <3>1. Sources \in Seq(Range(Sources))
      BY SourcesAre
    <3> QED  BY <2>2, <3>1, RestIs
  <2>5. \A r \in registry \ BuiltinSpecs, s \in registry : r.type = s.type => r = s
    BY <1>1 DEF Typed, TypesDiffer
  <2>6. \A t \in Range(Sources) : read[t] \subseteq Objs /\ (t \in unavailable => read[t] = {})
    BY <1>1 DEF Typed, Reading
  <2>7. \A p \in pushed : DOMAIN p.rollups \subseteq FacetsOf(p.item.type)
    BY <1>1 DEF Pushing, RollupsFor
  <2>8. live \subseteq Objs
    BY <1>1 DEF History
  <2>9. /\ pc \in {"crds", "core", "groups", "pack", "sources", "push", "failed"}
        /\ crds \in api.crds \union {<<>>} /\ changes \in 0..MaxChanges
        /\ unread \subseteq {g.name : g \in Range(api.groups)} /\ unavailable \subseteq Range(Sources)
    BY <1>1 DEF Typed
  <2> QED  BY <2>1, <2>3, <2>4, <2>5, <2>6, <2>7, <2>8, <2>9 DEF TypeOK
<1> QED  BY <1>1, InvariantHolds, PTL

\* EveryTypeOnce: whichever groups can be read, _dedupe_by_type leaves every
\* type they serve, once, from the core group if that serves it and from a
\* legacy group only if no other does.
THEOREM EveryTypeIsOnce == Spec => []EveryTypeOnce
<1>1. ASSUME RInv PROVE EveryTypeOnce
  BY <1>1 DEF RInv, Enumerating, EveryTypeOnce
<1> QED  BY <1>1, InvariantHolds, PTL

\* Knowing more pods and ReplicaSets finds more pods of a workload, and loses
\* none: no ReplicaSet has the uid of a workload.
LEMMA PodsGrow ==
    ASSUME NEW S \in SUBSET Objs, NEW T \in SUBSET Objs,
           OfType("pod", S) \subseteq T, OfType("replicaset", S) \subseteq T,
           NEW x \in Objs, x.type \in Workloads
    PROVE  PodsOf(x, S) \subseteq PodsOf(x, T)
<1> SUFFICES ASSUME NEW o \in PodsOf(x, S) PROVE o \in PodsOf(x, T)
  OBVIOUS
<1>1. o \in S /\ o.type = "pod" /\ o.of # NoUid /\ WorkloadOf(o, S) = x.uid
  BY DEF PodsOf
<1>2. o \in T
  BY <1>1 DEF OfType
<1> DEFINE RsIn(U) == {r \in U : r.type = "replicaset" /\ r.uid = o.of /\ r.of # NoUid}
<1>3. RsIn(S) \subseteq RsIn(T)
  BY DEF OfType
<1>4. \A r, s \in RsIn(T) : r = s
  BY ObjsAssumption
<1>5. x.type # "replicaset"
  BY DEF Workloads
<1>6. CASE RsIn(S) # {}
  <2>1. RsIn(S) = RsIn(T)
    BY <1>3, <1>4, <1>6
  <2> QED  BY <1>1, <1>2, <2>1 DEF PodsOf, WorkloadOf
<1>7. CASE RsIn(S) = {}
  <2>1. o.of = x.uid
    BY <1>1, <1>7 DEF WorkloadOf
  <2>2. RsIn(T) = {}
    BY <1>5, <2>1, ObjsAssumption
  <2>3. WorkloadOf(o, T) = o.of
    BY <2>2 DEF WorkloadOf
  <2> QED  BY <1>1, <1>2, <2>1, <2>3 DEF PodsOf
<1> QED  BY <1>6, <1>7

LEMMA EventsGrow ==
    ASSUME NEW S, NEW T, OfType("event", S) \subseteq T, NEW U, NEW V, U \subseteq V
    PROVE  EventsOf(U, S) \subseteq EventsOf(V, T)
BY DEF EventsOf, OfType

\* A facet of what is known, by the sources it requires.
LEMMA ValueGrows ==
    ASSUME NEW S \in SUBSET Objs, NEW T \in SUBSET Objs, NEW x \in Objs, NEW facet \in FacetsOf(x.type),
           \A t \in Required[facet] : OfType(t, S) \subseteq T,
           facet = "k8sEvents" =>
               OfType("pod", S) \subseteq T /\ OfType("replicaset", S) \subseteq T
    PROVE  Value(facet, x, S) \subseteq Value(facet, x, T)
<1>1. /\ facet \in {"k8sPods", "k8sServiceEndpoints", "k8sCronJobRuns", "k8sEvents"}
      /\ facet = "k8sPods" => x.type \in Workloads
  BY DEF FacetsOf
<1>2. CASE facet = "k8sPods"
  <2>1. OfType("pod", S) \subseteq T /\ OfType("replicaset", S) \subseteq T
    BY <1>2 DEF Required
  <2> QED  BY <1>1, <1>2, <2>1, PodsGrow DEF Value
<1>3. CASE facet = "k8sServiceEndpoints"
  <2>1. OfType("endpointslice", S) \subseteq T
    BY <1>3 DEF Required
  <2> QED  BY <1>3, <2>1 DEF Value, OfType
<1>4. CASE facet = "k8sCronJobRuns"
  <2>1. OfType("job", S) \subseteq T
    BY <1>4 DEF Required
  <2> QED  BY <1>4, <2>1 DEF Value, OfType
<1>5. CASE facet = "k8sEvents"
  <2> DEFINE U(K) == {x.uid} \union (IF x.type \in Workloads THEN {p.uid : p \in PodsOf(x, K)} ELSE {})
  <2>1. OfType("event", S) \subseteq T
    BY <1>5 DEF Required
  <2>2. U(S) \subseteq U(T)
    <3>1. CASE x.type \in Workloads
      <4>1. PodsOf(x, S) \subseteq PodsOf(x, T)
        BY <1>5, <3>1, PodsGrow
      <4> QED  BY <3>1, <4>1
    <3>2. CASE x.type \notin Workloads
      BY <3>2
    <3> QED  BY <3>1, <3>2
  <2>3. Value(facet, x, S) = EventsOf(U(S), S) /\ Value(facet, x, T) = EventsOf(U(T), T)
    BY <1>5 DEF Value
  <2> HIDE DEF U
  <2> QED  BY <2>1, <2>2, <2>3, EventsGrow
<1> QED  BY <1>1, <1>2, <1>3, <1>4, <1>5

\* ReadRollupsAreTruthful: whatever cannot be read and however the cluster
\* changes meanwhile, a rollup leaves out nothing of its item that was there
\* throughout the run and counts nothing that never was, unless a source type
\* is served only by groups that could not be read.
THEOREM ReadRollupsHold == Spec => []ReadRollupsAreTruthful
<1>1. ASSUME RInv PROVE ReadRollupsAreTruthful
  <2> USE DEF RInv
  <2> SUFFICES ASSUME \A t \in Range(Sources) : Servers(t) = {} => \A g \in AllGroups : t \notin TypesOf(g),
                      NEW p \in pushed, NEW facet \in DOMAIN p.rollups
               PROVE  Truthful(p, facet)
    BY DEF ReadRollupsAreTruthful, RollupsAreTruthful
  <2> DEFINE x == p.item
             R == UNION {read[t] : t \in Range(Sources)}
  <2>1. pc = "push" /\ x \in Objs /\ p.rollups = RollupsFor(x)
    BY <1>1 DEF Pushing
  <2>2. facet \in FacetsOf(x.type) /\ Available(facet) /\ p.rollups[facet] = Value(facet, x, R)
    BY <2>1 DEF RollupsFor
  <2>3. run.steady \in SUBSET Objs /\ run.ever \in SUBSET Objs /\ \A o \in run.steady : Exists(o)
    BY <1>1 DEF History
  <2>4. R \in SUBSET Objs /\ R \subseteq run.ever
    BY <1>1 DEF Typed, Reading, OfType
  \* What was there throughout is read, if its type could be listed.
  <2>5. ASSUME NEW t \in Range(Sources), t \notin unavailable
        PROVE  OfType(t, run.steady) \subseteq R
    <3>1. t \notin Range(sourceTodo)
      BY <1>1, <2>1, RangeEmpty DEF Reading
    <3>2. ~IsServed(t) \/ OfType(t, run.steady) \subseteq read[t]
      BY <1>1, <2>1, <2>5, <3>1 DEF Reading
    <3>3. CASE ~IsServed(t)
      <4>1. \A g \in ReadGroups : t \notin TypesOf(g)
        BY <1>1, <2>1, <3>3 DEF Enumerating
      <4>2. Servers(t) = {}
        BY <4>1 DEF Servers
      <4>3. \A g \in AllGroups : t \notin TypesOf(g)
        BY <4>2
      <4>4. OfType(t, run.steady) = {}
        BY <2>3, <4>3 DEF OfType, Exists
      <4> QED  BY <4>4
    <3> QED  BY <3>2, <3>3
  <2>6. Required[facet] \subseteq Range(Sources) /\ Required[facet] \intersect unavailable = {}
    <3>1. facet \in {"k8sPods", "k8sServiceEndpoints", "k8sCronJobRuns", "k8sEvents"}
      BY <2>2 DEF FacetsOf
    <3>2. Range(Sources) = {"pod", "replicaset", "endpointslice", "job", "event"}
      BY SourcesAre
    <3> QED  BY <2>2, <3>1, <3>2 DEF Required, Available
  <2>7. \A t \in Required[facet] : OfType(t, run.steady) \subseteq R
    BY <2>5, <2>6
  <2> HIDE DEF R
  <2>8. Value(facet, x, R) \subseteq Value(facet, x, run.ever)
    <3>1. \A t : OfType(t, R) \subseteq run.ever
      BY <2>4 DEF OfType
    <3> QED  BY <2>1, <2>2, <2>3, <2>4, <3>1, ValueGrows
  <2>9. Owed(facet, x) \subseteq Value(facet, x, R)
    <3>1. CASE facet = "k8sEvents" /\ {"pod", "replicaset"} \intersect unavailable # {}
      <4> DEFINE U == {x.uid} \union (IF x.type \in Workloads THEN {q.uid : q \in PodsOf(x, R)} ELSE {})
      <4>1. Owed(facet, x) = EventsOf({x.uid}, run.steady) /\ Value(facet, x, R) = EventsOf(U, R)
        BY <3>1 DEF Owed, Value
      <4>2. OfType("event", run.steady) \subseteq R
        BY <2>7, <3>1 DEF Required
      <4>3. {x.uid} \subseteq U
        OBVIOUS
      <4> HIDE DEF U
      <4> QED  BY <4>1, <4>2, <4>3, EventsGrow
    <3>2. CASE facet = "k8sEvents" /\ {"pod", "replicaset"} \intersect unavailable = {}
      <4>1. OfType("pod", run.steady) \subseteq R /\ OfType("replicaset", run.steady) \subseteq R
        BY <2>5, <3>2, SourcesAre
      <4>2. Owed(facet, x) = Value(facet, x, run.steady)
        BY <3>2 DEF Owed
      <4> QED  BY <2>1, <2>2, <2>3, <2>4, <2>7, <4>1, <4>2, ValueGrows
    <3>3. CASE facet # "k8sEvents"
      <4>1. Owed(facet, x) = Value(facet, x, run.steady)
        BY <3>3 DEF Owed
      <4> QED  BY <2>1, <2>2, <2>3, <2>4, <2>7, <3>3, <4>1, ValueGrows
    <3> QED  BY <3>1, <3>2, <3>3
  <2> QED  BY <2>2, <2>8, <2>9 DEF Truthful
<1> QED  BY <1>1, InvariantHolds, PTL

-----------------------------------------------------------------------------
(* What a pack registers, and the chains that are pushed.                  *)

FromApi == \A r \in Range(resources) : \E g \in AllGroups : r \in Range(Served(g))
TypesOnce == \A r, s \in Range(resources) : r.spec.type = s.spec.type => r.spec = s.spec
RegisteredOrDisputed == \A r \in Range(resources) : r.spec \in registry \/ Disputed(r.spec)

\* The registry is what it was until the pack is put; from then on it has the
\* static types and every type enumerated, unless that is disputed; and a
\* chain is the one of a type enumerated.
Registering ==
    /\ pc \in {"crds", "core", "groups", "pack"} => registry = api.registry
    /\ pc \in {"pack", "sources", "push"} => FromApi /\ TypesOnce
    /\ pc \in {"sources", "push"} => BuiltinSpecs \subseteq registry /\ RegisteredOrDisputed
    /\ \A p \in pushed : \E r \in Range(resources) : r.spec.type = p.item.type /\ p.chain = ChainOf(r.spec)

\* What is enumerated and neither static nor disputed is among the types a
\* pack adds, and nothing that is registered or added stands in its way.
LEMMA PackRegisters ==
    ASSUME Typed, registry = api.registry, FromApi, TypesOnce
    PROVE  LET after == Registered(registry, AdditiveTypes(SpecsFound, crds))
           IN  /\ BuiltinSpecs \subseteq after
               /\ \A r \in Range(resources) : r.spec \in after \/ Disputed(r.spec)
<1> DEFINE all == AdditiveTypes(SpecsFound, crds)
           after == Registered(registry, all)
           Claimed == {CrdSpec(c) : c \in Range(crds)}
<1>1. Range(SpecsFound) = {r.spec : r \in Range(resources)}
  BY PackIsOf
<1>2. /\ all \in Seq(Range(all)) /\ Range(all) \subseteq Claimed \union Range(SpecsFound)
      /\ Claimed \subseteq Range(all)
      /\ \A s \in Range(SpecsFound) : s.type \in Covered(crds) \/ s \in Range(all)
  <2>1. SpecsFound \in Seq(Range(SpecsFound)) /\ crds \in Seq(Range(crds))
    BY PackIsOf
  <2> QED  BY <2>1, AdditiveTypesAre
<1> HIDE DEF all
<1>3. /\ BuiltinSpecs \subseteq after
      /\ \A s \in Range(all) : s \in after \/ Conflicts(registry \union BuiltinSpecs \union Range(all), s)
  BY <1>2, RegisteredIs DEF Typed
<1> HIDE DEF after
<1>4. ASSUME NEW r \in Range(resources), r.spec \notin BuiltinSpecs, ~Disputed(r.spec)
      PROVE  r.spec \in after
  <2> DEFINE s == r.spec
  <2>1. \A q \in api.registry \union Claimed : q = s \/ (q.type # s.type /\ q.plural # s.plural)
    BY <1>4 DEF Disputed, Conflicts
  <2>2. \A q \in Range(SpecsFound) : q \in ServedSpecs(api)
    BY <1>1 DEF FromApi, ServedSpecs, AllGroups
  <2>3. s \in Range(SpecsFound)
    BY <1>1
  <2>4. /\ \A q \in BuiltinSpecs : q = s \/ (q.type # s.type /\ q.plural # s.plural)
        /\ \A q \in ServedSpecs(api) : q.plural = s.plural => q.type = s.type
    <3>1. api \in Apis /\ s \in ServedSpecs(api) \ BuiltinSpecs
      BY <1>4, <2>2, <2>3 DEF Typed
    <3> QED  BY <3>1, NamesAssumption DEF Conflicts
  <2>5. \A q \in Range(SpecsFound) : q.type = s.type => q = s
    BY <1>1 DEF TypesOnce
  <2>6. s \in Range(all)
    <3>1. CASE s.type \in Covered(crds)
      <4>1. PICK q \in BuiltinSpecs \union Claimed : q.type = s.type
        BY <3>1 DEF Covered
      <4>2. q \in Claimed /\ q = s
        BY <1>4, <2>1, <2>4, <4>1
      <4> QED  BY <1>2, <4>2
    <3> QED  BY <1>2, <2>3, <3>1
  <2> HIDE DEF s, Claimed
  <2>7. ~Conflicts(registry \union BuiltinSpecs \union Range(all), s)
    <3>1. \A q \in Range(SpecsFound) : q = s \/ (q.type # s.type /\ q.plural # s.plural)
      BY <2>2, <2>4, <2>5
    <3> QED  BY <1>2, <2>1, <2>4, <3>1 DEF Conflicts
  <2>8. s \in after
    BY <1>3, <2>6, <2>7
  <2> QED  BY <2>8 DEF s
<1> QED  BY <1>3, <1>4 DEF after, all

\* A type that is enumerated is in a namespace or in the cluster.
LEMMA BuiltinParents == \A d \in Builtins : d.spec.parent \in {"namespace", "cluster"}
BY SMTT(120) DEF Builtins, TypeSpec, Def, Namespaced, ClusterScoped, Ephemeral

LEMMA ParentIs ==
    ASSUME api \in Apis, FromApi, NEW r \in Range(resources)
    PROVE  r.spec.parent \in {"namespace", "cluster"}
<1>1. PICK g \in AllGroups : r \in Range(Served(g))
  BY DEF FromApi
<1>2. g.kinds \in Seq(Range(g.kinds))
  BY ApisAssumption DEF AllGroups, CoreGroup
<1>3. PICK k \in Range(g.kinds) : r = Resource(g, k)
  BY <1>1, <1>2, ServedType
<1>4. r.spec = ResolveType(g.name, k.kind, k.plural, k.namespaced)
  BY <1>3 DEF Resource
<1>5. CASE g.name = NoGroup /\ k.kind = "Namespace"
  BY <1>4, <1>5 DEF ResolveType, Namespace, TypeSpec
<1>6. CASE ~(g.name = NoGroup /\ k.kind = "Namespace") /\ InTable(g.name, k.kind) # {}
  <2> DEFINE d == CHOOSE d \in InTable(g.name, k.kind) : TRUE
  <2>1. d \in InTable(g.name, k.kind)
    BY <1>6
  <2>2. r.spec = d.spec
    BY <1>4, <1>6 DEF ResolveType
  <2>3. d \in Builtins
    BY <2>1 DEF InTable
  <2> HIDE DEF d
  <2> QED  BY <2>2, <2>3, BuiltinParents
<1>7. CASE ~(g.name = NoGroup /\ k.kind = "Namespace") /\ InTable(g.name, k.kind) = {}
  <2>1. r.spec = FallbackSpec(g.name, k.kind, k.plural, k.namespaced)
    BY <1>4, <1>7 DEF ResolveType
  <2> QED  BY <2>1 DEF FallbackSpec, TypeSpec
<1> QED  BY <1>5, <1>6, <1>7

\* A chain written out.
LEMMA Joined ==
    ASSUME NEW S, NEW a \in S, NEW b \in S, NEW c \in S
    PROVE  /\ <<a>> \o <<>> \o <<b>> = <<a, b>>
           /\ <<a>> \o <<b>> \o <<c>> = <<a, b, c>>
<1>1. <<a>> \in Seq(S) /\ <<b>> \in Seq(S) /\ <<c>> \in Seq(S) /\ <<a, b>> \in Seq(S)
  OBVIOUS
<1>2. <<a>> \o <<>> = <<a>>
  OBVIOUS
<1>3. <<a>> \o <<b>> = <<a, b>>
  <2> DEFINE s == <<a>> \o <<b>>
             u == <<a, b>>
  <2>1. s \in Seq(S) /\ Len(s) = 2 /\ s[1] = a /\ s[2] = b
    BY <1>1, ConcatProperties
  <2>2. Len(u) = 2 /\ u[1] = a /\ u[2] = b
    OBVIOUS
  <2> HIDE DEF s, u
  <2>3. \A i \in 1..2 : i = 1 \/ i = 2
    OBVIOUS
  <2>4. u \in Seq(S)
    BY <1>1 DEF u
  <2>5. s = u
    BY <2>1, <2>2, <2>3, <2>4, SeqEqual
  <2> QED  BY <2>5 DEF s, u
<1>4. <<a, b>> \o <<c>> = <<a, b, c>>
  <2> DEFINE s == <<a, b>> \o <<c>>
             u == <<a, b, c>>
  <2>1. s \in Seq(S) /\ Len(s) = 3 /\ s[1] = a /\ s[2] = b /\ s[3] = c
    BY <1>1, ConcatProperties
  <2>2. u \in Seq(S) /\ Len(u) = 3 /\ u[1] = a /\ u[2] = b /\ u[3] = c
    OBVIOUS
  <2> HIDE DEF s, u
  <2>3. \A i \in 1..3 : i = 1 \/ i = 2 \/ i = 3
    OBVIOUS
  <2>4. s = u
    BY <2>1, <2>2, <2>3, SeqEqual
  <2> QED  BY <2>4 DEF s, u
<1> QED  BY <1>2, <1>3, <1>4

LEMMA JoinedTwo == \A t : <<"cluster">> \o <<>> \o <<t>> = <<"cluster", t>>
<1> TAKE t
<1> DEFINE S == {"cluster", t}
<1> QED  BY "cluster" \in S, t \in S, Joined

LEMMA JoinedThree == \A t : <<"cluster">> \o <<"namespace">> \o <<t>> = <<"cluster", "namespace", t>>
<1> TAKE t
<1> DEFINE S == {"cluster", "namespace", t}
<1> QED  BY "cluster" \in S, "namespace" \in S, t \in S, Joined

\* The chain of a registered type is taken, where the static types are.
LEMMA ChainIsTaken ==
    ASSUME NEW reg, BuiltinSpecs \subseteq reg, NEW s \in reg, s.parent \in {"namespace", "cluster"}
    PROVE  TakesChain(reg, ChainOf(s))
<1>1. /\ Cluster \in reg /\ Cluster.type = "cluster" /\ Cluster.parent = NoParent
      /\ Namespace \in reg /\ Namespace.type = "namespace" /\ Namespace.parent = "cluster"
  BY DEF BuiltinSpecs, Cluster, Namespace, TypeSpec
<1>2. CASE s.parent = "namespace"
  <2> DEFINE chain == <<"cluster", "namespace", s.type>>
  <2>1. ChainOf(s) = chain
    BY <1>2, JoinedThree DEF ChainOf
  <2>2. /\ DOMAIN chain = {1, 2, 3} /\ chain[1] = "cluster" /\ chain[2] = "namespace" /\ chain[3] = s.type
    OBVIOUS
  <2> HIDE DEF chain
  <2>3. ASSUME NEW i \in DOMAIN chain
        PROVE  \E r \in reg : r.type = chain[i] /\ r.parent = (IF i = 1 THEN NoParent ELSE chain[i - 1])
    <3>1. CASE i = 1
      BY <1>1, <2>2, <3>1
    <3>2. CASE i = 2
      BY <1>1, <2>2, <3>2
    <3>3. CASE i = 3
      BY <1>2, <2>2, <3>3
    <3> QED  BY <2>2, <2>3, <3>1, <3>2, <3>3
  <2> QED  BY <2>1, <2>3 DEF TakesChain
<1>3. CASE s.parent = "cluster"
  <2> DEFINE chain == <<"cluster", s.type>>
  <2>1. ChainOf(s) = chain
    BY <1>3, JoinedTwo DEF ChainOf
  <2>2. DOMAIN chain = {1, 2} /\ chain[1] = "cluster" /\ chain[2] = s.type
    OBVIOUS
  <2> HIDE DEF chain
  <2>3. ASSUME NEW i \in DOMAIN chain
        PROVE  \E r \in reg : r.type = chain[i] /\ r.parent = (IF i = 1 THEN NoParent ELSE chain[i - 1])
    <3>1. CASE i = 1
      BY <1>1, <2>2, <3>1
    <3>2. CASE i = 2
      BY <1>3, <2>2, <3>2
    <3> QED  BY <2>2, <2>3, <3>1, <3>2
  <2> QED  BY <2>1, <2>3 DEF TakesChain
<1> QED  BY <1>2, <1>3

LEMMA RegisteringKept ==
    ASSUME Registering, UNCHANGED <<pc, enumeration, pushed>>
    PROVE  Registering'
<1> USE DEF enumeration
<1>1. (FromApi' <=> FromApi) /\ (TypesOnce' <=> TypesOnce) /\ (RegisteredOrDisputed' <=> RegisteredOrDisputed)
  BY DEF FromApi, TypesOnce, RegisteredOrDisputed, AllGroups, Disputed
<1> QED  BY <1>1 DEF Registering

LEMMA RegisteringHolds == RInv /\ Registering /\ [Next]_vars => Registering'
<1> SUFFICES ASSUME RInv, Registering, [Next]_vars PROVE Registering'
  OBVIOUS
<1> USE DEF RInv
\* Before the pack is put.
<1>1. ASSUME pc \in {"crds", "core", "groups"}, pc' \in {"crds", "core", "groups", "failed"},
             api' = api, registry' = registry, pushed' = pushed
      PROVE  Registering'
  <2>1. pushed' = {} /\ registry' = api'.registry
    BY <1>1 DEF Pushing, Registering
  <2> QED  BY <1>1, <2>1 DEF Registering
<1>2. CASE ReadCrds
  BY <1>1, <1>2 DEF ReadCrds
<1>3. CASE ReadCore
  BY <1>1, <1>3 DEF ReadCore
<1>4. CASE ReadGroup
  BY <1>1, <1>4 DEF ReadGroup
<1>5. CASE Enumerated
  <2>1. /\ pc = "groups" /\ toRead = <<>> /\ pc' = "pack" /\ resources' = Deduped(resources)
        /\ api' = api /\ registry' = registry /\ pushed' = pushed /\ pushed = {}
    BY <1>5 DEF Enumerated, Pushing
  <2>2. CoreComesFirst(resources) /\ resources \in Seq(Range(resources)) /\ DOMAIN resources = 1..Len(resources)
    BY <2>1 DEF Enumerating, Typed
  <2>3. FromApi
    BY <2>1 DEF Enumerating, FromApi, ReadGroups
  <2>4. /\ resources' \in Seq(Range(resources)) /\ DOMAIN resources' = 1..Len(resources')
        /\ KeptOf(resources', resources, Len(resources))
    <3> DEFINE W == Range(resources)
    <3> HIDE DEF W
    <3>1. resources \in Seq(W)
      BY <2>2 DEF W
    <3> QED  BY <2>1, <2>2, <3>1, DedupedHolds DEF W
  <2>5. /\ \A i, j \in 1..Len(resources') : resources'[i].spec.type = resources'[j].spec.type => i = j
        /\ \A i \in 1..Len(resources') : \E p \in 1..Len(resources) : resources'[i] = resources[p]
    BY <2>4 DEF KeptOf
  <2>6. Range(resources') \subseteq Range(resources)
    BY <2>2, <2>4, <2>5 DEF Range
  <2>7. FromApi'
    BY <2>1, <2>3, <2>6 DEF FromApi, AllGroups
  <2>8. TypesOnce'
    BY <2>4, <2>5 DEF TypesOnce, Range
  <2> QED  BY <2>1, <2>7, <2>8 DEF Registering
<1>6. CASE PutPack
  <2> DEFINE after == Registered(registry, AdditiveTypes(SpecsFound, crds))
  <2>1. /\ pc = "pack" /\ api' = api /\ crds' = crds /\ resources' = resources /\ pushed' = pushed /\ pushed = {}
        /\ pc' = "failed" \/ (pc' = "sources" /\ registry' = after)
    BY <1>6 DEF PutPack, SpecsFound, Pushing
  <2>2. registry = api.registry /\ FromApi /\ TypesOnce
    BY <2>1 DEF Registering
  <2>3. BuiltinSpecs \subseteq after /\ \A r \in Range(resources) : r.spec \in after \/ Disputed(r.spec)
    BY <2>2, PackRegisters
  <2> HIDE DEF after
  <2>4. /\ FromApi' /\ TypesOnce'
        /\ registry' = after => BuiltinSpecs \subseteq registry' /\ RegisteredOrDisputed'
    BY <2>1, <2>2, <2>3 DEF FromApi, TypesOnce, RegisteredOrDisputed, AllGroups, Disputed
  <2> QED  BY <2>1, <2>4 DEF Registering
<1>7. CASE ReadSource
  BY <1>7, RegisteringKept DEF ReadSource
<1>8. CASE SourcesRead
  <2>1. pc = "sources" /\ pc' = "push" /\ UNCHANGED enumeration /\ pushed' = pushed
    BY <1>8 DEF SourcesRead
  <2>2. (FromApi' <=> FromApi) /\ (TypesOnce' <=> TypesOnce) /\ (RegisteredOrDisputed' <=> RegisteredOrDisputed)
    BY <2>1 DEF FromApi, TypesOnce, RegisteredOrDisputed, AllGroups, Disputed, enumeration
  <2> QED  BY <2>1, <2>2 DEF Registering, enumeration
<1>9. ASSUME NEW x \in Objs, Push(x) PROVE Registering'
  <2>1. PICK r \in Range(resources) :
           /\ r.spec.type = x.type
           /\ pushed' = pushed \union {[item |-> x, chain |-> ChainOf(r.spec), rollups |-> RollupsFor(x)]}
    BY <1>9 DEF Push
  <2>2. pc' = pc /\ UNCHANGED enumeration
    BY <1>9 DEF Push
  <2>3. (FromApi' <=> FromApi) /\ (TypesOnce' <=> TypesOnce) /\ (RegisteredOrDisputed' <=> RegisteredOrDisputed)
    BY <2>2 DEF FromApi, TypesOnce, RegisteredOrDisputed, AllGroups, Disputed, enumeration
  <2>4. \A p \in pushed' :
           \E q \in Range(resources) : q.spec.type = p.item.type /\ p.chain = ChainOf(q.spec)
    BY <2>1 DEF Registering
  <2> QED  BY <2>2, <2>3, <2>4 DEF Registering, enumeration
<1>10. ASSUME NEW x \in Objs, Create(x) \/ Delete(x) PROVE Registering'
  BY <1>10, RegisteringKept DEF Create, Delete, Change
<1>11. CASE UNCHANGED vars
  BY <1>11, RegisteringKept DEF vars
<1> QED  BY <1>2, <1>3, <1>4, <1>5, <1>6, <1>7, <1>8, <1>9, <1>10, <1>11 DEF Next

\* PushedChainsAreTaken: whichever groups and CRDs can be read, papi takes the
\* chain of every item that is pushed -- the three sources of a pack's types
\* cover all that is listed -- unless the item's type is disputed.
THEOREM ChainsAreTaken == Spec => []PushedChainsAreTaken
<1>1. Init => Registering
  BY DEF Init, Registering
<1>2. ASSUME RInv, Registering PROVE PushedChainsAreTaken
  <2> SUFFICES ASSUME NEW p \in pushed,
                      \A r \in Range(resources) : r.spec.type = p.item.type => ~Disputed(r.spec)
               PROVE  TakesChain(registry, p.chain)
    BY DEF PushedChainsAreTaken
  <2>1. pc = "push" /\ api \in Apis
    BY <1>2 DEF RInv, Pushing, Typed
  <2>2. FromApi /\ BuiltinSpecs \subseteq registry /\ RegisteredOrDisputed
    BY <1>2, <2>1 DEF Registering
  <2>3. PICK r \in Range(resources) : r.spec.type = p.item.type /\ p.chain = ChainOf(r.spec)
    BY <1>2 DEF Registering
  <2>4. r.spec \in registry
    BY <2>2, <2>3 DEF RegisteredOrDisputed
  <2>5. r.spec.parent \in {"namespace", "cluster"}
    BY <2>1, <2>2, ParentIs
  <2> QED  BY <2>2, <2>3, <2>4, <2>5, ChainIsTaken
<1>3. Spec => []Registering
  BY <1>1, RegisteringHolds, InvariantHolds, PTL DEF Spec
<1> QED  BY <1>2, <1>3, InvariantHolds, PTL
=============================================================================
