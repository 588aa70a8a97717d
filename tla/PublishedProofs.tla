--------------------------- MODULE PublishedProofs ---------------------------
(***************************************************************************)
(* What is true of whatever is published: of the items that leave the      *)
(* cluster, for any objects, statuses, overlays and writes (module         *)
(* Sanitizer), and of the images that leave the repository's workflow, for *)
(* any commits, versions and schemas (module SchemaRelease).               *)
(*                                                                         *)
(* An item is a function of the body, the status and the mode it was       *)
(* pushed under: that is the invariant, ItemInv, and what is said of the   *)
(* items pushed follows from what is said of that function. A document is  *)
(* taken apart by the first keys of its paths, and a text of it by the     *)
(* rule that it fell under.                                                *)
(***************************************************************************)
EXTENDS Sanitizer, SchemaRelease, DataTheorems

-----------------------------------------------------------------------------
(* Texts: what masking tells of one.                                       *)

LEMMA MarkerTells == \A form : Told(Marker(form)) = {}
BY DEF Told, Marker, Piece

LEMMA ShapesTell ==
    ASSUME NEW t
    PROVE  /\ DOMAIN MaskShapes(t) = DOMAIN t
           /\ \A i \in DOMAIN t :
                 IF LineNamesCredential(t[i].key) THEN MaskShapes(t)[i] = Piece(t[i].key, {}, {}, "credential")
                 ELSE MaskShapes(t)[i] = Piece(t[i].key, t[i].kept, {}, t[i].form)
           /\ \A x : x \in Told(MaskShapes(t)) =>
                 \E i \in DOMAIN t : x \in t[i].kept /\ ~LineNamesCredential(t[i].key)
<1>1. /\ DOMAIN MaskShapes(t) = DOMAIN t
      /\ \A i \in DOMAIN t :
            IF LineNamesCredential(t[i].key) THEN MaskShapes(t)[i] = Piece(t[i].key, {}, {}, "credential")
            ELSE MaskShapes(t)[i] = Piece(t[i].key, t[i].kept, {}, t[i].form)
  BY DEF MaskShapes
<1>2. ASSUME NEW x \in Told(MaskShapes(t))
      PROVE  \E i \in DOMAIN t : x \in t[i].kept /\ ~LineNamesCredential(t[i].key)
  <2>1. PICK i \in DOMAIN t : x \in MaskShapes(t)[i].kept \union MaskShapes(t)[i].secret
    BY <1>1, <1>2 DEF Told
  <2> QED  BY <1>1, <2>1 DEF Piece
<1> QED  BY <1>1, <1>2

\* Masking tells nothing new, and of a text that a rule covers no credential.
LEMMA MasksTell ==
    ASSUME NEW t, NEW key, NEW truncate
    PROVE  /\ Told(MaskAndTruncate(t, key, truncate)) \subseteq Told(t)
           /\ Covers(key, t) => Told(MaskAndTruncate(t, key, truncate)) \intersect Secrets = {}
<1> DEFINE m == MaskShapes(t)
<1>1. Told(m) \subseteq Told(t)
  BY ShapesTell DEF Told
<1>2. ASSUME Covers(key, t), ~NamesCredential(key) PROVE Told(m) \intersect Secrets = {}
  BY <1>2, ShapesTell DEF Covers
<1>3. Told(Truncated(m)) = Told(m)
  BY DEF Told, Truncated, Piece
<1>4. MaskAndTruncate(t, key, truncate) \in {Marker("credential"), Truncated(m), m}
  BY DEF MaskAndTruncate
<1>5. ~NamesCredential(key) => MaskAndTruncate(t, key, truncate) \in {Truncated(m), m}
  BY DEF MaskAndTruncate
<1>6. NamesCredential(key) => MaskAndTruncate(t, key, truncate) = Marker("credential")
  BY DEF MaskAndTruncate
<1> HIDE DEF m
<1>7. Told(MaskAndTruncate(t, key, truncate)) \in {{}, Told(m)}
  BY <1>3, <1>4, MarkerTells
<1>8. Covers(key, t) => Told(MaskAndTruncate(t, key, truncate)) \intersect Secrets = {}
  BY <1>2, <1>3, <1>5, <1>6, MarkerTells
<1> QED  BY <1>1, <1>7, <1>8

LEMMA InnocentIs == \A key : Innocent(key) => ~NamesCredential(key)
BY DEF Innocent, NamesCredential

\* A text that no rule covers is left as it is.
LEMMA CleanIs ==
    ASSUME NEW t, NEW key, Innocent(key),
           t = [i \in DOMAIN t |-> Piece(t[i].key, t[i].kept, t[i].secret, t[i].form)],
           \A i \in DOMAIN t : t[i].secret = {} /\ ~LineNamesCredential(t[i].key)
    PROVE  MaskAndTruncate(t, key, FALSE) = t
<1>1. MaskShapes(t) = t
  BY ShapesTell DEF MaskShapes
<1> QED  BY <1>1, InnocentIs DEF MaskAndTruncate

\* What a text shows where no rule covers it is shown of it.
LEMMA ShownIs ==
    ASSUME NEW t, NEW key, NEW R, Innocent(key), Told(t) \intersect Longs = {},
           \A i \in DOMAIN t : LineNamesCredential(t[i].key) => t[i].kept \intersect R = {}
    PROVE  Shown(t) \intersect R \subseteq Shown(MaskAndTruncate(t, key, TRUE))
<1> DEFINE m == MaskShapes(t)
<1>1. Told(m) \subseteq Told(t)
  BY ShapesTell DEF Told
<1>2. MaskAndTruncate(t, key, TRUE) = m
  BY <1>1, InnocentIs DEF MaskAndTruncate, Overlong
<1>3. ASSUME NEW x \in Shown(t) \intersect R PROVE x \in Shown(m)
  <2>1. PICK i \in DOMAIN t : x \in t[i].kept /\ t[i].form # "truncated"
    BY <1>3 DEF Shown
  <2>2. m[i] = Piece(t[i].key, t[i].kept, {}, t[i].form) /\ i \in DOMAIN m
    BY <1>3, <2>1, ShapesTell
  <2>3. m[i].kept = t[i].kept /\ m[i].form # "truncated"
    BY <2>1, <2>2 DEF Piece
  <2> HIDE DEF m
  <2> QED  BY <2>1, <2>2, <2>3 DEF Shown
<1> QED  BY <1>2, <1>3

-----------------------------------------------------------------------------
(* Paths.                                                                  *)

Paths == Seq(Keys) \ {<<>>}

LEMMA PathIs == \A p \in Paths : p \in Seq(Keys) /\ Len(p) \in Nat /\ Len(p) >= 1 /\ DOMAIN p = 1..Len(p)
<1> SUFFICES ASSUME NEW p \in Paths
             PROVE  p \in Seq(Keys) /\ Len(p) \in Nat /\ Len(p) >= 1 /\ DOMAIN p = 1..Len(p)
  OBVIOUS
<1>1. p \in Seq(Keys) /\ p # <<>>
  BY DEF Paths
<1> QED  BY <1>1

LEMMA Under1 ==
    ASSUME NEW k \in Keys, NEW p \in Paths
    PROVE  IsPrefix(<<k>>, p) <=> p[1] = k
<1>0. <<k>> \in Seq(Keys)
  OBVIOUS
<1>1. PICK q \in Seq(Keys) : q = <<k>>
  BY <1>0, Zenon
<1>2. Len(q) = 1 /\ q[1] = k
  BY <1>1
<1>3. IsPrefix(q, p) <=> Len(q) <= Len(p) /\ \A i \in 1..Len(q) : q[i] = p[i]
  BY PathIs, PrefixIs
<1>4. IsPrefix(q, p) <=> 1 <= Len(p) /\ p[1] = k
  BY <1>2, <1>3, PathIs
<1> QED  BY <1>1, <1>4, PathIs

LEMMA Under2 ==
    ASSUME NEW k \in Keys, NEW l \in Keys, NEW p \in Paths
    PROVE  IsPrefix(<<k, l>>, p) <=> Len(p) >= 2 /\ p[1] = k /\ p[2] = l
<1>0. <<k, l>> \in Seq(Keys)
  OBVIOUS
<1>1. PICK q \in Seq(Keys) : q = <<k, l>>
  BY <1>0, Zenon
<1>2. Len(q) = 2 /\ q[1] = k /\ q[2] = l
  BY <1>1
<1>3. IsPrefix(q, p) <=> Len(q) <= Len(p) /\ \A i \in 1..Len(q) : q[i] = p[i]
  BY PathIs, PrefixIs
<1>4. IsPrefix(q, p) <=> 2 <= Len(p) /\ p[1] = k /\ p[2] = l
  BY <1>2, <1>3, PathIs
<1> QED  BY <1>1, <1>4, PathIs

LEMMA Under3 ==
    ASSUME NEW k \in Keys, NEW l \in Keys, NEW m \in Keys, NEW p \in Paths
    PROVE  IsPrefix(<<k, l, m>>, p) <=> Len(p) >= 3 /\ p[1] = k /\ p[2] = l /\ p[3] = m
<1>0. <<k, l, m>> \in Seq(Keys)
  OBVIOUS
<1>1. PICK q \in Seq(Keys) : q = <<k, l, m>>
  BY <1>0, Zenon
<1>2. Len(q) = 3 /\ q[1] = k /\ q[2] = l /\ q[3] = m
  BY <1>1
<1>3. IsPrefix(q, p) <=> Len(q) <= Len(p) /\ \A i \in 1..Len(q) : q[i] = p[i]
  BY PathIs, PrefixIs
<1>4. IsPrefix(q, p) <=> 3 <= Len(p) /\ p[1] = k /\ p[2] = l /\ p[3] = m
  BY <1>2, <1>3, PathIs
<1> QED  BY <1>1, <1>4, PathIs

\* What is dropped, said of the keys on the path.
LEMMA DroppedIs ==
    ASSUME NEW p \in Paths
    PROVE  Dropped(p) <=>
              /\ Len(p) >= 2 /\ p[1] = "metadata"
              /\ p[2] \in {"managedFields", "resourceVersion"}
                 \/ (Len(p) >= 3 /\ p[2] = "annotations" /\ p[3] = "lastApplied")
<1>2. Dropped(p) <=> \/ IsPrefix(<<"metadata", "managedFields">>, p)
                     \/ IsPrefix(<<"metadata", "resourceVersion">>, p)
                     \/ IsPrefix(<<"metadata", "annotations", "lastApplied">>, p)
  BY DEF Dropped
<1>3. {"metadata", "managedFields", "resourceVersion", "annotations", "lastApplied"} \subseteq Keys
  BY DocumentsAssumption
<1>4. IsPrefix(<<"metadata", "managedFields">>, p) <=> Len(p) >= 2 /\ p[1] = "metadata" /\ p[2] = "managedFields"
  BY <1>3, Under2
<1>5. IsPrefix(<<"metadata", "resourceVersion">>, p) <=> Len(p) >= 2 /\ p[1] = "metadata" /\ p[2] = "resourceVersion"
  BY <1>3, Under2
<1>6. IsPrefix(<<"metadata", "annotations", "lastApplied">>, p) <=>
         Len(p) >= 3 /\ p[1] = "metadata" /\ p[2] = "annotations" /\ p[3] = "lastApplied"
  BY <1>3, Under3
<1> QED  BY <1>2, <1>4, <1>5, <1>6, PathIs

\* The name beside a value differs from it in its last key only.
LEMMA BesideIs ==
    ASSUME NEW p \in Paths
    PROVE  /\ Beside(p) \in Paths /\ Len(Beside(p)) = Len(p) /\ Beside(p)[Len(p)] = "name"
           /\ \A i \in 1..(Len(p) - 1) : Beside(p)[i] = p[i]
<1>1. p \in Seq(Keys) /\ Len(p) \in Nat /\ Len(p) >= 1 /\ "name" \in Keys
  BY PathIs, DocumentsAssumption
<1>2. /\ SubSeq(p, 1, Len(p) - 1) \in Seq(Keys) /\ Len(SubSeq(p, 1, Len(p) - 1)) = Len(p) - 1
      /\ \A i \in 1..(Len(p) - 1) : SubSeq(p, 1, Len(p) - 1)[i] = p[i]
  <2>1. 1 \in 1..(Len(p) + 1) /\ Len(p) - 1 \in 0..Len(p) /\ p \in Seq(Keys)
    BY <1>1
  <2>2. /\ SubSeq(p, 1, Len(p) - 1) \in Seq(Keys)
        /\ Len(SubSeq(p, 1, Len(p) - 1)) = IF 1 <= Len(p) - 1 THEN (Len(p) - 1) - 1 + 1 ELSE 0
        /\ \A i \in 1..((Len(p) - 1) - 1 + 1) : SubSeq(p, 1, Len(p) - 1)[i] = p[1 + i - 1]
    BY <2>1, SubSeqProperties
  <2>3. Len(SubSeq(p, 1, Len(p) - 1)) = Len(p) - 1
    <3>1. \A l \in Nat : l >= 1 => (IF 1 <= l - 1 THEN (l - 1) - 1 + 1 ELSE 0) = l - 1
      OBVIOUS
    <3>2. (IF 1 <= Len(p) - 1 THEN (Len(p) - 1) - 1 + 1 ELSE 0) = Len(p) - 1
      BY ONLY <1>1, <3>1
    <3>3. Len(SubSeq(p, 1, Len(p) - 1)) = (IF 1 <= Len(p) - 1 THEN (Len(p) - 1) - 1 + 1 ELSE 0)
      BY ONLY <2>2
    <3> QED  BY ONLY <3>2, <3>3
  <2>4. ASSUME NEW i \in 1..(Len(p) - 1) PROVE SubSeq(p, 1, Len(p) - 1)[i] = p[i]
    <3>1. i \in 1..((Len(p) - 1) - 1 + 1) /\ 1 + i - 1 = i
      BY <1>1
    <3> QED  BY <2>2, <3>1
  <2> QED  BY <2>2, <2>3, <2>4
<1>3. /\ Append(SubSeq(p, 1, Len(p) - 1), "name") \in Seq(Keys)
      /\ Len(Append(SubSeq(p, 1, Len(p) - 1), "name")) = Len(p)
      /\ \A i \in 1..(Len(p) - 1) : Append(SubSeq(p, 1, Len(p) - 1), "name")[i] = SubSeq(p, 1, Len(p) - 1)[i]
      /\ Append(SubSeq(p, 1, Len(p) - 1), "name")[Len(p)] = "name"
  BY <1>1, <1>2
<1>4. Append(SubSeq(p, 1, Len(p) - 1), "name") # <<>>
  BY <1>1, <1>3
<1> QED  BY <1>1, <1>2, <1>3, <1>4 DEF Beside, Front, Paths

-----------------------------------------------------------------------------
(* The object that discover reads, and what of it the rules are applied to: *)
(* neither its status nor its version.                                     *)

Stamp(b) == Text(<<Piece(NoKey, {b.kind}, {}, "none")>>)
Seen(b) ==
    [p \in {q \in DOMAIN b.document \union {<<"kind">>} : ~Dropped(q)} |->
        IF p = <<"kind">> THEN Stamp(b) ELSE b.document[p]]

LEMMA DocumentIs ==
    ASSUME NEW d, IsDocument(d)
    PROVE  d = [p \in DOMAIN d |-> d[p]] /\ DOMAIN d \subseteq Paths
BY DEF IsDocument, Paths

LEMMA BodyIs ==
    ASSUME NEW b \in Bodies
    PROVE  /\ IsDocument(b.document) /\ DOMAIN b.document \subseteq Paths
           /\ \A p \in DOMAIN b.document :
                 /\ p[1] \notin {"status", "secretKeys", "dataHashes", "binaryDataHashes"}
                 /\ b.kind = "ConfigMap" /\ p[1] \in {"data", "binaryData"} =>
                       Len(p) = 2 /\ IsText(b.document[p])
BY DocumentsAssumption, DocumentIs

LEMMA StatusPath ==
    ASSUME NEW q \in Paths
    PROVE  /\ <<"status">> \o q \in Paths /\ (<<"status">> \o q)[1] = "status"
           /\ Len(<<"status">> \o q) >= 2 /\ Tail(<<"status">> \o q) = q
<1>0. <<"status">> \in Seq(Keys) /\ q \in Seq(Keys) /\ Len(q) \in Nat /\ Len(q) >= 1
  BY DocumentsAssumption, PathIs
<1>1. PICK h \in Seq(Keys) : h = <<"status">>
  BY <1>0, Zenon
<1>2. Len(h) = 1 /\ h[1] = "status"
  BY <1>1
<1>3. /\ h \o q \in Seq(Keys) /\ Len(h \o q) = Len(q) + 1 /\ (h \o q)[1] = "status"
      /\ \A i \in 1..Len(q) : (h \o q)[i + 1] = q[i]
  <2>1. /\ h \o q \in Seq(Keys) /\ Len(h \o q) = Len(h) + Len(q)
        /\ \A i \in 1..(Len(h) + Len(q)) : (h \o q)[i] = IF i <= Len(h) THEN h[i] ELSE q[i - Len(h)]
    BY <1>0
  <2>2. \A i \in 1..(Len(q) + 1) : (h \o q)[i] = IF i <= 1 THEN h[i] ELSE q[i - 1]
    BY <1>0, <1>2, <2>1
  <2>3. Len(h \o q) = Len(q) + 1 /\ (h \o q)[1] = "status"
    BY <1>0, <1>2, <2>1, <2>2
  <2>4. ASSUME NEW i \in 1..Len(q) PROVE (h \o q)[i + 1] = q[i]
    <3>1. i + 1 \in 1..(Len(q) + 1) /\ ~(i + 1 <= 1) /\ (i + 1) - 1 = i
      BY <1>0
    <3> QED  BY <2>2, <3>1
  <2> QED  BY <2>1, <2>3, <2>4
<1>4. h \o q # <<>>
  BY <1>0, <1>3
<1>5. Tail(h \o q) = q
  <2>1. /\ Tail(h \o q) \in Seq(Keys) /\ Len(Tail(h \o q)) = Len(q)
        /\ \A i \in 1..Len(q) : Tail(h \o q)[i] = (h \o q)[i + 1]
    BY <1>0, <1>3, <1>4
  <2> QED  BY <1>0, <1>3, <2>1
<1> QED  BY <1>0, <1>1, <1>3, <1>4, <1>5 DEF Paths

Volatile == {<<"metadata", "resourceVersion">>, <<"metadata", "managedFields", "1">>}

LEMMA VolatileIs == \A p \in Volatile : p \in Paths /\ p[1] = "metadata" /\ Dropped(p)
<1>1. {"metadata", "resourceVersion", "managedFields", "1"} \subseteq Keys
  BY DocumentsAssumption
<1>2. <<"metadata", "resourceVersion">> \in Paths /\ <<"metadata", "managedFields", "1">> \in Paths
  BY <1>1 DEF Paths
<1>3. Dropped(<<"metadata", "resourceVersion">>)
  <2>1. IsPrefix(<<"metadata", "resourceVersion">>, <<"metadata", "resourceVersion">>)
    BY <1>1, <1>2, Under2
  <2> QED  BY <2>1 DEF Dropped
<1>4. Dropped(<<"metadata", "managedFields", "1">>)
  <2>1. IsPrefix(<<"metadata", "managedFields">>, <<"metadata", "managedFields", "1">>)
    BY <1>1, <1>2, Under2
  <2> QED  BY <2>1 DEF Dropped
<1> QED  BY <1>2, <1>3, <1>4 DEF Volatile

LEMMA KindPath == <<"kind">> \in Paths /\ <<"kind">>[1] = "kind" /\ ~Dropped(<<"kind">>)
<1>1. <<"kind">> \in Paths
  BY DocumentsAssumption DEF Paths
<1> QED  BY <1>1, DroppedIs

\* What the API gives, and the stamp.
GivenOf(o, b, s) ==
    LET S == {<<"status">> \o q : q \in DOMAIN s}
    IN  /\ DOMAIN o = DOMAIN b.document \union S \union Volatile \union {<<"kind">>}
        /\ o[<<"kind">>] = Stamp(b)
        /\ \A p \in DOMAIN b.document : p # <<"kind">> /\ ~Dropped(p) => o[p] = b.document[p]
        /\ \A q \in DOMAIN s : o[<<"status">> \o q] = s[q]

LEMMA GivenIs ==
    ASSUME NEW b \in Bodies, NEW s \in Statuses, NEW v
    PROVE  GivenOf(Stamped(b.kind, Raw(b, s, v)), b, s)
<1> DEFINE S == {<<"status">> \o q : q \in DOMAIN s}
           SF == [p \in S |-> s[Tail(p)]]
           VF == [p \in Volatile |-> Other(v)]
           KF == [p \in {<<"kind">>} |-> Stamp(b)]
           o == Stamped(b.kind, Raw(b, s, v))
<1>1. o = With(With(With(b.document, SF), VF), KF)
  BY DEF Stamped, Raw, Stamp, Volatile
<1>2. DOMAIN SF = S /\ DOMAIN VF = Volatile /\ DOMAIN KF = {<<"kind">>}
  OBVIOUS
<1>3. KF[<<"kind">>] = Stamp(b)
  OBVIOUS
<1>4. DOMAIN s \subseteq Paths
  BY DocumentsAssumption, DocumentIs
<1>5. \A p \in S : p \in Paths /\ p[1] = "status"
  BY <1>4, StatusPath
<1>6. \A q \in DOMAIN s : SF[<<"status">> \o q] = s[q]
  BY <1>4, StatusPath
<1> HIDE DEF S, SF, VF, KF, o
<1>7. /\ DOMAIN o = DOMAIN b.document \union S \union Volatile \union {<<"kind">>}
      /\ \A p \in DOMAIN o :
            o[p] = IF p \in {<<"kind">>} THEN KF[p]
                   ELSE IF p \in Volatile THEN VF[p]
                   ELSE IF p \in S THEN SF[p] ELSE b.document[p]
  BY <1>1, <1>2 DEF With
<1>8. \A p \in DOMAIN b.document : p # <<"kind">> /\ ~Dropped(p) => o[p] = b.document[p]
  BY <1>5, <1>7, BodyIs, VolatileIs
<1>9. ASSUME NEW q \in DOMAIN s PROVE o[<<"status">> \o q] = s[q]
  <2>1. PICK p : p = <<"status">> \o q
    OBVIOUS
  <2>2. p \in S /\ p[1] = "status"
    BY <1>5, <2>1 DEF S
  <2>3. p # <<"kind">> /\ p \notin Volatile
    BY <2>2, KindPath, VolatileIs
  <2> QED  BY <1>6, <1>7, <2>1, <2>2, <2>3
<1> QED  BY <1>3, <1>7, <1>8, <1>9 DEF GivenOf, S, o

\* The rules are applied to what is seen of the body.
LEMMA SeenIs ==
    ASSUME NEW b \in Bodies, NEW s \in Statuses, NEW v
    PROVE  StripMetadata(Popped(Stamped(b.kind, Raw(b, s, v)))) = Seen(b)
<1> DEFINE o == Stamped(b.kind, Raw(b, s, v))
           S == {<<"status">> \o q : q \in DOMAIN s}
           L == StripMetadata(Popped(o))
<1>1. /\ DOMAIN o = DOMAIN b.document \union S \union Volatile \union {<<"kind">>}
      /\ o[<<"kind">>] = Stamp(b)
      /\ \A p \in DOMAIN b.document : p # <<"kind">> /\ ~Dropped(p) => o[p] = b.document[p]
  <2>1. GivenOf(o, b, s)
    BY GivenIs
  <2> HIDE DEF o
  <2> QED  BY <2>1 DEF GivenOf
<1>2. \A p \in S : p \in Paths /\ p[1] = "status"
  <2>1. DOMAIN s \subseteq Paths
    BY DocumentsAssumption, DocumentIs
  <2> QED  BY <2>1, StatusPath
<1>3. DOMAIN o \subseteq Paths
  BY <1>1, <1>2, BodyIs, VolatileIs, KindPath
<1> HIDE DEF o, S
<1>4. /\ DOMAIN L = {p \in DOMAIN o : ~IsPrefix(<<"status">>, p) /\ ~Dropped(p)}
      /\ \A p \in DOMAIN L : L[p] = o[p]
      /\ L = [p \in DOMAIN L |-> L[p]]
  <2> DEFINE u == Popped(o)
             D == {<<"metadata", "managedFields">>, <<"metadata", "resourceVersion">>,
                   <<"metadata", "annotations", "lastApplied">>}
  <2>1. u = Without(o, {<<"status">>}) /\ L = Without(u, D)
    BY DEF Popped, StripMetadata
  <2>2. /\ DOMAIN u = {p \in DOMAIN o : ~IsPrefix(<<"status">>, p)}
        /\ \A p \in DOMAIN u : u[p] = o[p]
    BY <2>1 DEF Without, Restrict, Below
  <2>3. \A p : Dropped(p) <=> \E at \in D : IsPrefix(at, p)
    BY DEF Dropped
  <2> HIDE DEF D, u
  <2>4. /\ DOMAIN L = {p \in DOMAIN u : \A at \in D : ~IsPrefix(at, p)}
        /\ \A p \in DOMAIN L : L[p] = u[p]
        /\ L = [p \in DOMAIN L |-> L[p]]
    BY <2>1 DEF Without, Restrict, Below
  <2> QED  BY <2>2, <2>3, <2>4
<1> HIDE DEF L
<1>5. \A p \in Paths : IsPrefix(<<"status">>, p) <=> p[1] = "status"
  BY Under1, DocumentsAssumption
<1>6. DOMAIN L = {q \in DOMAIN b.document \union {<<"kind">>} : ~Dropped(q)}
  BY <1>1, <1>2, <1>3, <1>4, <1>5, BodyIs, VolatileIs, KindPath
<1>7. \A p \in DOMAIN L : L[p] = IF p = <<"kind">> THEN Stamp(b) ELSE b.document[p]
  BY <1>1, <1>4, <1>6
<1>8. L = Seen(b)
  BY <1>4, <1>6, <1>7 DEF Seen
<1> QED  BY <1>8 DEF L, o

LEMMA StatusIs ==
    ASSUME NEW b \in Bodies, NEW s \in Statuses, NEW v
    PROVE  StatusOf(Stamped(b.kind, Raw(b, s, v))) = s
<1> DEFINE o == Stamped(b.kind, Raw(b, s, v))
           S == {<<"status">> \o q : q \in DOMAIN s}
           T == StatusOf(o)
<1>1. /\ DOMAIN o = DOMAIN b.document \union S \union Volatile \union {<<"kind">>}
      /\ \A q \in DOMAIN s : o[<<"status">> \o q] = s[q]
  <2>1. GivenOf(o, b, s)
    BY GivenIs
  <2> HIDE DEF o
  <2> QED  BY <2>1 DEF GivenOf
<1>2. s = [q \in DOMAIN s |-> s[q]] /\ DOMAIN s \subseteq Paths
  BY DocumentsAssumption, DocumentIs
<1>3. \A p \in S : p \in Paths /\ p[1] = "status"
  BY <1>2, StatusPath
<1>4. \A p \in Paths : IsPrefix(<<"status">>, p) <=> p[1] = "status"
  BY Under1, DocumentsAssumption
<1>5. Below(<<"status">>, o) = S
  <2> HIDE DEF S, o
  <2> QED  BY <1>1, <1>3, <1>4, BodyIs, VolatileIs, KindPath DEF Below
<1>6. {Tail(q) : q \in S} = DOMAIN s
  <2>1. ASSUME NEW r \in {Tail(q) : q \in S} PROVE r \in DOMAIN s
    <3>1. PICK q \in DOMAIN s : r = Tail(<<"status">> \o q)
      BY <2>1
    <3> QED  BY <1>2, <3>1, StatusPath
  <2>2. ASSUME NEW q \in DOMAIN s PROVE q \in {Tail(r) : r \in S}
    <3>1. <<"status">> \o q \in S /\ Tail(<<"status">> \o q) = q
      BY <1>2, StatusPath
    <3> HIDE DEF S
    <3> QED  BY <3>1
  <2> QED  BY <2>1, <2>2
<1>7. T = [p \in {Tail(q) : q \in S} |-> o[<<"status">> \o p]]
  BY <1>5 DEF StatusOf
<1> HIDE DEF S, o, T
<1>8. T = [p \in DOMAIN s |-> s[p]]
  BY <1>1, <1>6, <1>7
<1>9. T = s
  BY <1>2, <1>8
<1> QED  BY <1>9 DEF T, o

\* What is pushed of a body under a status.
Ruled(b, keysOnly) ==
    CASE b.kind = "Secret" -> SanitizeSecret(Seen(b))
      [] b.kind = "ConfigMap" -> SanitizeConfigMap(Seen(b), keysOnly)
      [] OTHER -> Walk(Seen(b), NoKey)
DocumentOf(b, keysOnly) == Redacted(Ruled(b, keysOnly))
ItemOf(b, s, keysOnly) ==
    [document |-> DocumentOf(b, keysOnly), status |-> Walk(s, "status"),
     labels |-> Restrict(DocumentOf(b, keysOnly), Below(<<"metadata", "labels">>, DocumentOf(b, keysOnly))),
     names |-> Restrict(b.document, NamePaths \intersect DOMAIN b.document)]

\* An object's uid and names are those of its body, whatever the API adds.
LEMMA NamesAre ==
    ASSUME NEW b \in Bodies, NEW s \in Statuses, NEW v
    PROVE  LET o == Stamped(b.kind, Raw(b, s, v))
           IN  Restrict(o, NamePaths \intersect DOMAIN o) = Restrict(b.document, NamePaths \intersect DOMAIN b.document)
<1> DEFINE o == Stamped(b.kind, Raw(b, s, v))
           S == {<<"status">> \o q : q \in DOMAIN s}
<1>1. /\ DOMAIN o = DOMAIN b.document \union S \union Volatile \union {<<"kind">>}
      /\ \A p \in DOMAIN b.document : p # <<"kind">> /\ ~Dropped(p) => o[p] = b.document[p]
  <2>1. GivenOf(o, b, s)
    BY GivenIs
  <2> HIDE DEF o
  <2> QED  BY <2>1 DEF GivenOf
<1>2. \A p \in S : p[1] = "status"
  <2>1. DOMAIN s \subseteq Paths
    BY DocumentsAssumption, DocumentIs
  <2> QED  BY <2>1, StatusPath
<1>3. ASSUME NEW p \in NamePaths, p \in DOMAIN o PROVE p \in DOMAIN b.document
  <2>1. p[1] = "metadata" /\ p[2] \in {"uid", "name", "namespace"} /\ Len(p) = 2
    BY DEF NamePaths
  <2>2. p \notin Volatile /\ p # <<"kind">>
    BY <2>1 DEF Volatile
  <2> HIDE DEF o, S
  <2> QED  BY <1>1, <1>2, <1>3, <2>1, <2>2
<1>4. ASSUME NEW p \in NamePaths, p \in DOMAIN b.document PROVE p \in DOMAIN o /\ o[p] = b.document[p]
  <2>1. p[1] = "metadata" /\ p[2] \in {"uid", "name", "namespace"} /\ p \in Paths
    BY <1>4, BodyIs DEF NamePaths
  <2>2. ~Dropped(p) /\ p # <<"kind">>
    BY <2>1, DroppedIs
  <2> HIDE DEF o, S
  <2> QED  BY <1>1, <1>4, <2>2
<1> HIDE DEF o
<1>5. NamePaths \intersect DOMAIN o = NamePaths \intersect DOMAIN b.document
  BY <1>3, <1>4
<1>6. Restrict(o, NamePaths \intersect DOMAIN o) = Restrict(b.document, NamePaths \intersect DOMAIN b.document)
  BY <1>4, <1>5 DEF Restrict
<1> QED  BY <1>6 DEF o

LEMMA ItemIs ==
    ASSUME NEW b \in Bodies, NEW s \in Statuses, NEW v, NEW keysOnly
    PROVE  BuildItem(Stamped(b.kind, Raw(b, s, v)), keysOnly) = ItemOf(b, s, keysOnly)
<1>1. NameAt(Seen(b), <<"kind">>) = b.kind
  <2>1. <<"kind">> \in DOMAIN Seen(b) /\ Seen(b)[<<"kind">>] = Stamp(b)
    BY KindPath DEF Seen
  <2>2. IsText(Stamp(b)) /\ Told(Stamp(b).str) = {b.kind}
    BY DEF IsText, Stamp, Text, Told, Piece
  <2> QED  BY <2>1, <2>2 DEF NameAt
<1>2. Sanitize(Stamped(b.kind, Raw(b, s, v)), keysOnly) = DocumentOf(b, keysOnly)
  BY <1>1, SeenIs DEF Sanitize, DocumentOf, Ruled
<1>3. StatusOf(Stamped(b.kind, Raw(b, s, v))) = s
  BY StatusIs
<1> DEFINE o == Stamped(b.kind, Raw(b, s, v))
<1>4. Restrict(o, NamePaths \intersect DOMAIN o) = Restrict(b.document, NamePaths \intersect DOMAIN b.document)
  BY NamesAre
<1> HIDE DEF o
<1> QED  BY <1>2, <1>3, <1>4 DEF BuildItem, ItemOf, o

-----------------------------------------------------------------------------
(* What the walk is given of a body, and by which keys it judges it.       *)

Given(b) ==
    IF b.kind = "Secret" THEN Without(SecretAnnotations(Seen(b)), {<<"data">>, <<"stringData">>})
    ELSE IF b.kind = "ConfigMap" THEN Without(Seen(b), {<<"data">>, <<"binaryData">>}) ELSE Seen(b)
Withheld(b, p) ==
    \/ Dropped(p)
    \/ b.kind = "Secret" /\ p[1] \in {"data", "stringData"}
    \/ b.kind = "ConfigMap" /\ p[1] \in {"data", "binaryData"}

LEMMA SeenPaths ==
    ASSUME NEW b \in Bodies
    PROVE  /\ DOMAIN Seen(b) = {q \in DOMAIN b.document \union {<<"kind">>} : ~Dropped(q)}
           /\ DOMAIN Seen(b) \subseteq Paths
           /\ \A p \in DOMAIN Seen(b) :
                 /\ p[1] \notin {"status", "secretKeys", "dataHashes", "binaryDataHashes"}
                 /\ Seen(b)[p] = IF p = <<"kind">> THEN Stamp(b) ELSE b.document[p]
BY BodyIs, KindPath DEF Seen

LEMMA GivenPaths ==
    ASSUME NEW b \in Bodies
    PROVE  /\ DOMAIN Given(b) = {q \in DOMAIN b.document \union {<<"kind">>} : ~Withheld(b, q)}
           /\ DOMAIN Given(b) \subseteq Paths
           /\ \A p \in DOMAIN Given(b) :
                 /\ p[1] \notin {"status", "secretKeys", "dataHashes", "binaryDataHashes"}
                 /\ Given(b)[p] = IF b.kind = "Secret" /\ InSecret(p) THEN Text(Marker("secret-annotation"))
                                  ELSE IF p = <<"kind">> THEN Stamp(b) ELSE b.document[p]
<1> DEFINE m == Seen(b)
<1>1. /\ DOMAIN m = {q \in DOMAIN b.document \union {<<"kind">>} : ~Dropped(q)}
      /\ DOMAIN m \subseteq Paths
      /\ \A p \in DOMAIN m :
            /\ p[1] \notin {"status", "secretKeys", "dataHashes", "binaryDataHashes"}
            /\ m[p] = IF p = <<"kind">> THEN Stamp(b) ELSE b.document[p]
  BY SeenPaths
<1>2. \A p \in Paths : \A k \in {"data", "stringData", "binaryData"} : IsPrefix(<<k>>, p) <=> p[1] = k
  BY Under1, DocumentsAssumption
<1> HIDE DEF m
<1>3. CASE b.kind = "Secret"
  <2> DEFINE a == SecretAnnotations(m)
  <2>1. /\ DOMAIN a = DOMAIN m
        /\ \A p \in DOMAIN m :
              a[p] = IF IsPrefix(<<"metadata", "annotations">>, p) /\ Len(p) > 2 /\ p[3] \notin AllowedKeys
                     THEN Text(Marker("secret-annotation")) ELSE m[p]
    BY DEF SecretAnnotations
  <2> HIDE DEF a
  <2>2. Given(b) = Without(a, {<<"data">>, <<"stringData">>})
    BY <1>3 DEF Given, a, m
  <2>3. /\ DOMAIN Given(b) = {p \in DOMAIN a : ~IsPrefix(<<"data">>, p) /\ ~IsPrefix(<<"stringData">>, p)}
        /\ \A p \in DOMAIN Given(b) : Given(b)[p] = a[p]
    BY <2>2 DEF Without, Restrict, Below
  <2>4. /\ DOMAIN Given(b) = {p \in DOMAIN m : p[1] \notin {"data", "stringData"}}
        /\ \A p \in DOMAIN Given(b) :
              Given(b)[p] = IF InSecret(p) THEN Text(Marker("secret-annotation")) ELSE m[p]
    BY <1>1, <1>2, <2>1, <2>3 DEF InSecret
  <2> QED  BY <1>1, <1>3, <2>4 DEF Withheld
<1>4. CASE b.kind = "ConfigMap"
  <2>1. Given(b) = Without(m, {<<"data">>, <<"binaryData">>})
    BY <1>4 DEF Given, m
  <2>2. /\ DOMAIN Given(b) = {p \in DOMAIN m : ~IsPrefix(<<"data">>, p) /\ ~IsPrefix(<<"binaryData">>, p)}
        /\ \A p \in DOMAIN Given(b) : Given(b)[p] = m[p]
    BY <2>1 DEF Without, Restrict, Below
  <2>3. DOMAIN Given(b) = {p \in DOMAIN m : p[1] \notin {"data", "binaryData"}}
    BY <1>1, <1>2, <2>2
  <2> QED  BY <1>1, <1>4, <2>2, <2>3 DEF Withheld
<1>5. CASE b.kind \notin {"Secret", "ConfigMap"}
  <2>1. Given(b) = m
    BY <1>5 DEF Given, m
  <2> QED  BY <1>1, <1>5, <2>1 DEF Withheld
<1> QED  BY <1>3, <1>4, <1>5

\* The name beside a value is given with it.
LEMMA BesideGiven ==
    ASSUME NEW b \in Bodies, NEW p \in DOMAIN Given(b), p # <<"kind">>, b.kind = "Secret" => ~InSecret(p),
           Last(p) = "value"
    PROVE  /\ Beside(p) \in DOMAIN Given(b) <=> Beside(p) \in DOMAIN b.document
           /\ Beside(p) \in DOMAIN b.document => Given(b)[Beside(p)] = b.document[Beside(p)]
<1> DEFINE n == Beside(p)
<1>1. p \in Paths /\ ~Withheld(b, p)
  BY GivenPaths
<1>2. /\ n \in Paths /\ Len(n) = Len(p) /\ n[Len(p)] = "name"
      /\ \A i \in 1..(Len(p) - 1) : n[i] = p[i]
  BY <1>1, BesideIs
<1>3. Len(p) \in Nat /\ Len(p) >= 1 /\ p[Len(p)] = "value"
  BY <1>1, PathIs DEF Last
<1> HIDE DEF n
<1>4. n[1] = p[1] \/ n[1] = "name"
  BY <1>2, <1>3
<1>5. ~Dropped(n)
  <2>1. ~Dropped(p)
    BY <1>1 DEF Withheld
  <2>2. Len(p) >= 2 => n[1] = p[1]
    BY <1>2, <1>3
  <2>3. Len(p) >= 3 => n[2] = p[2]
    BY <1>2, <1>3
  <2>4. Len(p) >= 4 => n[3] = p[3]
    BY <1>2, <1>3
  <2>5. Len(p) = 2 => n[2] = "name"
    BY <1>2
  <2>6. Len(p) = 3 => n[3] = "name"
    BY <1>2
  <2> QED  BY <1>1, <1>2, <1>3, <2>1, <2>2, <2>3, <2>4, <2>5, <2>6, DroppedIs
<1>6. ~Withheld(b, n)
  BY <1>1, <1>4, <1>5 DEF Withheld
<1>7. n # <<"kind">>
  <2>1. n[Len(n)] = "name"
    BY <1>2
  <2>2. <<"kind">>[Len(<<"kind">>)] = "kind"
    OBVIOUS
  <2> QED  BY <2>1, <2>2
<1>8. n \in DOMAIN Given(b) <=> n \in DOMAIN b.document
  BY <1>6, <1>7, GivenPaths
<1>9. ASSUME b.kind = "Secret" PROVE ~InSecret(n)
  <2>1. ~InSecret(p)
    BY <1>9
  <2>2. "metadata" \in Keys /\ "annotations" \in Keys
    BY DocumentsAssumption
  <2>3. IsPrefix(<<"metadata", "annotations">>, p) <=> Len(p) >= 2 /\ p[1] = "metadata" /\ p[2] = "annotations"
    BY <1>1, <2>2, Under2
  <2>4. IsPrefix(<<"metadata", "annotations">>, n) <=> Len(n) >= 2 /\ n[1] = "metadata" /\ n[2] = "annotations"
    BY <1>2, <2>2, Under2
  <2>5. p[1] \notin {"data", "stringData"} /\ n[1] \notin {"data", "stringData"}
    BY <1>4, <2>1 DEF InSecret
  <2>6. SUFFICES ASSUME IsPrefix(<<"metadata", "annotations">>, n), Len(n) > 2, n[3] \notin AllowedKeys
                 PROVE  FALSE
    BY <2>5 DEF InSecret
  <2>7. n[1] = p[1] /\ n[2] = p[2] /\ (Len(p) > 3 => n[3] = p[3])
    BY <1>2, <1>3, <2>6
  <2>8. Len(p) = 3 => p[3] \notin AllowedKeys
    BY <1>3, DocumentsAssumption
  <2>9. p[3] \notin AllowedKeys
    BY <1>2, <1>3, <2>6, <2>7, <2>8
  <2> QED  BY <1>2, <2>1, <2>3, <2>4, <2>6, <2>7, <2>9 DEF InSecret
<1>10. n \in DOMAIN b.document => Given(b)[n] = b.document[n]
  BY <1>7, <1>8, <1>9, GivenPaths
<1> QED  BY <1>8, <1>10 DEF n

LEMMA KeyAgrees ==
    ASSUME NEW d, NEW e, NEW p, NEW outer,
           Last(p) = "value" =>
              /\ Beside(p) \in DOMAIN d <=> Beside(p) \in DOMAIN e
              /\ Beside(p) \in DOMAIN e => d[Beside(p)] = e[Beside(p)]
    PROVE  KeyOf(d, p, outer) = KeyOf(e, p, outer)
<1>1. IsPair(d, p) <=> IsPair(e, p)
  BY DEF IsPair
<1>2. ASSUME IsPair(e, p) PROVE NameAt(d, Beside(p)) = NameAt(e, Beside(p))
  <2> DEFINE n == Beside(p)
  <2>1. d[n] = e[n] /\ n \in DOMAIN d /\ n \in DOMAIN e
    BY <1>2 DEF IsPair
  <2> HIDE DEF n
  <2>2. NameAt(d, n) = NameAt(e, n)
    BY <2>1 DEF NameAt
  <2> QED  BY <2>2 DEF n
<1> QED  BY <1>1, <1>2 DEF KeyOf

LEMMA KeyGiven ==
    ASSUME NEW b \in Bodies, NEW p \in DOMAIN Given(b), p # <<"kind">>, b.kind = "Secret" => ~InSecret(p)
    PROVE  KeyOf(Given(b), p, NoKey) = KeyOf(b.document, p, NoKey)
<1>1. Last(p) = "value" =>
         /\ Beside(p) \in DOMAIN Given(b) <=> Beside(p) \in DOMAIN b.document
         /\ Beside(p) \in DOMAIN b.document => Given(b)[Beside(p)] = b.document[Beside(p)]
  BY BesideGiven
<1> QED  BY <1>1, KeyAgrees

\* What the walk leaves of a text, at a path and under a key.
Left(t, p, key) == IF LeftAlone(p) THEN t ELSE MaskAndTruncate(t, key, TRUE)

LEMMA WalkIs ==
    ASSUME NEW d, NEW outer
    PROVE  /\ DOMAIN Walk(d, outer) = DOMAIN d
           /\ \A p \in DOMAIN d :
                 Walk(d, outer)[p] = IF IsText(d[p]) /\ ~LeftAlone(p)
                                     THEN Text(MaskAndTruncate(d[p].str, KeyOf(d, p, outer), TRUE)) ELSE d[p]
BY DEF Walk

\* A text that the walk leaves tells no credential but one that is redacted,
\* and nothing that only the data of a ConfigMap hold.
LEMMA RestTells ==
    ASSUME NEW b \in Bodies, NEW p \in DOMAIN Given(b), IsText(Walk(Given(b), NoKey)[p])
    PROVE  LET t == Walk(Given(b), NoKey)[p].str
           IN  Told(t) \intersect DataValues = {} /\ (p \in Redactions \/ Told(t) \intersect Secrets = {})
<1> DEFINE g == Given(b)
           w == Walk(g, NoKey)
           key == KeyOf(g, p, NoKey)
<1>1. w[p] = IF IsText(g[p]) /\ ~LeftAlone(p) THEN Text(MaskAndTruncate(g[p].str, key, TRUE)) ELSE g[p]
  BY WalkIs
<1>2. g[p] = IF b.kind = "Secret" /\ InSecret(p) THEN Text(Marker("secret-annotation"))
             ELSE IF p = <<"kind">> THEN Stamp(b) ELSE b.document[p]
  BY GivenPaths
<1>3. (b.kind = "Secret" => ~InSecret(p)) /\ p # <<"kind">> => key = KeyOf(b.document, p, NoKey)
  BY KeyGiven
<1>4. p \in DOMAIN b.document \union {<<"kind">>} /\ ~Withheld(b, p)
  BY GivenPaths
<1>5. IsText(w[p])
  OBVIOUS
<1> HIDE DEF g, w, key
<1>6. IsText(g[p])
  BY <1>1, <1>5
<1>7. Told(w[p].str) \subseteq Told(g[p].str)
  <2>1. CASE ~LeftAlone(p)
    <3>1. w[p].str = MaskAndTruncate(g[p].str, key, TRUE)
      BY <1>1, <1>6, <2>1 DEF Text
    <3> QED  BY <3>1, MasksTell
  <2>2. CASE LeftAlone(p)
    BY <1>1, <2>2
  <2> QED  BY <2>1, <2>2
<1>8. ~LeftAlone(p) /\ Covers(key, g[p].str) => Told(w[p].str) \intersect Secrets = {}
  <2> SUFFICES ASSUME ~LeftAlone(p), Covers(key, g[p].str) PROVE Told(w[p].str) \intersect Secrets = {}
    OBVIOUS
  <2>1. w[p].str = MaskAndTruncate(g[p].str, key, TRUE)
    BY <1>1, <1>6 DEF Text
  <2> QED  BY <2>1, MasksTell
<1>9. CASE b.kind = "Secret" /\ InSecret(p)
  <2>1. Told(g[p].str) = {}
    BY <1>2, <1>9, MarkerTells DEF Text
  <2> QED  BY <1>7, <2>1 DEF w, g
<1>10. CASE ~(b.kind = "Secret" /\ InSecret(p)) /\ p = <<"kind">>
  <2>1. g[p] = Stamp(b)
    BY <1>2, <1>10
  <2>2. Told(g[p].str) = {b.kind}
    BY <2>1 DEF Stamp, Told, Piece, Text
  <2>3. b.kind \notin Secrets \union DataValues
    BY SecretsAssumption
  <2> QED  BY <1>7, <2>2, <2>3 DEF w, g
<1>11. CASE ~(b.kind = "Secret" /\ InSecret(p)) /\ p # <<"kind">>
  <2>1. g[p] = b.document[p] /\ p \in DOMAIN b.document /\ key = KeyOf(b.document, p, NoKey)
    BY <1>2, <1>3, <1>4, <1>11
  <2>2. /\ Told(b.document[p].str) \intersect Secrets # {} => Covered(b, p)
        /\ Told(b.document[p].str) \intersect DataValues # {} =>
              b.kind = "ConfigMap" /\ p[1] \in {"data", "binaryData"}
    BY <1>6, <2>1, SecretsAssumption
  <2>3. ~(b.kind = "ConfigMap" /\ p[1] \in {"data", "binaryData"}) /\ ~Dropped(p)
    BY <1>4 DEF Withheld
  <2>4. Covered(b, p) => p \in Redactions \/ (~LeftAlone(p) /\ Covers(key, g[p].str))
    BY <1>11, <2>1, <2>3 DEF Covered
  <2>5. Told(w[p].str) \intersect DataValues = {}
    BY <1>7, <2>1, <2>2, <2>3
  <2>6. p \in Redactions \/ Told(w[p].str) \intersect Secrets = {}
    BY <1>7, <1>8, <2>1, <2>2, <2>4
  <2> QED  BY <2>5, <2>6 DEF w, g
<1> QED  BY <1>9, <1>10, <1>11

-----------------------------------------------------------------------------
(* The parts of a document, each under a first key of its own.             *)

LEMMA KeysInIs ==
    ASSUME NEW d, DOMAIN d \subseteq Paths, NEW f \in Keys
    PROVE  KeysIn(d, f) = {k \in Keys : <<f, k>> \in DOMAIN d}
<1>1. ASSUME NEW k \in KeysIn(d, f) PROVE k \in Keys /\ <<f, k>> \in DOMAIN d
  <2>1. PICK p \in DOMAIN d : IsPrefix(<<f>>, p) /\ Len(p) = 2 /\ k = p[2]
    BY <1>1 DEF KeysIn, Below
  <2>2. p \in Seq(Keys) /\ p[1] = f
    BY <2>1, Under1, PathIs
  <2>3. p = <<f, k>> /\ k \in Keys
    <3>1. k \in Keys
      <4>1. 2 \in 1..Len(p)
        BY <2>1
      <4>2. p[2] \in Keys
        BY <2>2, <4>1
      <4> QED  BY <2>1, <4>2
    <3>2. <<f, k>> \in Seq(Keys)
      BY <3>1
    <3>3. PICK q \in Seq(Keys) : q = <<f, k>>
      BY <3>2, Zenon
    <3>4. Len(q) = 2 /\ q[1] = f /\ q[2] = k
      BY <3>3
    <3>5. p = q
      BY <2>1, <2>2, <3>4
    <3> QED  BY <3>1, <3>3, <3>5
  <2> QED  BY <2>1, <2>3
<1>2. ASSUME NEW k \in Keys, <<f, k>> \in DOMAIN d PROVE k \in KeysIn(d, f)
  <2>1. <<f, k>> \in Paths /\ <<f, k>>[1] = f /\ <<f, k>>[2] = k /\ Len(<<f, k>>) = 2
    BY <1>2
  <2>2. IsPrefix(<<f>>, <<f, k>>)
    BY <2>1, Under1
  <2> QED  BY <1>2, <2>1, <2>2 DEF KeysIn, Below
<1> QED  BY <1>1, <1>2

\* The keys of a ConfigMap's data, and the values they have.
LEMMA DataSeen ==
    ASSUME NEW b \in Bodies, b.kind = "ConfigMap", NEW f \in {"data", "binaryData"}
    PROVE  /\ KeysIn(Seen(b), f) = KeysIn(b.document, f)
           /\ KeysIn(Seen(b), f) \subseteq Keys
           /\ \A k \in KeysIn(Seen(b), f) :
                 /\ <<f, k>> \in DOMAIN b.document /\ IsText(b.document[<<f, k>>])
                 /\ Seen(b)[<<f, k>>] = b.document[<<f, k>>]
<1>1. f \in Keys
  BY DocumentsAssumption
<1>2. KeysIn(Seen(b), f) = {k \in Keys : <<f, k>> \in DOMAIN Seen(b)}
  BY <1>1, KeysInIs, SeenPaths
<1>3. KeysIn(b.document, f) = {k \in Keys : <<f, k>> \in DOMAIN b.document}
  BY <1>1, KeysInIs, BodyIs
<1>4. ASSUME NEW k \in Keys
      PROVE  /\ <<f, k>> \in DOMAIN Seen(b) <=> <<f, k>> \in DOMAIN b.document
             /\ <<f, k>> \in DOMAIN Seen(b) =>
                   IsText(b.document[<<f, k>>]) /\ Seen(b)[<<f, k>>] = b.document[<<f, k>>]
  <2>1. <<f, k>> \in Paths /\ <<f, k>>[1] = f
    BY <1>1, <1>4 DEF Paths
  <2>2. ~Dropped(<<f, k>>) /\ <<f, k>> # <<"kind">>
    BY <2>1, DroppedIs, KindPath
  <2>3. <<f, k>> \in DOMAIN Seen(b) <=> <<f, k>> \in DOMAIN b.document
    BY <2>2, SeenPaths
  <2>4. <<f, k>> \in DOMAIN Seen(b) => Seen(b)[<<f, k>>] = b.document[<<f, k>>]
    BY <2>2, SeenPaths
  <2>5. <<f, k>> \in DOMAIN b.document => IsText(b.document[<<f, k>>])
    BY <2>1, BodyIs
  <2> QED  BY <2>3, <2>4, <2>5
<1> QED  BY <1>2, <1>3, <1>4

LEMMA WithIs ==
    ASSUME NEW d, NEW e
    PROVE  /\ DOMAIN With(d, e) = DOMAIN d \union DOMAIN e
           /\ \A p \in DOMAIN e : With(d, e)[p] = e[p]
           /\ \A p \in DOMAIN d : p \notin DOMAIN e => With(d, e)[p] = d[p]
BY DEF With

Told256(b, keysOnly) ==
    {k \in KeysIn(Seen(b), "data") :
        ~keysOnly /\ MaskedData(Seen(b))[<<"data", k>>] = Seen(b)[<<"data", k>>]}
Binary256(b, keysOnly) == {k \in KeysIn(Seen(b), "binaryData") : ~keysOnly /\ ~NamesCredential(k)}

LEMMA DataHashesAre ==
    ASSUME NEW b, NEW keysOnly
    PROVE  /\ DataHashes(Seen(b), keysOnly) =
                 Fingerprints("dataHashes", "data", Seen(b), Told256(b, keysOnly))
           /\ BinaryHashes(Seen(b), keysOnly) =
                 Fingerprints("binaryDataHashes", "binaryData", Seen(b), Binary256(b, keysOnly))
BY DEF DataHashes, BinaryHashes, Told256, Binary256

LEMMA DataHashIs ==
    ASSUME NEW b, NEW keysOnly
    PROVE  LET H == DataHashes(Seen(b), keysOnly)
               K == KeysIn(Seen(b), "data")
           IN  /\ DOMAIN H = {<<"dataHashes", k, "size">> : k \in K}
                             \union {<<"dataHashes", k, "sha256">> : k \in Told256(b, keysOnly)}
               /\ \A k \in K : H[<<"dataHashes", k, "size">>] = Other(Cardinality(Told(Seen(b)[<<"data", k>>].str)))
               /\ \A k \in Told256(b, keysOnly) : H[<<"dataHashes", k, "sha256">>] = Seen(b)[<<"data", k>>]
<1> DEFINE F == Fingerprints("dataHashes", "data", Seen(b), Told256(b, keysOnly))
<1>1. DataHashes(Seen(b), keysOnly) = F
  BY DataHashesAre
<1>2. DOMAIN F = {<<"dataHashes", k, "size">> : k \in KeysIn(Seen(b), "data")}
                 \union {<<"dataHashes", k, "sha256">> : k \in Told256(b, keysOnly)}
  BY DEF Fingerprints
<1>3. \A k \in KeysIn(Seen(b), "data") :
         F[<<"dataHashes", k, "size">>] = Other(Cardinality(Told(Seen(b)[<<"data", k>>].str)))
  BY DEF Fingerprints
<1>4. \A k \in Told256(b, keysOnly) : F[<<"dataHashes", k, "sha256">>] = Seen(b)[<<"data", k>>]
  BY DEF Fingerprints
<1> HIDE DEF F
<1> QED  BY <1>1, <1>2, <1>3, <1>4

LEMMA BinaryHashIs ==
    ASSUME NEW b, NEW keysOnly
    PROVE  LET H == BinaryHashes(Seen(b), keysOnly)
               K == KeysIn(Seen(b), "binaryData")
           IN  /\ DOMAIN H = {<<"binaryDataHashes", k, "size">> : k \in K}
                             \union {<<"binaryDataHashes", k, "sha256">> : k \in Binary256(b, keysOnly)}
               /\ \A k \in K : H[<<"binaryDataHashes", k, "size">>] =
                                    Other(Cardinality(Told(Seen(b)[<<"binaryData", k>>].str)))
               /\ \A k \in Binary256(b, keysOnly) :
                     H[<<"binaryDataHashes", k, "sha256">>] = Seen(b)[<<"binaryData", k>>]
<1> DEFINE F == Fingerprints("binaryDataHashes", "binaryData", Seen(b), Binary256(b, keysOnly))
<1>1. BinaryHashes(Seen(b), keysOnly) = F
  BY DataHashesAre
<1>2. DOMAIN F = {<<"binaryDataHashes", k, "size">> : k \in KeysIn(Seen(b), "binaryData")}
                 \union {<<"binaryDataHashes", k, "sha256">> : k \in Binary256(b, keysOnly)}
  BY DEF Fingerprints
<1>3. \A k \in KeysIn(Seen(b), "binaryData") :
         F[<<"binaryDataHashes", k, "size">>] = Other(Cardinality(Told(Seen(b)[<<"binaryData", k>>].str)))
  BY DEF Fingerprints
<1>4. \A k \in Binary256(b, keysOnly) : F[<<"binaryDataHashes", k, "sha256">>] = Seen(b)[<<"binaryData", k>>]
  BY DEF Fingerprints
<1> HIDE DEF F
<1> QED  BY <1>1, <1>2, <1>3, <1>4

\* What is pushed of a ConfigMap, before the overlay's redactions.
Parts(R, b, keysOnly) ==
    LET G == Walk(Given(b), NoKey)
        H == DataHashes(Seen(b), keysOnly)
        B == BinaryHashes(Seen(b), keysOnly)
        D == MaskedData(Seen(b))
    IN  /\ DOMAIN R = DOMAIN G \union DOMAIN H \union DOMAIN B \union (IF keysOnly THEN {} ELSE DOMAIN D)
        /\ \A p \in DOMAIN G : R[p] = G[p]
        /\ \A p \in DOMAIN H : R[p] = H[p] /\ p[1] = "dataHashes"
        /\ \A p \in DOMAIN B : R[p] = B[p] /\ p[1] = "binaryDataHashes"
        /\ \A p \in DOMAIN D : p[1] = "data" /\ (~keysOnly => R[p] = D[p])

LEMMA ConfigMapIs ==
    ASSUME NEW b \in Bodies, b.kind = "ConfigMap", NEW keysOnly \in BOOLEAN
    PROVE  Parts(Ruled(b, keysOnly), b, keysOnly)
<1> DEFINE R == Ruled(b, keysOnly)
           G == Walk(Given(b), NoKey)
           H == DataHashes(Seen(b), keysOnly)
           B == BinaryHashes(Seen(b), keysOnly)
           D == MaskedData(Seen(b))
           GH == With(G, H)
           GHB == With(GH, B)
<1>1. R = IF keysOnly THEN GHB ELSE With(GHB, D)
  BY DEF Ruled, SanitizeConfigMap, Given
<1>2. \A p \in DOMAIN G : p[1] \notin {"data", "dataHashes", "binaryDataHashes"}
  <2>1. \A p \in DOMAIN G : p \in DOMAIN Given(b)
    BY WalkIs
  <2> QED  BY <2>1, GivenPaths DEF Withheld
<1>3. \A p \in DOMAIN H : p[1] = "dataHashes"
  <2>1. DOMAIN H = {<<"dataHashes", k, "size">> : k \in KeysIn(Seen(b), "data")}
                   \union {<<"dataHashes", k, "sha256">> : k \in Told256(b, keysOnly)}
    BY DataHashIs
  <2> HIDE DEF H
  <2> QED  BY <2>1
<1>4. \A p \in DOMAIN B : p[1] = "binaryDataHashes"
  <2>1. DOMAIN B = {<<"binaryDataHashes", k, "size">> : k \in KeysIn(Seen(b), "binaryData")}
                   \union {<<"binaryDataHashes", k, "sha256">> : k \in Binary256(b, keysOnly)}
    BY BinaryHashIs
  <2> HIDE DEF B
  <2> QED  BY <2>1
<1>5. \A p \in DOMAIN D : p[1] = "data"
  BY DEF MaskedData
<1> HIDE DEF R, G, H, B, D
<1>6. /\ DOMAIN GH = DOMAIN G \union DOMAIN H
      /\ \A p \in DOMAIN G : GH[p] = G[p]
      /\ \A p \in DOMAIN H : GH[p] = H[p]
  <2>1. /\ DOMAIN GH = DOMAIN G \union DOMAIN H
        /\ \A p \in DOMAIN H : GH[p] = H[p]
        /\ \A p \in DOMAIN G : p \notin DOMAIN H => GH[p] = G[p]
    BY WithIs
  <2> HIDE DEF GH
  <2>2. \A p \in DOMAIN G : p \notin DOMAIN H
    BY <1>2, <1>3
  <2> QED  BY <2>1, <2>2
<1> HIDE DEF GH
<1>7. /\ DOMAIN GHB = DOMAIN G \union DOMAIN H \union DOMAIN B
      /\ \A p \in DOMAIN G : GHB[p] = G[p]
      /\ \A p \in DOMAIN H : GHB[p] = H[p]
      /\ \A p \in DOMAIN B : GHB[p] = B[p]
  <2>1. /\ DOMAIN GHB = DOMAIN GH \union DOMAIN B
        /\ \A p \in DOMAIN B : GHB[p] = B[p]
        /\ \A p \in DOMAIN GH : p \notin DOMAIN B => GHB[p] = GH[p]
    BY WithIs
  <2> HIDE DEF GHB
  <2>2. \A p \in DOMAIN GH : p \notin DOMAIN B
    BY <1>2, <1>3, <1>4, <1>6
  <2> QED  BY <1>6, <2>1, <2>2
<1> HIDE DEF GHB
<1>8. CASE keysOnly
  <2>1. R = GHB
    BY <1>1, <1>8
  <2> QED  BY <1>3, <1>4, <1>5, <1>7, <1>8, <2>1 DEF R, G, H, B, D, Parts
<1>9. CASE ~keysOnly
  <2>1. R = With(GHB, D)
    BY <1>1, <1>9
  <2>2. /\ DOMAIN R = DOMAIN GHB \union DOMAIN D
        /\ \A p \in DOMAIN D : R[p] = D[p]
        /\ \A p \in DOMAIN GHB : p \notin DOMAIN D => R[p] = GHB[p]
    <3>1. /\ DOMAIN With(GHB, D) = DOMAIN GHB \union DOMAIN D
          /\ \A p \in DOMAIN D : With(GHB, D)[p] = D[p]
          /\ \A p \in DOMAIN GHB : p \notin DOMAIN D => With(GHB, D)[p] = GHB[p]
      BY WithIs
    <3> QED  BY ONLY <2>1, <3>1
  <2> QED  BY <1>2, <1>3, <1>4, <1>5, <1>7, <1>9, <2>2 DEF R, G, H, B, D, Parts
<1> QED  BY <1>8, <1>9

LEMMA SecretIs ==
    ASSUME NEW b \in Bodies, b.kind = "Secret", NEW keysOnly
    PROVE  LET R == Ruled(b, keysOnly)
               G == Walk(Given(b), NoKey)
           IN  /\ DOMAIN R = DOMAIN G \union {<<"secretKeys">>}
               /\ \A p \in DOMAIN G : R[p] = G[p]
               /\ ~IsText(R[<<"secretKeys">>])
<1> DEFINE G == Walk(Given(b), NoKey)
           x == KeysIn(Seen(b), "data") \union KeysIn(Seen(b), "stringData")
           K == [p \in {<<"secretKeys">>} |-> Other(x)]
<1>1. Ruled(b, keysOnly) = With(G, K)
  BY DEF Ruled, SanitizeSecret, Given
<1>2. \A p \in DOMAIN G : p # <<"secretKeys">>
  <2>1. \A p \in DOMAIN G : p[1] # "secretKeys"
    BY WalkIs, GivenPaths
  <2>2. <<"secretKeys">>[1] = "secretKeys"
    OBVIOUS
  <2> HIDE DEF G
  <2> QED  BY <2>1, <2>2
<1>3. DOMAIN K = {<<"secretKeys">>} /\ K[<<"secretKeys">>] = Other(x)
  OBVIOUS
<1>4. ~IsText(Other(x))
  BY DEF IsText, Other
<1> HIDE DEF G, K, x
<1>5. /\ DOMAIN With(G, K) = DOMAIN G \union DOMAIN K
      /\ \A p \in DOMAIN K : With(G, K)[p] = K[p]
      /\ \A p \in DOMAIN G : p \notin DOMAIN K => With(G, K)[p] = G[p]
  BY WithIs
<1>6. DOMAIN Ruled(b, keysOnly) = DOMAIN G \union {<<"secretKeys">>}
  BY <1>1, <1>3, <1>5
<1>7. \A p \in DOMAIN G : Ruled(b, keysOnly)[p] = G[p]
  BY <1>1, <1>2, <1>3, <1>5
<1>8. Ruled(b, keysOnly)[<<"secretKeys">>] = Other(x)
  BY <1>1, <1>3, <1>5
<1> QED  BY <1>4, <1>6, <1>7, <1>8 DEF G

LEMMA PlainIs ==
    ASSUME NEW b \in Bodies, b.kind \notin {"Secret", "ConfigMap"}, NEW keysOnly
    PROVE  Ruled(b, keysOnly) = Walk(Given(b), NoKey)
BY DEF Ruled, Given

LEMMA RuledAt ==
    ASSUME NEW b \in Bodies, NEW keysOnly \in BOOLEAN, NEW p \in DOMAIN Given(b)
    PROVE  p \in DOMAIN Ruled(b, keysOnly) /\ Ruled(b, keysOnly)[p] = Walk(Given(b), NoKey)[p]
<1> DEFINE R == Ruled(b, keysOnly)
           G == Walk(Given(b), NoKey)
<1>1. p \in DOMAIN G
  BY WalkIs
<1>2. b.kind = "Secret" => DOMAIN R = DOMAIN G \union {<<"secretKeys">>} /\ \A q \in DOMAIN G : R[q] = G[q]
  BY SecretIs
<1>3. b.kind = "ConfigMap" => Parts(R, b, keysOnly)
  BY ConfigMapIs
<1>4. b.kind \notin {"Secret", "ConfigMap"} => R = G
  BY PlainIs
<1> HIDE DEF R
<1>5. b.kind = "ConfigMap" => p \in DOMAIN R /\ R[p] = G[p]
  BY <1>1, <1>3 DEF Parts
<1> HIDE DEF G
<1>6. p \in DOMAIN R /\ R[p] = G[p]
  BY <1>1, <1>2, <1>4, <1>5
<1> QED  BY <1>6 DEF R, G

LEMMA RedactedIs ==
    ASSUME NEW d
    PROVE  /\ DOMAIN Redacted(d) = DOMAIN d
           /\ \A p \in DOMAIN d :
                 Redacted(d)[p] = IF p \in Redactions /\ IsText(d[p]) THEN Text(Marker("overlay-redacted")) ELSE d[p]
BY DEF Redacted

\* Every path of what is pushed is one; none is that of a status.
LEMMA RuledPaths ==
    ASSUME NEW b \in Bodies, NEW keysOnly \in BOOLEAN, NEW p \in DOMAIN Ruled(b, keysOnly)
    PROVE  p \in Paths /\ p[1] # "status"
<1> DEFINE G == Walk(Given(b), NoKey)
<1>1. ASSUME p \in DOMAIN G PROVE p \in Paths /\ p[1] # "status"
  <2>1. p \in DOMAIN Given(b)
    BY <1>1, WalkIs
  <2> QED  BY <2>1, GivenPaths
<1>2. ASSUME b.kind = "ConfigMap", p \notin DOMAIN G PROVE p \in Paths /\ p[1] # "status"
  <2> DEFINE H == DataHashes(Seen(b), keysOnly)
             B == BinaryHashes(Seen(b), keysOnly)
             D == MaskedData(Seen(b))
             DK == KeysIn(Seen(b), "data")
             BK == KeysIn(Seen(b), "binaryData")
  <2>1. p \in DOMAIN H \union DOMAIN B \union DOMAIN D
    <3>1. DOMAIN Ruled(b, keysOnly) =
             DOMAIN G \union DOMAIN H \union DOMAIN B \union (IF keysOnly THEN {} ELSE DOMAIN D)
      BY <1>2, ConfigMapIs DEF Parts
    <3> HIDE DEF G, H, B, D
    <3> QED  BY <1>2, <3>1
  <2>2. DK \subseteq Keys /\ BK \subseteq Keys
    BY <1>2, DataSeen
  <2>3. /\ Told256(b, keysOnly) \subseteq DK
        /\ Binary256(b, keysOnly) \subseteq BK
    BY DEF Told256, Binary256
  <2>4. DOMAIN H \subseteq {<<"dataHashes", k, "size">> : k \in DK} \union {<<"dataHashes", k, "sha256">> : k \in DK}
    <3>1. DOMAIN H = {<<"dataHashes", k, "size">> : k \in DK}
                     \union {<<"dataHashes", k, "sha256">> : k \in Told256(b, keysOnly)}
      BY DataHashIs
    <3> HIDE DEF H, DK
    <3> QED  BY <2>3, <3>1
  <2>5. DOMAIN B \subseteq {<<"binaryDataHashes", k, "size">> : k \in BK}
                           \union {<<"binaryDataHashes", k, "sha256">> : k \in BK}
    <3>1. DOMAIN B = {<<"binaryDataHashes", k, "size">> : k \in BK}
                     \union {<<"binaryDataHashes", k, "sha256">> : k \in Binary256(b, keysOnly)}
      BY BinaryHashIs
    <3> HIDE DEF B, BK
    <3> QED  BY <2>3, <3>1
  <2>6. DOMAIN D = {<<"data", k>> : k \in DK}
    BY DEF MaskedData
  <2>7. {"dataHashes", "binaryDataHashes", "data", "size", "sha256"} \subseteq Keys
    BY DocumentsAssumption
  <2> HIDE DEF H, B, D, DK, BK
  <2>8. ASSUME NEW k \in Keys, NEW f \in Keys, NEW g \in Keys, f # "status"
        PROVE  <<f, k, g>> \in Paths /\ <<f, k, g>>[1] # "status" /\ <<f, k>> \in Paths /\ <<f, k>>[1] # "status"
    <3>1. <<f, k, g>> \in Seq(Keys) /\ <<f, k>> \in Seq(Keys) /\ <<f, k, g>> # <<>> /\ <<f, k>> # <<>>
      OBVIOUS
    <3> QED  BY <2>8, <3>1 DEF Paths
  <2>9. CASE p \in DOMAIN H
    <3>1. PICK k \in DK : p = <<"dataHashes", k, "size">> \/ p = <<"dataHashes", k, "sha256">>
      BY <2>4, <2>9
    <3>2. k \in Keys
      BY <2>2
    <3>3. CASE p = <<"dataHashes", k, "size">>
      BY <2>7, <2>8, <3>2, <3>3
    <3>4. CASE p = <<"dataHashes", k, "sha256">>
      BY <2>7, <2>8, <3>2, <3>4
    <3> QED  BY <3>1, <3>3, <3>4
  <2>10. CASE p \in DOMAIN B
    <3>1. PICK k \in BK : p = <<"binaryDataHashes", k, "size">> \/ p = <<"binaryDataHashes", k, "sha256">>
      BY <2>5, <2>10
    <3>2. k \in Keys
      BY <2>2
    <3>3. CASE p = <<"binaryDataHashes", k, "size">>
      BY <2>7, <2>8, <3>2, <3>3
    <3>4. CASE p = <<"binaryDataHashes", k, "sha256">>
      BY <2>7, <2>8, <3>2, <3>4
    <3> QED  BY <3>1, <3>3, <3>4
  <2>11. CASE p \in DOMAIN D
    <3>1. PICK k \in DK : p = <<"data", k>>
      BY <2>6, <2>11
    <3>2. k \in Keys
      BY <2>2
    <3> QED  BY <2>7, <2>8, <3>1, <3>2
  <2> QED  BY <2>1, <2>9, <2>10, <2>11
<1>3. ASSUME b.kind = "Secret", p \notin DOMAIN G PROVE p \in Paths /\ p[1] # "status"
  <2>1. p = <<"secretKeys">>
    BY <1>3, SecretIs
  <2> QED  BY <2>1, DocumentsAssumption DEF Paths
<1>4. b.kind \notin {"Secret", "ConfigMap"} => p \in DOMAIN G
  BY PlainIs
<1> QED  BY <1>1, <1>2, <1>3, <1>4

-----------------------------------------------------------------------------
(* What an item tells.                                                     *)

Harmless(t, keysOnly) ==
    Told(t) \intersect Secrets = {} /\ (keysOnly => Told(t) \intersect DataValues = {})

LEMMA ConfigMapTells ==
    ASSUME NEW b \in Bodies, b.kind = "ConfigMap", NEW keysOnly \in BOOLEAN,
           NEW p \in DOMAIN Ruled(b, keysOnly), p \notin DOMAIN Given(b), IsText(Ruled(b, keysOnly)[p])
    PROVE  Harmless(Ruled(b, keysOnly)[p].str, keysOnly)
<1> DEFINE R == Ruled(b, keysOnly)
           H == DataHashes(Seen(b), keysOnly)
           B == BinaryHashes(Seen(b), keysOnly)
           D == MaskedData(Seen(b))
           DK == KeysIn(Seen(b), "data")
           BK == KeysIn(Seen(b), "binaryData")
<1>1. /\ p \in DOMAIN H \union DOMAIN B \union (IF keysOnly THEN {} ELSE DOMAIN D)
      /\ p \in DOMAIN H => R[p] = H[p]
      /\ p \in DOMAIN B => R[p] = B[p]
      /\ p \in DOMAIN D /\ ~keysOnly => R[p] = D[p]
  <2> DEFINE G == Walk(Given(b), NoKey)
  <2>1. DOMAIN G = DOMAIN Given(b)
    BY WalkIs
  <2>2. /\ DOMAIN R = DOMAIN G \union DOMAIN H \union DOMAIN B \union (IF keysOnly THEN {} ELSE DOMAIN D)
        /\ \A q \in DOMAIN H : R[q] = H[q]
        /\ \A q \in DOMAIN B : R[q] = B[q]
        /\ \A q \in DOMAIN D : ~keysOnly => R[q] = D[q]
    <3>1. Parts(R, b, keysOnly)
      BY ConfigMapIs
    <3> HIDE DEF R
    <3> QED  BY <3>1 DEF Parts
  <2>3. p \in DOMAIN R /\ p \notin DOMAIN Given(b)
    OBVIOUS
  <2> HIDE DEF G, R, H, B, D
  <2> QED  BY <2>1, <2>2, <2>3
<1>2. ASSUME NEW f \in {"data", "binaryData"}, NEW k \in KeysIn(Seen(b), f)
      PROVE  /\ Seen(b)[<<f, k>>] = b.document[<<f, k>>] /\ IsText(Seen(b)[<<f, k>>])
             /\ Told(Seen(b)[<<f, k>>].str) \intersect Secrets # {} => Covered(b, <<f, k>>)
  <2>1. Seen(b)[<<f, k>>] = b.document[<<f, k>>]
    BY <1>2, DataSeen
  <2>2. <<f, k>> \in DOMAIN b.document /\ IsText(b.document[<<f, k>>])
    BY <1>2, DataSeen
  <2>3. Told(b.document[<<f, k>>].str) \intersect Secrets # {} => Covered(b, <<f, k>>)
    BY <2>2, SecretsAssumption
  <2> QED  BY <2>1, <2>2, <2>3
<1>3. ASSUME NEW k \in DK, Told(Seen(b)[<<"data", k>>].str) \intersect Secrets # {}
      PROVE  Covers(k, Seen(b)[<<"data", k>>].str)
  <2>1. Covered(b, <<"data", k>>) /\ Seen(b)[<<"data", k>>] = b.document[<<"data", k>>]
    BY <1>2, <1>3
  <2> QED  BY <2>1 DEF Covered
<1>4. ASSUME NEW k \in BK, Told(Seen(b)[<<"binaryData", k>>].str) \intersect Secrets # {}
      PROVE  NamesCredential(k)
  <2>1. Covered(b, <<"binaryData", k>>)
    BY <1>2, <1>4
  <2> QED  BY <2>1 DEF Covered
<1>5. ASSUME NEW k \in DK
      PROVE  D[<<"data", k>>] = Text(MaskAndTruncate(Seen(b)[<<"data", k>>].str, k, FALSE))
  BY DEF MaskedData
<1>6. ASSUME NEW k \in DK
      PROVE  Told(D[<<"data", k>>].str) \intersect Secrets = {}
  <2> DEFINE t == Seen(b)[<<"data", k>>].str
  <2>1. D[<<"data", k>>].str = MaskAndTruncate(t, k, FALSE)
    <3>1. D[<<"data", k>>] = Text(MaskAndTruncate(t, k, FALSE))
      BY <1>5
    <3>2. \A x : Text(x).str = x
      BY DEF Text
    <3> HIDE DEF D, t
    <3> QED  BY <3>1, <3>2
  <2>2. Told(MaskAndTruncate(t, k, FALSE)) \subseteq Told(t)
    BY MasksTell
  <2>3. Covers(k, t) => Told(MaskAndTruncate(t, k, FALSE)) \intersect Secrets = {}
    BY MasksTell
  <2> HIDE DEF D
  <2> QED  BY <1>3, <2>1, <2>2, <2>3
<1>7. ASSUME NEW x PROVE ~IsText(Other(x))
  BY DEF IsText, Other
<1>8. CASE p \in DOMAIN H
  <2>1. DOMAIN H = {<<"dataHashes", k, "size">> : k \in DK}
                   \union {<<"dataHashes", k, "sha256">> : k \in Told256(b, keysOnly)}
    BY DataHashIs
  <2>2. \A k \in DK : H[<<"dataHashes", k, "size">>] = Other(Cardinality(Told(Seen(b)[<<"data", k>>].str)))
    BY DataHashIs
  <2>3. \A k \in Told256(b, keysOnly) : H[<<"dataHashes", k, "sha256">>] = Seen(b)[<<"data", k>>]
    BY DataHashIs
  <2>4. IsText(H[p])
    BY <1>1, <1>8
  <2>5. PICK k \in Told256(b, keysOnly) : p = <<"dataHashes", k, "sha256">>
    <3> HIDE DEF H, DK
    <3> QED  BY <1>7, <1>8, <2>1, <2>2, <2>4
  <2>6. ~keysOnly /\ k \in DK /\ D[<<"data", k>>] = Seen(b)[<<"data", k>>]
    BY DEF Told256
  <2>7. R[p] = D[<<"data", k>>]
    BY <1>1, <1>8, <2>3, <2>5, <2>6
  <2> QED  BY <1>6, <2>6, <2>7 DEF Harmless
<1>9. CASE p \in DOMAIN B
  <2>1. DOMAIN B = {<<"binaryDataHashes", k, "size">> : k \in BK}
                   \union {<<"binaryDataHashes", k, "sha256">> : k \in Binary256(b, keysOnly)}
    BY BinaryHashIs
  <2>2. \A k \in BK :
           B[<<"binaryDataHashes", k, "size">>] = Other(Cardinality(Told(Seen(b)[<<"binaryData", k>>].str)))
    BY BinaryHashIs
  <2>3. \A k \in Binary256(b, keysOnly) :
           B[<<"binaryDataHashes", k, "sha256">>] = Seen(b)[<<"binaryData", k>>]
    BY BinaryHashIs
  <2>4. IsText(B[p])
    BY <1>1, <1>9
  <2>5. PICK k \in Binary256(b, keysOnly) : p = <<"binaryDataHashes", k, "sha256">>
    <3> HIDE DEF B, BK
    <3> QED  BY <1>7, <1>9, <2>1, <2>2, <2>4
  <2>6. ~keysOnly /\ k \in BK /\ ~NamesCredential(k)
    BY DEF Binary256
  <2>7. R[p] = Seen(b)[<<"binaryData", k>>]
    BY <1>1, <1>9, <2>3, <2>5
  <2> QED  BY <1>4, <2>6, <2>7 DEF Harmless
<1>10. CASE p \in DOMAIN D /\ ~keysOnly
  <2>1. PICK k \in DK : p = <<"data", k>>
    BY <1>10 DEF MaskedData
  <2>2. R[p] = D[<<"data", k>>]
    BY <1>1, <1>10, <2>1
  <2> QED  BY <1>6, <1>10, <2>2 DEF Harmless
<1> QED  BY <1>1, <1>8, <1>9, <1>10

LEMMA DocumentTells ==
    ASSUME NEW b \in Bodies, NEW keysOnly \in BOOLEAN, NEW p \in DOMAIN DocumentOf(b, keysOnly),
           IsText(DocumentOf(b, keysOnly)[p])
    PROVE  Harmless(DocumentOf(b, keysOnly)[p].str, keysOnly)
<1> DEFINE R == Ruled(b, keysOnly)
           G == Walk(Given(b), NoKey)
           leaf == DocumentOf(b, keysOnly)[p]
<1>1. /\ p \in DOMAIN R
      /\ leaf = IF p \in Redactions /\ IsText(R[p]) THEN Text(Marker("overlay-redacted")) ELSE R[p]
  BY RedactedIs DEF DocumentOf
<1>2. CASE p \in Redactions /\ IsText(R[p])
  <2>1. Told(leaf.str) = {}
    BY <1>1, <1>2, MarkerTells DEF Text
  <2> QED  BY <2>1 DEF Harmless
<1>3. CASE ~(p \in Redactions /\ IsText(R[p]))
  <2>1. leaf = R[p] /\ IsText(R[p]) /\ p \notin Redactions
    BY <1>1, <1>3
  <2>2. ASSUME p \in DOMAIN G PROVE Harmless(R[p].str, keysOnly)
    <3>1. R[p] = G[p]
      BY <2>2, WalkIs, RuledAt
    <3>2. p \in DOMAIN Given(b)
      BY <2>2, WalkIs
    <3>3. Told(G[p].str) \intersect DataValues = {} /\ Told(G[p].str) \intersect Secrets = {}
      BY <2>1, <3>1, <3>2, RestTells
    <3> QED  BY <3>1, <3>3 DEF Harmless
  <2>3. ASSUME p \notin DOMAIN G PROVE Harmless(R[p].str, keysOnly)
    <3>1. p \notin DOMAIN Given(b)
      BY <2>3, WalkIs
    <3>2. b.kind # "Secret"
      BY <1>1, <2>1, <2>3, SecretIs
    <3>3. b.kind = "ConfigMap"
      BY <1>1, <2>3, <3>2, PlainIs
    <3> QED  BY <1>1, <2>1, <3>1, <3>3, ConfigMapTells
  <2> QED  BY <2>1, <2>2, <2>3
<1> QED  BY <1>2, <1>3

LEMMA StatusTells ==
    ASSUME NEW s \in Statuses, NEW keysOnly \in BOOLEAN, NEW p \in DOMAIN s, IsText(Walk(s, "status")[p])
    PROVE  Harmless(Walk(s, "status")[p].str, keysOnly)
<1> DEFINE leaf == Walk(s, "status")[p]
           key == KeyOf(s, p, "status")
<1>1. leaf = IF IsText(s[p]) /\ ~LeftAlone(p) THEN Text(MaskAndTruncate(s[p].str, key, TRUE)) ELSE s[p]
  BY WalkIs
<1>2. IsText(leaf)
  OBVIOUS
<1> HIDE DEF leaf, key
<1>3. IsText(s[p])
  BY <1>1, <1>2
<1>4. /\ Told(s[p].str) \intersect Secrets # {} => ~LeftAlone(p) /\ Covers(key, s[p].str)
      /\ Told(s[p].str) \intersect DataValues = {}
  BY <1>3, SecretsAssumption DEF key
<1>5. CASE LeftAlone(p)
  BY <1>1, <1>4, <1>5 DEF Harmless, leaf
<1>6. CASE ~LeftAlone(p)
  <2>1. leaf.str = MaskAndTruncate(s[p].str, key, TRUE)
    BY <1>1, <1>3, <1>6 DEF Text
  <2>2. Told(leaf.str) \subseteq Told(s[p].str)
    BY <2>1, MasksTell
  <2>3. Covers(key, s[p].str) => Told(leaf.str) \intersect Secrets = {}
    BY <2>1, MasksTell
  <2> QED  BY <1>4, <2>2, <2>3 DEF Harmless, leaf
<1> QED  BY <1>5, <1>6

-----------------------------------------------------------------------------
(* What an item keeps: the references of the body.                         *)

LEMMA ReferencesKept ==
    ASSUME NEW b \in Bodies, NEW keysOnly \in BOOLEAN, NEW p \in DOMAIN b.document,
           IsText(b.document[p]), Shown(b.document[p].str) \intersect Refs # {}
    PROVE  LET now == DocumentOf(b, keysOnly)[p]
           IN  /\ p \in DOMAIN DocumentOf(b, keysOnly) /\ IsText(now)
               /\ Shown(b.document[p].str) \intersect Refs \subseteq Shown(now.str)
<1> DEFINE t == b.document[p].str
           G == Walk(Given(b), NoKey)
           key == KeyOf(Given(b), p, NoKey)
           now == DocumentOf(b, keysOnly)[p]
<1>1. /\ ~Dropped(p) /\ p \notin Redactions \union {<<"kind">>}
      /\ b.kind = "Secret" => ~InSecret(p)
      /\ b.kind = "ConfigMap" => p[1] \notin {"data", "binaryData"}
      /\ Told(t) \intersect Longs = {}
      /\ LeftAlone(p) \/ Innocent(KeyOf(b.document, p, NoKey))
      /\ \A i \in DOMAIN t : LineNamesCredential(t[i].key) => t[i].kept \intersect Refs = {}
  BY ReferencesAssumption
<1>2. ~Withheld(b, p)
  BY <1>1 DEF Withheld, InSecret
<1>3. p \in DOMAIN Given(b) /\ Given(b)[p] = b.document[p]
  BY <1>1, <1>2, GivenPaths
<1>4. LeftAlone(p) \/ Innocent(key)
  <2>1. key = KeyOf(b.document, p, NoKey)
    BY <1>1, <1>3, KeyGiven
  <2> QED  BY <1>1, <2>1
<1>5. G[p] = IF IsText(b.document[p]) /\ ~LeftAlone(p) THEN Text(MaskAndTruncate(t, key, TRUE)) ELSE b.document[p]
  <2>1. G[p] = IF IsText(Given(b)[p]) /\ ~LeftAlone(p)
               THEN Text(MaskAndTruncate(Given(b)[p].str, key, TRUE)) ELSE Given(b)[p]
    BY <1>3, WalkIs
  <2> HIDE DEF G, key
  <2> QED  BY <1>3, <2>1
<1>6. p \in DOMAIN Ruled(b, keysOnly) /\ Ruled(b, keysOnly)[p] = G[p]
  BY <1>3, RuledAt
<1>7. p \in DOMAIN DocumentOf(b, keysOnly) /\ now = G[p]
  BY <1>1, <1>6, RedactedIs DEF DocumentOf
<1> HIDE DEF G, key, now
<1>8. CASE LeftAlone(p)
  BY <1>5, <1>7, <1>8 DEF now
<1>9. CASE ~LeftAlone(p)
  <2>1. now = Text(MaskAndTruncate(t, key, TRUE))
    BY <1>5, <1>7, <1>9
  <2>2. \A x : IsText(Text(x)) /\ Text(x).str = x
    BY DEF IsText, Text
  <2>3. Shown(t) \intersect Refs \subseteq Shown(MaskAndTruncate(t, key, TRUE))
    BY <1>1, <1>4, <1>9, ShownIs
  <2>4. IsText(now) /\ now.str = MaskAndTruncate(t, key, TRUE)
    BY <2>1, <2>2
  <2> QED  BY <1>7, <2>3, <2>4 DEF now
<1> QED  BY <1>8, <1>9

-----------------------------------------------------------------------------
(* What the hashes of a ConfigMap tell.                                    *)

SizeAt(k) == <<"dataHashes", k, "size">>
HashAt(k) == <<"dataHashes", k, "sha256">>

LEMMA HashPaths ==
    ASSUME NEW k \in Keys, NEW l \in Keys
    PROVE  /\ SizeAt(l) \in Paths /\ HashAt(l) \in Paths
           /\ IsPrefix(<<"dataHashes", k>>, SizeAt(l)) <=> k = l
           /\ IsPrefix(<<"dataHashes", k>>, HashAt(l)) <=> k = l
           /\ SizeAt(l)[3] = "size" /\ HashAt(l)[3] = "sha256"
           /\ SizeAt(l)[1] = "dataHashes" /\ HashAt(l)[1] = "dataHashes"
<1>1. "dataHashes" \in Keys /\ "size" \in Keys /\ "sha256" \in Keys
  BY DocumentsAssumption
<1>2. SizeAt(l) \in Paths /\ HashAt(l) \in Paths
  BY <1>1 DEF Paths, SizeAt, HashAt
<1>3. /\ Len(SizeAt(l)) = 3 /\ SizeAt(l)[1] = "dataHashes" /\ SizeAt(l)[2] = l /\ SizeAt(l)[3] = "size"
      /\ Len(HashAt(l)) = 3 /\ HashAt(l)[1] = "dataHashes" /\ HashAt(l)[2] = l /\ HashAt(l)[3] = "sha256"
  BY DEF SizeAt, HashAt
<1> QED  BY <1>1, <1>2, <1>3, Under2

\* A clean value has its sha256 recorded.
LEMMA CleanTold ==
    ASSUME NEW b \in Bodies, b.kind = "ConfigMap", NEW k \in KeysIn(b.document, "data"),
           Clean(b.document[<<"data", k>>].str)
    PROVE  k \in Told256(b, FALSE)
<1> DEFINE at == <<"data", k>>
           leaf == b.document[at]
           t == leaf.str
<1>1. k \in KeysIn(Seen(b), "data")
  BY DataSeen
<1>2. at \in DOMAIN b.document /\ IsText(leaf) /\ Seen(b)[at] = leaf
  BY <1>1, DataSeen
<1>3. Innocent(k) /\ \A i \in DOMAIN t : t[i].secret = {} /\ ~LineNamesCredential(t[i].key)
  BY CleanAssumption
<1>4. leaf = Text([i \in DOMAIN t |-> Piece(t[i].key, t[i].kept, t[i].secret, t[i].form)])
  BY <1>2, BodyIs DEF IsDocument
<1>5. t = [i \in DOMAIN t |-> Piece(t[i].key, t[i].kept, t[i].secret, t[i].form)] /\ leaf = Text(t)
  <2>1. \A x : Text(x).str = x
    BY DEF Text
  <2> HIDE DEF leaf
  <2> QED  BY <1>4, <2>1
<1>6. MaskAndTruncate(t, k, FALSE) = t
  BY <1>3, <1>5, CleanIs
<1>7. MaskedData(Seen(b))[at] = Text(MaskAndTruncate(Seen(b)[at].str, k, FALSE))
  BY <1>1 DEF MaskedData
<1> HIDE DEF at, leaf, t
<1>8. MaskedData(Seen(b))[at] = Seen(b)[at]
  BY <1>2, <1>5, <1>6, <1>7 DEF t
<1> QED  BY <1>1, <1>8 DEF Told256, at

\* The entry that is recorded of a clean value.
EntryFor(k, value) ==
    [p \in {SizeAt(k), HashAt(k)} |->
        IF p[3] = "size" THEN Other(Cardinality(Told(value.str))) ELSE value]

LEMMA EntryIs ==
    ASSUME NEW b \in Bodies, b.kind = "ConfigMap", NEW s, NEW k \in KeysIn(b.document, "data"),
           Clean(b.document[<<"data", k>>].str)
    PROVE  EntryOf(ItemOf(b, s, FALSE), k) = EntryFor(k, b.document[<<"data", k>>])
<1> DEFINE value == b.document[<<"data", k>>]
           R == Ruled(b, FALSE)
           d == DocumentOf(b, FALSE)
           H == DataHashes(Seen(b), FALSE)
           DK == KeysIn(Seen(b), "data")
<1>1. k \in Told256(b, FALSE) /\ k \in DK /\ DK \subseteq Keys /\ Told256(b, FALSE) \subseteq DK
      /\ Seen(b)[<<"data", k>>] = value
  BY CleanTold, DataSeen DEF Told256
<1>2. /\ DOMAIN H = {SizeAt(l) : l \in DK} \union {HashAt(l) : l \in Told256(b, FALSE)}
      /\ H[SizeAt(k)] = Other(Cardinality(Told(value.str))) /\ H[HashAt(k)] = value
  <2>1. DOMAIN H = {<<"dataHashes", l, "size">> : l \in DK} \union {<<"dataHashes", l, "sha256">> : l \in Told256(b, FALSE)}
    BY DataHashIs
  <2>2. \A l \in DK : H[<<"dataHashes", l, "size">>] = Other(Cardinality(Told(Seen(b)[<<"data", l>>].str)))
    BY DataHashIs
  <2>3. \A l \in Told256(b, FALSE) : H[<<"dataHashes", l, "sha256">>] = Seen(b)[<<"data", l>>]
    BY DataHashIs
  <2> HIDE DEF H, DK, value
  <2> QED  BY <1>1, <2>1, <2>2, <2>3 DEF SizeAt, HashAt
<1>3. Parts(R, b, FALSE)
  BY ConfigMapIs
<1>4. DOMAIN d = DOMAIN R /\ \A p \in DOMAIN R : p[1] = "dataHashes" => d[p] = R[p]
  BY RedactedIs, RedactionsAssumption DEF DocumentOf
<1>5. DOMAIN R \subseteq Paths
  BY RuledPaths
<1> HIDE DEF R, d
<1>6. /\ \A p \in DOMAIN H : p \in DOMAIN R /\ R[p] = H[p] /\ p[1] = "dataHashes"
      /\ \A p \in DOMAIN R : p[1] = "dataHashes" => p \in DOMAIN H
  <2> DEFINE G == Walk(Given(b), NoKey)
             B == BinaryHashes(Seen(b), FALSE)
             D == MaskedData(Seen(b))
  <2>1. /\ DOMAIN R = DOMAIN G \union DOMAIN H \union DOMAIN B \union DOMAIN D
        /\ \A p \in DOMAIN H : R[p] = H[p] /\ p[1] = "dataHashes"
        /\ \A p \in DOMAIN B : p[1] = "binaryDataHashes"
        /\ \A p \in DOMAIN D : p[1] = "data"
    BY <1>3 DEF Parts
  <2>2. \A p \in DOMAIN G : p[1] # "dataHashes"
    BY WalkIs, GivenPaths
  <2> HIDE DEF G, H, B, D
  <2> QED  BY <2>1, <2>2
<1>7. Below(<<"dataHashes", k>>, d) = {SizeAt(k), HashAt(k)}
  <2> HIDE DEF H, DK
  <2>1. SizeAt(k) \in DOMAIN d /\ HashAt(k) \in DOMAIN d
    BY <1>1, <1>2, <1>4, <1>6
  <2>2. IsPrefix(<<"dataHashes", k>>, SizeAt(k)) /\ IsPrefix(<<"dataHashes", k>>, HashAt(k))
    BY <1>1, HashPaths
  <2>3. ASSUME NEW p \in DOMAIN d, IsPrefix(<<"dataHashes", k>>, p) PROVE p \in {SizeAt(k), HashAt(k)}
    <3>1. p[1] = "dataHashes"
      BY <1>1, <1>4, <1>5, <2>3, Under2, DocumentsAssumption
    <3>2. p \in DOMAIN H
      BY <1>4, <1>6, <3>1
    <3>3. PICK l \in DK : p = SizeAt(l) \/ p = HashAt(l)
      BY <1>1, <1>2, <3>2
    <3>4. l = k
      BY <1>1, <2>3, <3>3, HashPaths
    <3> QED  BY <3>3, <3>4
  <2> QED  BY <2>1, <2>2, <2>3 DEF Below
<1>8. d[SizeAt(k)] = Other(Cardinality(Told(value.str))) /\ d[HashAt(k)] = value
  <2> HIDE DEF H, DK, value
  <2>1. SizeAt(k) \in DOMAIN H /\ HashAt(k) \in DOMAIN H
    BY <1>1, <1>2
  <2> QED  BY <1>2, <1>4, <1>6, <2>1
<1>9. ItemOf(b, s, FALSE).document = d
  BY DEF ItemOf, d
<1>10. EntryOf(ItemOf(b, s, FALSE), k) = [p \in {SizeAt(k), HashAt(k)} |-> d[p]]
  BY <1>7, <1>9 DEF EntryOf
<1>11. SizeAt(k)[3] = "size" /\ HashAt(k)[3] = "sha256"
  BY <1>1, HashPaths
<1>12. \A p \in {SizeAt(k), HashAt(k)} :
          d[p] = IF p[3] = "size" THEN Other(Cardinality(Told(value.str))) ELSE value
  <2> HIDE DEF value
  <2> QED  BY <1>8, <1>11
<1> HIDE DEF value
<1>13. EntryOf(ItemOf(b, s, FALSE), k) = EntryFor(k, value)
  BY <1>10, <1>12 DEF EntryFor
<1> QED  BY <1>13 DEF value

-----------------------------------------------------------------------------
(* The invariant: an item is a function of the body, the status and the    *)
(* mode it was pushed under, whatever version the object had reached.      *)

ItemInv ==
    /\ body \in Bodies /\ status \in Statuses /\ version \in 0..MaxWrites /\ mode \in Modes
    /\ \A p \in pushed :
          /\ p.body \in Bodies /\ p.status \in Statuses
          /\ p.item = ItemOf(p.body, p.status, mode = "keysOnly")

LEMMA ItemInitInv == ItemInit => ItemInv
BY WritesAssumption DEF ItemInit, ItemInv

LEMMA ItemStepInv == ItemInv /\ [ItemNext]_itemVars => ItemInv'
<1> SUFFICES ASSUME ItemInv, [ItemNext]_itemVars PROVE ItemInv'
  OBVIOUS
<1>1. CASE Write
  BY <1>1, WritesAssumption DEF Write, ItemInv
<1>2. CASE Visit
  <2> DEFINE item == BuildItem(Stamped(body.kind, Raw(body, status, version)), mode = "keysOnly")
  <2>1. item = ItemOf(body, status, mode = "keysOnly")
    BY ItemIs DEF ItemInv
  <2> HIDE DEF item
  <2>2. pushed' = pushed \union {[body |-> body, status |-> status, item |-> item]}
    BY <1>2 DEF Visit, item
  <2>3. UNCHANGED <<body, status, version, mode>>
    BY <1>2 DEF Visit
  <2> QED  BY <2>1, <2>2, <2>3 DEF ItemInv
<1>3. CASE UNCHANGED itemVars
  BY <1>3 DEF itemVars, ItemInv
<1> QED  BY <1>1, <1>2, <1>3 DEF ItemNext

\* Every item that was pushed is the function of the body, the status and the
\* mode that ItemOf is: of no version, and of no write in between.
THEOREM ItemInvariant == ItemSpec => []ItemInv
<1>1. ItemInit => ItemInv
  BY ItemInitInv
<1>2. ItemInv /\ [ItemNext]_itemVars => ItemInv'
  BY ItemStepInv
<1> QED  BY <1>1, <1>2, PTL DEF ItemSpec

\* "A status refresh never rewrites the document": what is pushed of a body is
\* the same under any status, however often the object was written to.
THEOREM DocumentsOutlastStatuses == ItemSpec => []StatusRefreshKeepsDocument
<1>1. ItemInv => StatusRefreshKeepsDocument
  <2> SUFFICES ASSUME ItemInv, NEW p \in pushed, NEW q \in pushed, p.body = q.body
               PROVE  p.item.document = q.item.document
    BY DEF StatusRefreshKeepsDocument
  <2>1. /\ p.item = ItemOf(p.body, p.status, mode = "keysOnly")
        /\ q.item = ItemOf(q.body, q.status, mode = "keysOnly")
    BY DEF ItemInv
  <2>2. \A b, s : ItemOf(b, s, mode = "keysOnly").document = DocumentOf(b, mode = "keysOnly")
    BY DEF ItemOf
  <2> QED  BY <2>1, <2>2
<1> QED  BY <1>1, ItemInvariant, PTL

\* The types of the state; no item has its status in its document.
THEOREM ItemTypeCorrect == ItemSpec => []ItemTypeOK
<1>1. ItemInv => ItemTypeOK
  <2> SUFFICES ASSUME ItemInv, NEW p \in pushed
               PROVE  DOMAIN p.item = {"document", "status", "labels", "names"} /\ Below(<<"status">>, p.item.document) = {}
    BY DEF ItemInv, ItemTypeOK
  <2> DEFINE keysOnly == mode = "keysOnly"
  <2>1. p.body \in Bodies /\ p.item = ItemOf(p.body, p.status, keysOnly) /\ keysOnly \in BOOLEAN
    BY DEF ItemInv
  <2> HIDE DEF keysOnly
  <2>2. DOMAIN p.item = {"document", "status", "labels", "names"} /\ p.item.document = DocumentOf(p.body, keysOnly)
    BY <2>1 DEF ItemOf
  <2>3. DOMAIN DocumentOf(p.body, keysOnly) = DOMAIN Ruled(p.body, keysOnly)
    BY RedactedIs DEF DocumentOf
  <2>4. ASSUME NEW q \in DOMAIN DocumentOf(p.body, keysOnly) PROVE ~IsPrefix(<<"status">>, q)
    <3>1. q \in Paths /\ q[1] # "status"
      BY <2>1, <2>3, RuledPaths
    <3> QED  BY <3>1, Under1, DocumentsAssumption
  <2> QED  BY <2>2, <2>4 DEF Below
<1> QED  BY <1>1, ItemInvariant, PTL

\* No credential that a rule covers is in an item's document, status, labels or
\* names, in the clear or as a hash, and in the mode keysOnly nothing of a
\* ConfigMap's data is.
THEOREM NothingHiddenIsPushed == ItemSpec => []NothingHiddenLeaves
<1>1. ItemInv => NothingHiddenLeaves
  <2> DEFINE keysOnly == mode = "keysOnly"
  <2> SUFFICES ASSUME ItemInv, NEW p \in pushed, NEW leaf \in LeavesOf(p.item), IsText(leaf)
               PROVE  Harmless(leaf.str, keysOnly)
    BY DEF NothingHiddenLeaves, Harmless
  <2>1. /\ p.body \in Bodies /\ p.status \in Statuses
        /\ p.item = ItemOf(p.body, p.status, keysOnly) /\ keysOnly \in BOOLEAN
    BY DEF ItemInv
  <2> HIDE DEF keysOnly
  <2> DEFINE d == DocumentOf(p.body, keysOnly)
             s == Walk(p.status, "status")
             labels == Restrict(d, Below(<<"metadata", "labels">>, d))
             names == Restrict(p.body.document, NamePaths \intersect DOMAIN p.body.document)
  <2>2. p.item.document = d /\ p.item.status = s /\ p.item.labels = labels /\ p.item.names = names
    BY <2>1 DEF ItemOf
  <2>3. \A q \in DOMAIN labels : q \in DOMAIN d /\ labels[q] = d[q]
    BY DEF Restrict, Below
  <2>4. DOMAIN s = DOMAIN p.status
    BY WalkIs
  <2>5. \A q \in DOMAIN names : q \in NamePaths \intersect DOMAIN p.body.document /\ names[q] = p.body.document[q]
    BY DEF Restrict
  <2>6. \/ \E q \in DOMAIN d : leaf = d[q]
        \/ \E q \in DOMAIN s : leaf = s[q]
        \/ \E q \in NamePaths \intersect DOMAIN p.body.document : leaf = p.body.document[q]
    <3> HIDE DEF d, s, labels, names
    <3> QED  BY <2>2, <2>3, <2>5 DEF LeavesOf, Range
  <2>7. ASSUME NEW q \in DOMAIN d, leaf = d[q] PROVE Harmless(leaf.str, keysOnly)
    BY <2>1, <2>7, DocumentTells
  <2>8. ASSUME NEW q \in DOMAIN s, leaf = s[q] PROVE Harmless(leaf.str, keysOnly)
    BY <2>1, <2>4, <2>8, StatusTells
  <2>9. ASSUME NEW q \in NamePaths \intersect DOMAIN p.body.document, leaf = p.body.document[q]
        PROVE  Harmless(leaf.str, keysOnly)
    <3>1. q[1] = "metadata"
      BY DEF NamePaths
    <3> QED  BY <2>1, <2>9, <3>1, SecretsAssumption DEF Harmless
  <2> QED  BY <2>6, <2>7, <2>8, <2>9
<1> QED  BY <1>1, ItemInvariant, PTL

\* Every reference in a body is in the clear in its document, where it was.
THEOREM ReferencesStay == ItemSpec => []ReferencesSurvive
<1>1. ItemInv => ReferencesSurvive
  <2> DEFINE keysOnly == mode = "keysOnly"
  <2> SUFFICES ASSUME ItemInv, NEW p \in pushed, NEW at \in DOMAIN p.body.document,
                      IsText(p.body.document[at]), Shown(p.body.document[at].str) \intersect Refs # {}
               PROVE  /\ at \in DOMAIN p.item.document /\ IsText(p.item.document[at])
                      /\ Shown(p.body.document[at].str) \intersect Refs \subseteq Shown(p.item.document[at].str)
    BY DEF ReferencesSurvive
  <2>1. p.body \in Bodies /\ p.item = ItemOf(p.body, p.status, keysOnly) /\ keysOnly \in BOOLEAN
    BY DEF ItemInv
  <2> HIDE DEF keysOnly
  <2>2. p.item.document = DocumentOf(p.body, keysOnly)
    BY <2>1 DEF ItemOf
  <2> QED  BY <2>1, <2>2, ReferencesKept
<1> QED  BY <1>1, ItemInvariant, PTL

\* Two values of a ConfigMap's key that are both free of credentials have the
\* same entry just when they are the same.
THEOREM HashesTellThem == ItemSpec => []HashesTellValues
<1>1. ItemInv => HashesTellValues
  <2> SUFFICES ASSUME ItemInv, mode = "store",
                      NEW p \in pushed, NEW q \in pushed, p.body.kind = "ConfigMap", q.body.kind = "ConfigMap",
                      NEW k \in KeysIn(p.body.document, "data") \intersect KeysIn(q.body.document, "data"),
                      Clean(p.body.document[<<"data", k>>].str), Clean(q.body.document[<<"data", k>>].str)
               PROVE  EntryOf(p.item, k) = EntryOf(q.item, k)
                      <=> p.body.document[<<"data", k>>] = q.body.document[<<"data", k>>]
    BY DEF HashesTellValues
  <2> DEFINE old == p.body.document[<<"data", k>>]
             new == q.body.document[<<"data", k>>]
  <2>1. /\ p.body \in Bodies /\ p.item = ItemOf(p.body, p.status, FALSE)
        /\ q.body \in Bodies /\ q.item = ItemOf(q.body, q.status, FALSE)
    BY DEF ItemInv
  <2>2. EntryOf(p.item, k) = EntryFor(k, old)
    BY <2>1, EntryIs
  <2>3. EntryOf(q.item, k) = EntryFor(k, new)
    BY <2>1, EntryIs
  <2>4. k \in Keys
    BY <2>1, DataSeen
  <2>5. HashAt(k)[3] # "size"
    BY <2>4, HashPaths
  <2>6. \A value : EntryFor(k, value)[HashAt(k)] = value
    BY <2>5 DEF EntryFor
  <2> HIDE DEF old, new
  <2>7. EntryFor(k, old) = EntryFor(k, new) <=> old = new
    BY <2>6
  <2> QED  BY <2>2, <2>3, <2>7 DEF old, new
<1> QED  BY <1>1, ItemInvariant, PTL

-----------------------------------------------------------------------------
(* The images: what the jobs of build-push.yaml guarantee together.        *)

USE DEF vars

\* The image published last passed the test job and the label's own checks,
\* whatever it was compared with.
Checked(c) == Tested(c) /\ Labelled(c) /\ Named(c)
ImageChecked == image = NoTree \/ Checked(image)

IInv == TypeOK /\ ImageChecked /\ PublishedSchemasStay

\* export_schemas.py writes the file of the model's version, and git diff
\* compares it: in a tested commit that file, if it is there, is the model's.
LEMMA TestedFileIsCurrent ==
    ASSUME NEW c \in Trees, Tested(c), c.version # NoVersion, c.version \in DOMAIN c.files
    PROVE  c.files[c.version].json = c.shape
<1>1. Export(c)[c.version] = c.files[c.version]
  BY DEF Tested
<1>2. Export(c)[c.version] = [json |-> c.shape, exported |-> TRUE]
  BY DEF Export
<1> QED  BY <1>1, <1>2

\* So the reference of a commit that passed all checks of its own resolves in
\* its label to its own model's schema.
LEMMA CheckedReference ==
    ASSUME NEW c \in Trees, Checked(c), c.ref # NoVersion
    PROVE  <<c.ref, c.shape>> \in Label(c)
<1>1. c.ref = c.version /\ c.ref \in DOMAIN c.files
  BY DEF Checked, Tested, Labelled
<1>2. c.files[c.ref].json = c.shape
  BY <1>1, TestedFileIsCurrent DEF Checked
<1> QED  BY <1>1, <1>2 DEF Label

\* A commit that is prepared against a base has in its label all that a label
\* of the base has under a version.
LEMMA PreparedKeeps ==
    ASSUME NEW c \in Trees, NEW base \in Trees, Prepared(c, base),
           NEW v \in Versions, NEW s, <<v, s>> \in Label(base)
    PROVE  <<v, s>> \in Label(c)
<1>1. PICK f \in DOMAIN base.files : <<v, s>> = <<f, base.files[f].json>>
  BY DEF Label
<1>2. base # NoTree
  BY NoTreeAssumption
<1>3. v \in DOMAIN c.files /\ c.files[v].json = s
  BY <1>1, <1>2 DEF Prepared, Immutable
<1> QED  BY <1>3 DEF Label

\* The label of a prepared commit has schemas only, under versions only.
LEMMA PreparedLabel ==
    ASSUME NEW c \in Trees, NEW base, Prepared(c, base)
    PROVE  Label(c) \subseteq Versions \X Shapes
<1> SUFFICES ASSUME NEW f \in DOMAIN c.files
             PROVE  f \in Versions /\ c.files[f].json \in Shapes
  BY DEF Label
<1>1. c.files[f].json \in Shapes \union {NotJson}
  BY TreesAssumption DEF Texts
<1> QED  BY <1>1 DEF Prepared, Labelled, Named

LEMMA InitHolds == Init => IInv
BY DEF Init, IInv, TypeOK, ImageChecked, PublishedSchemasStay

LEMMA BuildHolds ==
    ASSUME IInv, NEW c \in Trees, NEW base, Builds(c, base)
    PROVE  image' \in Trees /\ ImageChecked'
BY DEF Builds, ImageChecked, Checked, Prepared, Tested, Labelled, Named, Export

\* Where the branch goes on from a base that is its tip, or that nobody can
\* resolve.
LEMMA AdvanceHolds ==
    ASSUME IInv, NEW c \in Trees, NEW base \in {tip, NoTree}, Advance(c, base)
    PROVE  IInv'
<1> DEFINE kept == IF base # NoTree /\ Prepared(c, base) THEN promised ELSE promised \intersect Label(c)
<1>1. tip' = c /\ (\/ Builds(c, base) /\ promised' = kept \union Label(c)
                   \/ BuildFails /\ promised' = kept)
  BY DEF Advance
<1>2. kept \subseteq Versions \X Shapes
  BY DEF IInv, TypeOK
<1>3. kept \subseteq Label(c)
  <2> SUFFICES ASSUME base # NoTree, Prepared(c, base), NEW p \in promised
               PROVE  p \in Label(c)
    OBVIOUS
  <2>1. base = tip /\ tip \in Trees
    BY DEF IInv, TypeOK
  <2>2. p \in Label(base) /\ p \in Versions \X Shapes
    BY <2>1 DEF IInv, TypeOK, PublishedSchemasStay
  <2>3. PICK v \in Versions, s \in Shapes : p = <<v, s>>
    BY <2>2
  <2> QED  BY <2>1, <2>2, <2>3, PreparedKeeps
<1>4. CASE Builds(c, base) /\ promised' = kept \union Label(c)
  <2>1. Label(c) \subseteq Versions \X Shapes
    BY <1>4, PreparedLabel DEF Builds
  <2>2. Label(tip') = Label(c)
    BY <1>1
  <2>3. TypeOK'
    BY <1>1, <1>2, <1>4, <2>1, BuildHolds DEF TypeOK
  <2>4. PublishedSchemasStay'
    BY <1>3, <1>4, <2>2 DEF PublishedSchemasStay
  <2> QED  BY <1>4, <2>3, <2>4, BuildHolds DEF IInv
<1>5. CASE BuildFails /\ promised' = kept
  <2>1. TypeOK'
    BY <1>1, <1>2, <1>5 DEF TypeOK, BuildFails, IInv
  <2>2. ImageChecked'
    BY <1>5 DEF ImageChecked, BuildFails, IInv, Checked, Tested, Labelled, Named, Export
  <2>3. PublishedSchemasStay'
    BY <1>1, <1>3, <1>5 DEF PublishedSchemasStay, Label
  <2> QED  BY <2>1, <2>2, <2>3 DEF IInv
<1> QED  BY <1>1, <1>4, <1>5

\* An image of some other commit leaves the branch and its promises alone.
LEMMA AsideHolds ==
    ASSUME IInv, NEW c \in Trees, NEW base, Builds(c, base), UNCHANGED <<tip, promised>>
    PROVE  IInv'
<1>1. TypeOK'
  BY BuildHolds DEF IInv, TypeOK
<1>2. PublishedSchemasStay'
  BY DEF IInv, PublishedSchemasStay, Label
<1> QED  BY <1>1, <1>2, BuildHolds DEF IInv

LEMMA StepHolds == IInv /\ [Next]_vars => IInv'
<1> SUFFICES ASSUME IInv, [Next]_vars PROVE IInv'
  OBVIOUS
<1>1. ASSUME NEW c \in Trees, Push(c) PROVE IInv'
  BY <1>1, AdvanceHolds DEF Push
<1>2. ASSUME NEW c \in Trees, ForcePush(c) PROVE IInv'
  BY <1>2, AdvanceHolds DEF ForcePush
<1>3. ASSUME NEW c \in Trees, PullRequest(c) PROVE IInv'
  BY <1>3, AsideHolds DEF PullRequest
<1>4. ASSUME NEW c \in Trees, Elsewhere(c) PROVE IInv'
  BY <1>4, AsideHolds DEF Elsewhere
<1>5. ASSUME Dispatch PROVE IInv'
  <2>1. tip \in Trees /\ Builds(tip, NoTree)
    BY <1>5 DEF Dispatch, IInv, TypeOK
  <2>2. tip' = tip /\ promised' = promised \union Label(tip)
    BY <1>5 DEF Dispatch
  <2>3. Label(tip) \subseteq Versions \X Shapes
    BY <2>1, PreparedLabel DEF Builds
  <2>4. TypeOK'
    BY <2>1, <2>2, <2>3, BuildHolds DEF IInv, TypeOK
  <2>5. PublishedSchemasStay'
    BY <2>2 DEF IInv, PublishedSchemasStay, Label
  <2> QED  BY <2>1, <2>4, <2>5, BuildHolds DEF IInv
<1>6. CASE UNCHANGED vars
  BY <1>6 DEF IInv, TypeOK, ImageChecked, PublishedSchemasStay, Checked, Tested, Labelled, Named,
              Export, Label
<1> QED  BY <1>1, <1>2, <1>3, <1>4, <1>5, <1>6 DEF Next

LEMMA Invariance == Spec => []IInv
<1> QED  BY InitHolds, StepHolds, PTL DEF Spec

\* The branch and the image are commits, and nothing but versioned schemas is
\* ever promised.
THEOREM TypeCorrect == Spec => []TypeOK
<1>1. IInv => TypeOK
  BY DEF IInv
<1> QED  BY <1>1, Invariance, PTL

\* For any commits: the schema that the manifest of a published image refers
\* to is in its label, and is that of the image's own model -- whichever event
\* published it, and whatever it was compared with.
THEOREM ReferencedSchemasAreCurrent == Spec => []ReferencedSchemaIsCurrent
<1>1. IInv => ReferencedSchemaIsCurrent
  BY CheckedReference DEF IInv, TypeOK, ImageChecked, ReferencedSchemaIsCurrent
<1> QED  BY <1>1, Invariance, PTL

\* For any commits and any number of pushes, failed and forced ones among
\* them: what an image of the branch has published is in the branch, unchanged,
\* until a push takes away that very schema whose own prepare job refused it,
\* or that was compared with nothing.
THEOREM SchemasStay == Spec => []PublishedSchemasStay
<1>1. IInv => PublishedSchemasStay
  BY DEF IInv
<1> QED  BY <1>1, Invariance, PTL
=============================================================================
