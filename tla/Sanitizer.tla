------------------------------ MODULE Sanitizer ------------------------------
(***************************************************************************)
(* rwdiscovery/sanitize.py and _build_item of discover.py: what of a raw   *)
(* object becomes the item that is pushed, while the object is written to  *)
(* between one run of discover and the next.                               *)
(*                                                                         *)
(* A document is a tree of dictionaries and lists. Here it is the function *)
(* of its leaves: each has a path, the keys and positions that lead to it, *)
(* and is [str |-> text] or [other |-> anything else]; to replace, drop or *)
(* mask is then to do so at some paths. A text is a sequence of pieces:    *)
(* the values that stand in the clear (kept), those that have the form of  *)
(* a credential (secret), and the key of the line they are on, if it is a  *)
(* `key=value` one. A sha256 is the text it is of: it commits to that      *)
(* text. A key is known by its words, `api_key` being the one word apikey,  *)
(* and by what it has in it, or ends in, once its separators are gone.     *)
(*                                                                         *)
(* The rollups of an item are those of module Rollups; the messages of     *)
(* events in them are not modelled.                                        *)
(***************************************************************************)
EXTENDS Integers, Sequences, SequencesExt, FiniteSets

CONSTANTS
    Keys,           \* what paths are made of: keys, and
    Positions,      \* positions in lists
    Bodies,         \* what an object may be: [kind, document], without status
    Statuses,       \* its statuses, documents too
    Modes,          \* configMapValues: "store", "keysOnly"
    WordsOf,        \* the words of the keys that have several
    InsideOf,       \* the words within a word, of the keys that have some
    EndsOf,         \* and those of them that the key ends in
    AllowedKeys,    \* annotations with an allowed prefix
    Redactions,     \* the overlay's paths
    NoKey,
    Longs,          \* the values over 16 KB
    Secrets,        \* the values that are credentials, wherever they stand
    Refs,           \* the values that are references to other objects
    DataValues,     \* the values only a ConfigMap's data holds
    MaxWrites       \* bound: writes to the object

VARIABLES body, status, version, mode,
          pushed    \* the items pushed so far, with what each was made of

itemVars == <<body, status, version, mode, pushed>>

Piece(key, kept, secret, form) == [key |-> key, kept |-> kept, secret |-> secret, form |-> form]
Text(t) == [str |-> t]
Other(x) == [other |-> x]
IsText(leaf) == "str" \in DOMAIN leaf
IsDocument(d) ==
    /\ d = [p \in DOMAIN d |-> d[p]] /\ DOMAIN d \subseteq Seq(Keys) \ {<<>>}
    /\ \A p \in DOMAIN d : IsText(d[p]) =>
          LET t == d[p].str
          IN  d[p] = Text([i \in DOMAIN t |-> Piece(t[i].key, t[i].kept, t[i].secret, t[i].form)])

\* All that a text tells, in the clear or by a hash; and what it tells in the clear.
Told(t) == UNION {t[i].kept \union t[i].secret : i \in DOMAIN t}
Shown(t) == UNION {t[i].kept : i \in {j \in DOMAIN t : t[j].form # "truncated"}}

\* {**d, **e}, d without what is at or below some paths, and the keys of d[field].
With(d, e) == [p \in DOMAIN d \union DOMAIN e |-> IF p \in DOMAIN e THEN e[p] ELSE d[p]]
Below(at, d) == {p \in DOMAIN d : IsPrefix(at, p)}
Without(d, paths) == Restrict(d, DOMAIN d \ UNION {Below(at, d) : at \in paths})
KeysIn(d, field) == {p[2] : p \in {q \in Below(<<field>>, d) : Len(q) = 2}}
NameAt(d, p) ==
    IF p \in DOMAIN d /\ IsText(d[p]) /\ Told(d[p].str) # {}
    THEN CHOOSE v \in Told(d[p].str) : TRUE ELSE NoKey

-----------------------------------------------------------------------------
SecretWords == {"password", "passwd", "passphrase", "secret", "token", "apikey",
                "privatekey", "credential", "credentials"}
ShortWords == {"pass", "pwd", "pw"}
ReferenceWords == {"name", "names", "ref", "refs", "namespace"}
Words(k) == IF k \in DOMAIN WordsOf THEN WordsOf[k] ELSE <<k>>
Inside(k) == Range(Words(k)) \union (IF k \in DOMAIN InsideOf THEN InsideOf[k] ELSE {})
Ends(k) == {Last(Words(k))} \union (IF k \in DOMAIN EndsOf THEN EndsOf[k] ELSE {})

\* Mutant: keys that name an object are not exempt.
NamesCredential_RefsToo(k) ==
    \/ Inside(k) \intersect SecretWords # {}
    \/ Range(Words(k)) \intersect ShortWords # {}

\* The key of a field, or the name of a name/value pair: a short word must be
\* a word of it, others may be anywhere in it, unless it ends as a reference.
NamesCredential(k) ==
    /\ k # NoKey /\ Ends(k) \intersect ReferenceWords = {}
    /\ Inside(k) \intersect SecretWords # {} \/ Range(Words(k)) \intersect ShortWords # {}

\* The key of a line: what it ends in counts, or a short word anywhere.
LineNamesCredential(k) ==
    /\ k # NoKey
    /\ Ends(k) \intersect SecretWords # {} \/ Range(Words(k)) \intersect ShortWords # {}

Marker(form) == <<Piece(NoKey, {}, {}, form)>>

\* Each credential in a text gives way to a marker; what is around it stays.
MaskShapes(t) ==
    [i \in DOMAIN t |->
        IF LineNamesCredential(t[i].key) THEN Piece(t[i].key, {}, {}, "credential")
        ELSE Piece(t[i].key, t[i].kept, {}, t[i].form)]

Overlong(t) == Told(t) \intersect Longs # {}
Truncated(t) == <<Piece(NoKey, Told(t), {}, "truncated")>>

MaskAndTruncate(t, key, truncate) ==
    IF NamesCredential(key) THEN Marker("credential")
    ELSE LET m == MaskShapes(t) IN IF truncate /\ Overlong(m) THEN Truncated(m) ELSE m

-----------------------------------------------------------------------------
\* Where a list called env begins on a path, and the length of the path of
\* its entry.
EnvEntry(p) ==
    LET entries == {i \in 2..Len(p) : p[i - 1] = "env" /\ p[i] \in Positions}
    IN  IF entries = {} THEN 0 ELSE Min(entries)

\* _sanitize_env_list: of an entry only its value is looked at.
LeftAlone(p) == EnvEntry(p) # 0 /\ ~(Len(p) = EnvEntry(p) + 1 /\ Last(p) = "value")

\* The key that a string is judged by: the name beside a value, or the last
\* key on its path.
Beside(p) == Append(Front(p), "name")
IsPair(d, p) == Last(p) = "value" /\ Beside(p) \in DOMAIN d /\ IsText(d[Beside(p)])
KeyOf(d, p, outer) ==
    LET last == SelectLastInSeq(p, LAMBDA step : step \notin Positions)
    IN  IF IsPair(d, p) THEN NameAt(d, Beside(p))
        ELSE IF EnvEntry(p) # 0 THEN NoKey
        ELSE IF last = 0 THEN outer ELSE p[last]

Walk(d, outer) ==
    [p \in DOMAIN d |->
        IF IsText(d[p]) /\ ~LeftAlone(p)
        THEN Text(MaskAndTruncate(d[p].str, KeyOf(d, p, outer), TRUE)) ELSE d[p]]

\* Mutant: resourceVersion stays.
StripMetadata_KeepsVersion(d) ==
    Without(d, {<<"metadata", "managedFields">>, <<"metadata", "annotations", "lastApplied">>})

StripMetadata(d) ==
    Without(d, {<<"metadata", "managedFields">>, <<"metadata", "resourceVersion">>,
                <<"metadata", "annotations", "lastApplied">>})

SecretAnnotations(d) ==
    [p \in DOMAIN d |->
        IF IsPrefix(<<"metadata", "annotations">>, p) /\ Len(p) > 2 /\ p[3] \notin AllowedKeys
        THEN Text(Marker("secret-annotation")) ELSE d[p]]

\* data and stringData go, their keys stay.
SanitizeSecret(d) ==
    With(Walk(Without(SecretAnnotations(d), {<<"data">>, <<"stringData">>}), NoKey),
         [p \in {<<"secretKeys">>} |-> Other(KeysIn(d, "data") \union KeysIn(d, "stringData"))])

\* What is recorded of each value: its size, and its sha256 if it may be told.
Fingerprints(to, from, d, tell) ==
    [p \in {<<to, k, "size">> : k \in KeysIn(d, from)} \union {<<to, k, "sha256">> : k \in tell} |->
        LET value == d[<<from, p[2]>>]
        IN  IF p[3] = "size" THEN Other(Cardinality(Told(value.str))) ELSE value]

\* Mutant: values are cut off like any other string.
MaskedData_Truncated(d) ==
    [p \in {<<"data", k>> : k \in KeysIn(d, "data")} |-> Text(MaskAndTruncate(d[p].str, p[2], TRUE))]

MaskedData(d) ==
    [p \in {<<"data", k>> : k \in KeysIn(d, "data")} |-> Text(MaskAndTruncate(d[p].str, p[2], FALSE))]

DataHashes(d, keysOnly) ==
    Fingerprints("dataHashes", "data", d,
        {k \in KeysIn(d, "data") : ~keysOnly /\ MaskedData(d)[<<"data", k>>] = d[<<"data", k>>]})

BinaryHashes(d, keysOnly) ==
    Fingerprints("binaryDataHashes", "binaryData", d,
        {k \in KeysIn(d, "binaryData") : ~keysOnly /\ ~NamesCredential(k)})

SanitizeConfigMap(d, keysOnly) ==
    LET rest == Walk(Without(d, {<<"data">>, <<"binaryData">>}), NoKey)
        hashed == With(With(rest, DataHashes(d, keysOnly)), BinaryHashes(d, keysOnly))
    IN  IF keysOnly THEN hashed ELSE With(hashed, MaskedData(d))

\* apply_extra_redactions: a path has keys only, and leads to a string.
Redacted(d) ==
    [p \in DOMAIN d |->
        IF p \in Redactions /\ IsText(d[p]) THEN Text(Marker("overlay-redacted")) ELSE d[p]]

-----------------------------------------------------------------------------
\* Bodies and statuses are documents; a body has no field that the API or the
\* sanitizer adds, and a ConfigMap's data are texts.
ASSUME DocumentsAssumption ==
    /\ Positions \subseteq Keys
    /\ {"metadata", "managedFields", "resourceVersion", "annotations", "lastApplied", "labels", "name",
        "status", "kind", "data", "stringData", "binaryData", "secretKeys", "dataHashes", "binaryDataHashes",
        "size", "sha256", "1"} \subseteq Keys
    /\ AllowedKeys \intersect {"name", "value"} = {}
    /\ \A s \in Statuses : IsDocument(s)
    /\ \A b \in Bodies : IsDocument(b.document) /\ \A p \in DOMAIN b.document :
          /\ p[1] \notin {"status", "secretKeys", "dataHashes", "binaryDataHashes"}
          /\ b.kind = "ConfigMap" /\ p[1] \in {"data", "binaryData"} => Len(p) = 2 /\ IsText(b.document[p])
ASSUME WritesAssumption == MaxWrites \in Nat
ASSUME RedactionsAssumption == \A p \in Redactions : p[1] \notin {"dataHashes", "binaryDataHashes"}

\* Where a body's credentials are: a field that is dropped or redacted, or a
\* text of which one of the rules says so; never an object's uid or names.
Dropped(p) ==
    \E field \in {<<"metadata", "managedFields">>, <<"metadata", "resourceVersion">>,
                  <<"metadata", "annotations", "lastApplied">>} : IsPrefix(field, p)
InSecret(p) ==
    p[1] \in {"data", "stringData"}
    \/ (IsPrefix(<<"metadata", "annotations">>, p) /\ Len(p) > 2 /\ p[3] \notin AllowedKeys)
Covers(key, t) ==
    \/ NamesCredential(key)
    \/ \A i \in DOMAIN t : t[i].kept \intersect Secrets = {} \/ LineNamesCredential(t[i].key)
Covered(b, p) ==
    IF b.kind = "ConfigMap" /\ p[1] = "data" THEN Covers(p[2], b.document[p].str)
    ELSE IF b.kind = "ConfigMap" /\ p[1] = "binaryData" THEN NamesCredential(p[2])
    ELSE \/ Dropped(p) \/ p \in Redactions \/ (b.kind = "Secret" /\ InSecret(p))
         \/ ~LeftAlone(p) /\ Covers(KeyOf(b.document, p, NoKey), b.document[p].str)
NamePaths == {<<"metadata", "uid">>, <<"metadata", "name">>, <<"metadata", "namespace">>}
ASSUME SecretsAssumption ==
    /\ \A b \in Bodies :
          /\ b.kind \notin Secrets \union DataValues
          /\ \A p \in {q \in DOMAIN b.document : IsText(b.document[q])} :
                /\ Told(b.document[p].str) \intersect Secrets # {} => Covered(b, p) /\ p \notin NamePaths
                /\ Told(b.document[p].str) \intersect DataValues # {} =>
                      b.kind = "ConfigMap" /\ p[1] \in {"data", "binaryData"}
    /\ \A s \in Statuses : \A p \in {q \in DOMAIN s : IsText(s[q])} :
          /\ Told(s[p].str) \intersect Secrets # {} =>
                ~LeftAlone(p) /\ Covers(KeyOf(s, p, "status"), s[p].str)
          /\ Told(s[p].str) \intersect DataValues = {}

\* What is no credential does not look like one: the key of a reference, or of
\* a value that is `Clean`, ends in a word for references or has none for
\* credentials, no reference is overlong, and none is in a field that is
\* dropped, redacted, or data.
Innocent(key) ==
    \/ key = NoKey \/ Ends(key) \intersect ReferenceWords # {}
    \/ Inside(key) \intersect SecretWords = {} /\ Range(Words(key)) \intersect ShortWords = {}
ASSUME ReferencesAssumption ==
    \A b \in Bodies : \A p \in {q \in DOMAIN b.document : IsText(b.document[q])} :
        LET t == b.document[p].str
        IN  Shown(t) \intersect Refs # {} =>
            /\ ~Dropped(p) /\ p \notin Redactions \union {<<"kind">>}
            /\ b.kind = "Secret" => ~InSecret(p)
            /\ b.kind = "ConfigMap" => p[1] \notin {"data", "binaryData"}
            /\ Told(t) \intersect Longs = {}
            /\ LeftAlone(p) \/ Innocent(KeyOf(b.document, p, NoKey))
            /\ \A i \in DOMAIN t : LineNamesCredential(t[i].key) => t[i].kept \intersect Refs = {}
Clean(t) == Told(t) \subseteq DataValues \ Secrets
ASSUME CleanAssumption ==
    \A b \in {c \in Bodies : c.kind = "ConfigMap"} : \A k \in KeysIn(b.document, "data") :
        LET t == b.document[<<"data", k>>].str
        IN  Clean(t) =>
            Innocent(k) /\ \A i \in DOMAIN t : t[i].secret = {} /\ ~LineNamesCredential(t[i].key)

-----------------------------------------------------------------------------
\* What the API gives of an object: its status, and metadata of its own.
Raw(b, s, v) ==
    With(With(b.document, [p \in {<<"status">> \o q : q \in DOMAIN s} |-> s[Tail(p)]]),
         [p \in {<<"metadata", "resourceVersion">>, <<"metadata", "managedFields", "1">>} |-> Other(v)])

\* An object of a list has no kind: it is stamped with that of the listing
\* (paginate.py). Mutant: it is not.
Stamped_Not(kind, obj) == obj
Stamped(kind, obj) == With(obj, [p \in {<<"kind">>} |-> Text(<<Piece(NoKey, {kind}, {}, "none")>>)])

\* Mutant: the status stays.
Popped_Not(obj) == obj
Popped(obj) == Without(obj, {<<"status">>})
StatusOf(obj) ==
    [p \in {Tail(q) : q \in Below(<<"status">>, obj)} |-> obj[<<"status">> \o p]]

Sanitize(raw, keysOnly) ==
    LET obj == StripMetadata(Popped(raw))
        kind == NameAt(obj, <<"kind">>)
    IN  Redacted(CASE kind = "Secret" -> SanitizeSecret(obj)
                   [] kind = "ConfigMap" -> SanitizeConfigMap(obj, keysOnly)
                   [] OTHER -> Walk(obj, NoKey))

\* The labels come from the sanitized document; providerUid, displayName and
\* the names of the identity's chain, here `names`, from the object as it is.
BuildItem(raw, keysOnly) ==
    LET document == Sanitize(raw, keysOnly)
    IN  [document |-> document, status |-> Walk(StatusOf(raw), "status"),
         labels |-> Restrict(document, Below(<<"metadata", "labels">>, document)),
         names |-> Restrict(raw, NamePaths \intersect DOMAIN raw)]

ItemInit ==
    /\ body \in Bodies /\ status \in Statuses /\ version = 0 /\ mode \in Modes
    /\ pushed = {}

\* Someone writes to the object, or its controller to its status.
Write ==
    /\ version < MaxWrites /\ version' = version + 1
    /\ \/ body' \in {b \in Bodies : b.kind = body.kind} /\ UNCHANGED status
       \/ status' \in Statuses /\ UNCHANGED body
    /\ UNCHANGED <<mode, pushed>>

\* A run of discover comes by the object.
Visit ==
    /\ pushed' = pushed \union
           {[body |-> body, status |-> status,
             item |-> BuildItem(Stamped(body.kind, Raw(body, status, version)), mode = "keysOnly")]}
    /\ UNCHANGED <<body, status, version, mode>>

ItemNext == Write \/ Visit
ItemSpec == ItemInit /\ [][ItemNext]_itemVars

-----------------------------------------------------------------------------
\* No item has its status in its document.
ItemTypeOK ==
    /\ body \in Bodies /\ status \in Statuses /\ version \in 0..MaxWrites /\ mode \in Modes
    /\ \A p \in pushed :
          /\ p.body \in Bodies /\ p.status \in Statuses
          /\ DOMAIN p.item = {"document", "status", "labels", "names"}
          /\ Below(<<"status">>, p.item.document) = {}

\* "Nothing leaves the cluster that a read-only platform user shouldn't see":
\* no credential that a rule covers is in an item's document, status, labels or
\* names, in the clear or as a hash, and in the mode keysOnly nothing of a
\* ConfigMap's data is ("every hash is size only, masked or not").
LeavesOf(item) ==
    Range(item.document) \union Range(item.status) \union Range(item.labels) \union Range(item.names)
NothingHiddenLeaves ==
    \A p \in pushed : \A leaf \in LeavesOf(p.item) : IsText(leaf) =>
        /\ Told(leaf.str) \intersect Secrets = {}
        /\ mode = "keysOnly" => Told(leaf.str) \intersect DataValues = {}

\* "A status refresh never rewrites the document": what is pushed of the same
\* body is the same, however often the object was written to in between, and
\* the document of a body does not depend on the status it had.
StatusRefreshKeepsDocument ==
    \A p, q \in pushed : p.body = q.body => p.item.document = q.item.document

\* "References are kept because they're what dependency rules turn into
\* edges": a reference in a body is in the clear in its document, where it was,
\* whichever rules apply to its pair, list, environment, annotation or line, as
\* long as its key is not one of a credential. (One that has itself the form of
\* a token, as a part of an ARN may, is a secret piece and none of Refs.)
ReferencesSurvive ==
    \A p \in pushed : \A at \in DOMAIN p.body.document :
        LET leaf == p.body.document[at]
            now == p.item.document[at]
        IN  IsText(leaf) /\ Shown(leaf.str) \intersect Refs # {} =>
                /\ at \in DOMAIN p.item.document /\ IsText(now)
                /\ Shown(leaf.str) \intersect Refs \subseteq Shown(now.str)

\* "So `this value changed' and `these ConfigMaps share a value' survive
\* masking for values that weren't masked": two values of a ConfigMap's key that
\* are both free of credentials have the same entry just when they are the same.
EntryOf(item, k) == [p \in Below(<<"dataHashes", k>>, item.document) |-> item.document[p]]
HashesTellValues ==
    mode = "store" => \A p, q \in {x \in pushed : x.body.kind = "ConfigMap"} :
        \A k \in KeysIn(p.body.document, "data") \intersect KeysIn(q.body.document, "data") :
            LET old == p.body.document[<<"data", k>>]
                new == q.body.document[<<"data", k>>]
            IN  Clean(old.str) /\ Clean(new.str) => (EntryOf(p.item, k) = EntryOf(q.item, k) <=> old = new)
=============================================================================
