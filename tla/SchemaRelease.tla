---------------------------- MODULE SchemaRelease ----------------------------
(***************************************************************************)
(* scripts/export_schemas.py, scripts/manifest_label.py,                   *)
(* scripts/check_schema_immutability.py and tests/test_schemas.py, as the  *)
(* jobs of .github/workflows/build-push.yaml run them: the files in        *)
(* capabilities/k8s-discovery/schemas/ of one task output, over a history  *)
(* of pushes, pull requests and tags, and the images published from it.    *)
(*                                                                         *)
(* A job sees a checkout and one other commit, the base. Nothing stops a   *)
(* push whose jobs failed from being the base of the next one.             *)
(***************************************************************************)

CONSTANTS
    Versions,       \* the N of <name>.v<N>.json
    Unversioned,    \* a file name without one
    Shapes,         \* what the JSON Schema of a model may be
    NotJson,        \* what a file may hold instead of a schema
    NoVersion,      \* no version: of a model that is gone, or a reference
    NoTree,         \* no base: "", zeros, or a commit git cannot resolve
    Trees           \* what a commit may hold, records [shape, version, ref,
                    \* files]: the model, its SCHEMA_VERSION, the manifest's
                    \* schema: reference, and the files, by name

Names == Versions \union {Unversioned}
\* A file's text: the schema it holds, and whether it looks as json.dumps
\* of export_schemas.py leaves it.
Texts == [json : Shapes \union {NotJson}, exported : BOOLEAN]

ASSUME TreesAssumption ==
    \A c \in Trees :
        /\ c.shape \in Shapes /\ c.version \in Versions \union {NoVersion}
        /\ c.ref \in Names \union {NoVersion}
        /\ DOMAIN c.files \subseteq Names /\ \A f \in DOMAIN c.files : c.files[f] \in Texts
ASSUME NamesAssumption == NoVersion \notin Names /\ Unversioned \notin Versions /\ NotJson \notin Shapes
ASSUME NoTreeAssumption == NoTree \notin Trees

VARIABLES
    tip,            \* what the branch holds
    image,          \* what the image published last was built from
    promised        \* history: the schemas that images of the branch have
                    \* published, less those that were taken away by a push
                    \* which the prepare job refused, or compared with nothing

vars == <<tip, image, promised>>

Init == tip = NoTree /\ image = NoTree /\ promised = {}

-----------------------------------------------------------------------------
\* export_schemas.py: the file of the model's own version is written, any
\* other is left as it is.
Export(c) ==
    [f \in DOMAIN c.files \union ({c.version} \ {NoVersion}) |->
        IF f = c.version THEN [json |-> c.shape, exported |-> TRUE] ELSE c.files[f]]

\* Mutant: no git diff; only pytest compares, and what was just exported.
Tested_AfterExport(c) == c.ref # NoVersion => c.ref = c.version

\* The test job: an export changes no file git knows (a new one goes
\* unnoticed), and the manifest refers to the version of a model. That the
\* files match the models is tested after the export, of its results.
Tested(c) ==
    /\ \A f \in DOMAIN c.files : Export(c)[f] = c.files[f]
    /\ c.ref # NoVersion => c.ref = c.version

\* manifest_label.py: every file in the label is JSON, and the one that the
\* manifest refers to is among them.
Labelled(c) ==
    /\ \A f \in DOMAIN c.files : c.files[f].json # NotJson
    /\ c.ref # NoVersion => c.ref \in DOMAIN c.files

\* Mutant: any name will do.
Named_Any(c) == TRUE

\* check_naming.
Named(c) == DOMAIN c.files \subseteq Versions

\* Mutant: a file that is gone is not missed.
Immutable_MayGo(c, base) ==
    base # NoTree => \A f \in DOMAIN base.files \intersect DOMAIN c.files \intersect Versions :
        base.files[f].json = c.files[f].json

\* check_immutability: every versioned file of the base is there, and is the
\* same JSON.
Immutable(c, base) ==
    base # NoTree => \A f \in DOMAIN base.files \intersect Versions :
        /\ f \in DOMAIN c.files
        /\ NotJson \notin {base.files[f].json, c.files[f].json}
        /\ base.files[f].json = c.files[f].json

Prepared(c, base) == Labelled(c) /\ Named(c) /\ Immutable(c, base)

-----------------------------------------------------------------------------
\* What the label of an image built from c carries.
Label(c) == {<<f, c.files[f].json>> : f \in DOMAIN c.files}

\* The build needs the jobs test and prepare; it may fail for other reasons.
Builds(c, base) == Tested(c) /\ Prepared(c, base) /\ image' = c
BuildFails == UNCHANGED image

\* The branch goes on to c, whether or not its jobs pass. A schema that c lacks
\* is missed only by this push, if it is compared: c is the base of the next.
Advance(c, base) ==
    LET kept == IF base # NoTree /\ Prepared(c, base) THEN promised
                ELSE promised \intersect Label(c)
    IN  /\ tip' = c
        /\ \/ Builds(c, base) /\ promised' = kept \union Label(c)
           \/ BuildFails /\ promised' = kept

\* A push is compared with the commit before it, whatever became of that --
\* but the first one of a branch with none.
Push(c) == Advance(c, tip)

\* After a forced push the commit before is no longer part of the clone,
\* unless another branch has it.
ForcePush(c) == tip # NoTree /\ \E base \in {tip, NoTree} : Advance(c, base)

\* A preview of what a pull request would make of the branch.
PullRequest(c) ==
    /\ tip # NoTree
    /\ Builds(c, tip)
    /\ UNCHANGED <<tip, promised>>

\* The first push of another branch, or a tag: there is no commit before.
Elsewhere(c) ==
    /\ Builds(c, NoTree)
    /\ UNCHANGED <<tip, promised>>

\* workflow_dispatch, of the branch as it is: the event knows no base.
Dispatch ==
    /\ tip # NoTree
    /\ Builds(tip, NoTree)
    /\ promised' = promised \union Label(tip)
    /\ UNCHANGED tip

Next ==
    \/ \E c \in Trees : Push(c) \/ ForcePush(c) \/ PullRequest(c) \/ Elsewhere(c)
    \/ Dispatch
Spec == Init /\ [][Next]_vars

-----------------------------------------------------------------------------
TypeOK ==
    /\ tip \in Trees \union {NoTree}
    /\ image \in Trees \union {NoTree}
    /\ promised \subseteq Versions \X Shapes

\* "Generated from the SDK's models ... so it cannot drift from the code": the
\* schema that the manifest of a published image refers to is in its label,
\* and is that of the model in this very image. No single check says so.
ReferencedSchemaIsCurrent ==
    image # NoTree /\ image.ref # NoVersion => <<image.ref, image.shape>> \in Label(image)

\* What an image of the branch has published stays in the branch, and in every
\* later image of it, unchanged: over any number of pushes, whichever builds
\* fail in between, until a push that its own prepare job refuses, or that is
\* compared with nothing, takes away that very schema. "Once committed, a schema
\* file never changes and is never deleted" has no such exception: the push after
\* a refused one may publish other contents under the name that one deleted.
PublishedSchemasStay == promised # {} => promised \subseteq Label(tip)
=============================================================================
