--------------------------- MODULE MCSchemaRelease ---------------------------
(***************************************************************************)
(* SchemaRelease with two versions and two shapes. A commit's files may be *)
(* missing, of another shape or version, the first reformatted or no JSON, *)
(* or there is a badly named one beside it.                                *)
(***************************************************************************)
EXTENDS SchemaRelease, TLC

CONSTANTS s1, s2

Text(json, exported) == [json |-> json, exported |-> exported]
Regular == [{1, 2} -> {NoTree} \union {Text(s, TRUE) : s \in Shapes}]
Present(files) == [f \in {g \in DOMAIN files : files[g] # NoTree} |-> files[f]]
Strange == {1 :> Text(s, FALSE) : s \in Shapes} \union {1 :> Text(NotJson, FALSE)}
Misnamed == {Unversioned :> Text(s, TRUE) : s \in Shapes}
FileSets ==
    {Present(r) : r \in Regular} \union {Present(o @@ r) : o \in Strange, r \in Regular}
    \union {Present(o @@ r) : o \in Misnamed, r \in {q \in Regular : q[2] = NoTree}}
\* A version and a reference: as they should be, one of them forgotten, both gone.
Uses == {<<1, 1>>, <<2, 2>>, <<2, 1>>, <<1, 2>>, <<NoVersion, NoVersion>>}
MCTrees == {[shape |-> s, version |-> u[1], ref |-> u[2], files |-> fs] : s \in Shapes, u \in Uses, fs \in FileSets}
Symmetry == Permutations(Shapes)
=============================================================================
