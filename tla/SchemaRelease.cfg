SPECIFICATION Spec
CONSTANTS
    s1 = s1
    s2 = s2
    Versions = {1, 2}
    Unversioned = 100
    Shapes = {s1, s2}
    NotJson = NotJson
    NoVersion = 0
    NoTree = NoTree
    Trees <- MCTrees
SYMMETRY Symmetry
INVARIANTS
    TypeOK
    ReferencedSchemaIsCurrent
    PublishedSchemasStay
CHECK_DEADLOCK FALSE
