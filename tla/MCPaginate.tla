----------------------------- MODULE MCPaginate -----------------------------
(***************************************************************************)
(* Paginate on four objects over two namespaces.                           *)
(***************************************************************************)
EXTENDS Paginate

CONSTANTS a, b

MCKeys == 1..4
MCNsOf == [k \in MCKeys |-> IF k \in {1, 2} THEN a ELSE b]
\* Everything, one of the two namespaces, an empty scope (no namespace could be
\* listed), and a list that names a namespace twice.
MCRequested == {<<a, b>>, <<b>>, <<>>, <<a, a>>}
=============================================================================
