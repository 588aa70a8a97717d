----------------------------- MODULE Inventory ------------------------------
(***************************************************************************)
(* What a discovery run promises of the platform's inventory, apart from   *)
(* how it lists, batches, retries and fails (README.md, "never swept").    *)
(*                                                                         *)
(* The run may add what existed in the cluster at some time while it ran   *)
(* -- and the cluster itself, and stubs of the namespaces it was given by  *)
(* name -- in any number of steps. It may remove things once, at the end,  *)
(* and then only things that were absent from the cluster at some time     *)
(* while it ran. The inventory never holds an object without its parent.   *)
(***************************************************************************)
CONSTANTS
    Items,          \* everything the inventory may hold
    Root,           \* the cluster item
    Parent(_)       \* the parent of every other item

VARIABLES
    inv,            \* the inventory
    steady,         \* what existed in the cluster all through the run so far
    named,          \* the namespaces the run was given by name
    ever,           \* what existed in it at some time in the run so far
    swept           \* the run has removed what it will remove

vars == <<inv, named, steady, ever, swept>>

NoOrphans(S) == \A o \in S : o # Root => Parent(o) \in S

Init ==
    /\ inv \subseteq Items /\ NoOrphans(inv)
    /\ named \subseteq Items
    /\ steady \subseteq Items /\ ever = steady
    /\ swept = FALSE

\* The cluster changes under the run.
Observe ==
    /\ steady' \subseteq steady
    /\ ever \subseteq ever'
    /\ UNCHANGED <<inv, named, swept>>

Add ==
    /\ ~swept
    /\ inv \subseteq inv'
    /\ inv' \subseteq inv \union ever \union named \union {Root}
    /\ NoOrphans(inv')
    /\ UNCHANGED <<named, steady, ever, swept>>

Sweep ==
    /\ ~swept
    /\ swept' = TRUE
    /\ inv' \subseteq inv
    /\ inv \intersect steady \subseteq inv'
    /\ NoOrphans(inv')
    /\ UNCHANGED <<named, steady, ever>>

Next == Observe \/ Add \/ Sweep
Spec == Init /\ [][Next]_vars
=============================================================================
