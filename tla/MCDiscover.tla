----------------------------- MODULE MCDiscover -----------------------------
(***************************************************************************)
(* Discover on two namespaces, with a Job in each -- one on its own, one   *)
(* of a CronJob --, one cluster-scoped object, and pods to read.           *)
(***************************************************************************)
EXTENDS Discover

CONSTANTS n1, n2

Standalone == [type |-> "job", ns |-> n1, name |-> "standalone"]
MCObjs == {Standalone, [type |-> "job", ns |-> n2, name |-> "spawned"],
           [type |-> "node", ns |-> NoNs, name |-> "c"]}
MCTransient == {o \in MCObjs : o.name = "spawned"}
MCTypes == <<[type |-> "node", namespaced |-> FALSE], [type |-> "job", namespaced |-> TRUE]>>
MCSourceTypes == <<"pod">>
MCUnstorable == {{}, {Root, NsItem(n1), Standalone}}
MCInputs == {[namespaces |-> <<>>, exclude |-> {}], [namespaces |-> <<>>, exclude |-> {n1}],
             [namespaces |-> <<n1, n1>>, exclude |-> {}]}

Everything == Items \ {Root}
MCClusters == {Everything \ MCTransient, {}}
MCInventories == {{}, Items \ Transient}
=============================================================================
