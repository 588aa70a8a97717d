------------------------------ MODULE MCRollups ------------------------------
(***************************************************************************)
(* Rollups on a Deployment with a ReplicaSet and its pod, a Service with   *)
(* an EndpointSlice, a CronJob with a Job, another Job that a custom       *)
(* resource owns, an event of the pod and of the Deployment, and objects   *)
(* of CRDs.                                                                *)
(***************************************************************************)
EXTENDS Rollups

Kind(kind, plural, listable) ==
    [kind |-> kind, plural |-> plural, namespaced |-> TRUE, listable |-> listable]
MCCoreKinds == <<Kind("Binding", "bindings", FALSE), Kind("Event", "events", TRUE),
                 Kind("Pod", "pods", TRUE), Kind("Pod", "pods/log", FALSE), Kind("Service", "services", TRUE)>>
Group(name, kinds) == [name |-> name, kinds |-> kinds]
Deployment == Kind("Deployment", "deployments", TRUE)
ReplicaSet == Kind("ReplicaSet", "replicasets", TRUE)
AppsGroup == Group("apps", <<Deployment, ReplicaSet>>)
Batch == Group("batch", <<Kind("CronJob", "cronjobs", TRUE), Kind("Job", "jobs", TRUE)>>)
Discovery == Group("discovery.k8s.io", <<Kind("EndpointSlice", "endpointslices", TRUE)>>)
Events == Group("events.k8s.io", <<Kind("Event", "events", TRUE)>>)
Extensions == Group("extensions", <<Deployment, Kind("Ingress", "ingresses", TRUE), ReplicaSet>>)
Custom == Group("example.com", <<Kind("Gadget", "gadgets", TRUE), Kind("Widget", "widgets", TRUE)>>)
Metrics == Group("metrics.k8s.io", <<Kind("PodMetrics", "pods", TRUE)>>)
MCLower == [Doodad |-> "doodad", Gadget |-> "gadget", Widget |-> "widget", PodMetrics |-> "podmetrics"]

Crd(kind, plural, namespaced) ==
    [group |-> "example.com", kind |-> kind, plural |-> plural, namespaced |-> namespaced]
Widgets == Crd("Widget", "widgets", TRUE)
Gadgets == Crd("Gadget", "gadgets", TRUE)
\* All CRDs; one is not there yet; one had another scope; two claim a kind;
\* one had the plural that is another's by now.
CrdLists == {<<Gadgets, Widgets>>, <<Widgets>>, <<Crd("Gadget", "gadgets", FALSE), Widgets>>,
             <<Crd("Gadget", "doodads", TRUE), Gadgets>>, <<Crd("Doodad", "gadgets", TRUE)>>}
\* Nothing, another cluster with a Widget of its own, and one with other types.
WidgetSpec == CrdSpec(Crd("Widget", "widgets", FALSE))
OtherSpec == CrdSpec([group |-> "other.org", kind |-> "Widget", plural |-> "widgets", namespaced |-> TRUE])
Api(groups, crdLists, types) == [groups |-> groups, crds |-> crdLists, registry |-> types]
\* A current cluster, two that still serve the legacy group, and one with CRDs.
MCApis == {Api(<<AppsGroup, Discovery, Events>>, {}, {}), Api(<<AppsGroup, Batch, Extensions>>, {}, {}),
           Api(<<Extensions, AppsGroup, Discovery>>, {}, {})}
    \union {Api(<<Custom, Metrics>>, CrdLists, types) : types \in {{}, {WidgetSpec}, {OtherSpec}}}

Obj(type, uid, of) == [type |-> type, uid |-> uid, of |-> of]
MCObjs == {Obj("deployment", "d", "none"), Obj("replicaset", "rs", "d"), Obj("pod", "p", "rs"),
           Obj("service", "s", "none"), Obj("endpointslice", "es", "s"),
           Obj("cronjob", "c", "none"), Obj("job", "j", "c"), Obj("job", "k", "w"),
           Obj("event", "e1", "p"), Obj("event", "e2", "d"),
           Obj("gadget.example.com", "g", "none"), Obj("widget.example.com", "w", "none"),
           Obj("podmetrics.metrics.k8s.io", "m", "none")}
MCClusters == {MCObjs, {o \in MCObjs : o.type \in {"deployment", "service", "cronjob"}}}
=============================================================================
