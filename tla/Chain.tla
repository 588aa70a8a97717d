------------------------------- MODULE Chain -------------------------------
(***************************************************************************)
(* rwdiscovery/chain.py and packbuild.py: how a Kubernetes kind gets its   *)
(* type, its plural and its parent; the typed chain of an item; and the    *)
(* types a pack registers, over what earlier registrations left.           *)
(*                                                                         *)
(* A name is lowercased by the constant Lower, which only kinds outside    *)
(* the builtin table need.                                                 *)
(***************************************************************************)
EXTENDS Integers, Sequences, SequencesExt, FiniteSets

CONSTANTS
    NoGroup,        \* the core group's name
    Lower,          \* str.lower, of the kinds that are not in the table
    Reviews         \* the kinds whose name ends in Review

TypeSpec(type, plural, parent) == [type |-> type, plural |-> plural, parent |-> parent]
NoParent == "none"
Cluster == TypeSpec("cluster", "clusters", NoParent)
Namespace == TypeSpec("namespace", "namespaces", "cluster")

\* Rows of _BUILTINS: who serves a kind, and what it is called.
Def(type, plural, parent, ephemeral, kind, served) ==
    [spec |-> TypeSpec(type, plural, parent), ephemeral |-> ephemeral, kind |-> kind, groups |-> served]
Namespaced(type, plural, kind, served) == Def(type, plural, "namespace", FALSE, kind, served)
ClusterScoped(type, plural, kind, served) == Def(type, plural, "cluster", FALSE, kind, served)
Ephemeral(type, plural, kind, served) == Def(type, plural, "namespace", TRUE, kind, served)

Core == {NoGroup}
Apps == {"extensions", "apps"}
Networking == {"networking.k8s.io"}
Rbac == {"rbac.authorization.k8s.io"}
Storage == {"storage.k8s.io"}
Admission == {"admissionregistration.k8s.io"}
Builtins == {
    Ephemeral("pod", "pods", "Pod", Core),
    Namespaced("service", "services", "Service", Core),
    Ephemeral("endpoints", "endpoints", "Endpoints", Core),
    Namespaced("configmap", "configmaps", "ConfigMap", Core),
    Namespaced("secret", "secrets", "Secret", Core),
    Namespaced("serviceaccount", "serviceaccounts", "ServiceAccount", Core),
    Namespaced("persistentvolumeclaim", "persistentvolumeclaims", "PersistentVolumeClaim", Core),
    Namespaced("replicationcontroller", "replicationcontrollers", "ReplicationController", Core),
    Namespaced("limitrange", "limitranges", "LimitRange", Core),
    Namespaced("resourcequota", "resourcequotas", "ResourceQuota", Core),
    Ephemeral("event", "events", "Event", Core \union {"events.k8s.io"}),
    ClusterScoped("node", "nodes", "Node", Core),
    ClusterScoped("persistentvolume", "persistentvolumes", "PersistentVolume", Core),
    Def("componentstatus", "componentstatuses", "cluster", TRUE, "ComponentStatus", Core),
    Namespaced("deployment", "deployments", "Deployment", Apps),
    Namespaced("statefulset", "statefulsets", "StatefulSet", {"apps"}),
    Namespaced("daemonset", "daemonsets", "DaemonSet", Apps),
    Ephemeral("replicaset", "replicasets", "ReplicaSet", Apps),
    Ephemeral("controllerrevision", "controllerrevisions", "ControllerRevision", {"apps"}),
    Namespaced("job", "jobs", "Job", {"batch"}),
    Namespaced("cronjob", "cronjobs", "CronJob", {"batch"}),
    Namespaced("ingress", "ingresses", "Ingress", {"extensions"} \union Networking),
    Namespaced("networkpolicy", "networkpolicies", "NetworkPolicy", {"extensions"} \union Networking),
    ClusterScoped("ingressclass", "ingressclasses", "IngressClass", Networking),
    Ephemeral("endpointslice", "endpointslices", "EndpointSlice", {"discovery.k8s.io"}),
    Namespaced("role", "roles", "Role", Rbac),
    Namespaced("rolebinding", "rolebindings", "RoleBinding", Rbac),
    ClusterScoped("clusterrole", "clusterroles", "ClusterRole", Rbac),
    ClusterScoped("clusterrolebinding", "clusterrolebindings", "ClusterRoleBinding", Rbac),
    ClusterScoped("storageclass", "storageclasses", "StorageClass", Storage),
    ClusterScoped("volumeattachment", "volumeattachments", "VolumeAttachment", Storage),
    ClusterScoped("csidriver", "csidrivers", "CSIDriver", Storage),
    ClusterScoped("csinode", "csinodes", "CSINode", Storage),
    Namespaced("poddisruptionbudget", "poddisruptionbudgets", "PodDisruptionBudget", {"policy"}),
    Namespaced("horizontalpodautoscaler", "horizontalpodautoscalers", "HorizontalPodAutoscaler", {"autoscaling"}),
    Ephemeral("lease", "leases", "Lease", {"coordination.k8s.io"}),
    ClusterScoped("priorityclass", "priorityclasses", "PriorityClass", {"scheduling.k8s.io"}),
    ClusterScoped("validatingwebhookconfiguration", "validatingwebhookconfigurations",
                  "ValidatingWebhookConfiguration", Admission),
    ClusterScoped("mutatingwebhookconfiguration", "mutatingwebhookconfigurations",
                  "MutatingWebhookConfiguration", Admission),
    ClusterScoped("runtimeclass", "runtimeclasses", "RuntimeClass", {"node.k8s.io"}),
    ClusterScoped("customresourcedefinition", "customresourcedefinitions",
                  "CustomResourceDefinition", {"apiextensions.k8s.io"}),
    ClusterScoped("certificatesigningrequest", "certificatesigningrequests",
                  "CertificateSigningRequest", {"certificates.k8s.io"})}

\* builtin_type_specs.
BuiltinSpecs == {Cluster, Namespace} \union {d.spec : d \in Builtins}

\* BUILTIN_TYPES.get: the rows of a kind in a group, one or none.
InTable(group, kind) == {d \in Builtins : d.kind = kind /\ group \in d.groups}

EphemeralCrdKinds == {<<"acme.cert-manager.io", "Order">>, <<"acme.cert-manager.io", "Challenge">>,
                      <<"cert-manager.io", "CertificateRequest">>}
\* is_ephemeral_type: never pushed.
IsEphemeral(group, kind) ==
    \/ \E d \in InTable(group, kind) : d.ephemeral
    \/ group = "metrics.k8s.io" \/ <<group, kind>> \in EphemeralCrdKinds \/ kind \in Reviews

\* <kind>.<group>, and the same of the plural.
Qualified(name, group) == IF group = NoGroup THEN name ELSE name \o "." \o group
FallbackSpec(group, kind, plural, namespaced) ==
    TypeSpec(Qualified(Lower[kind], group), Qualified(plural, group),
             IF namespaced THEN "namespace" ELSE "cluster")

\* resolve_type: the table first, then the kind's own name.
ResolveType(group, kind, plural, namespaced) ==
    IF group = NoGroup /\ kind = "Namespace" THEN Namespace
    ELSE IF InTable(group, kind) # {} THEN (CHOOSE d \in InTable(group, kind) : TRUE).spec
    ELSE FallbackSpec(group, kind, plural, namespaced)

\* build_chain, types only: the cluster, a namespace, the item.
ChainOf(spec) ==
    <<"cluster">> \o (IF spec.parent = "namespace" THEN <<"namespace">> ELSE <<>>) \o <<spec.type>>

-----------------------------------------------------------------------------
\* crd_type_specs_and_summaries: a CustomResourceDefinition names its type
\* itself, whether or not the API serves it yet, or still.
CrdSpec(crd) == FallbackSpec(crd.group, crd.kind, crd.plural, crd.namespaced)

\* Mutant: what the CRDs cover is not told by type, but by there being any.
ExtraSpecs_NoneBesideCrds(specs, crds) ==
    IF crds # <<>> THEN <<>> ELSE SelectSeq(specs, LAMBDA s : s \notin BuiltinSpecs)

\* extra_discovered_type_specs: every type that was enumerated and neither
\* the table nor a CRD has covered.
ExtraSpecs(specs, crds) ==
    LET covered == {s.type : s \in BuiltinSpecs} \union {CrdSpec(c).type : c \in Range(crds)}
    IN  FoldLeft(LAMBDA extra, s : IF s.type \in covered THEN extra ELSE Append(extra, s), <<>>, specs)

\* build_pack_payload: additiveTypes.
AdditiveTypes(specs, crds) ==
    [i \in DOMAIN crds |-> CrdSpec(crds[i])] \o ExtraSpecs(specs, crds)

\* papi (external): the pack route. The static types replace what was there;
\* an additive one that has another parent or plural than the registered one,
\* or takes another's plural, is skipped, and nothing is ever removed.
Conflicts(registry, s) == \E r \in registry : r # s /\ (r.type = s.type \/ r.plural = s.plural)
Registered(registry, additive) ==
    FoldLeft(LAMBDA reg, s : IF Conflicts(reg, s) THEN reg ELSE reg \union {s},
             {r \in registry : r.type \notin {b.type : b \in BuiltinSpecs}} \union BuiltinSpecs, additive)

\* papi (external): a chain it takes. Its first type is a root, and every
\* other one's parent stands before it.
TakesChain(registry, chain) ==
    \A i \in DOMAIN chain : \E r \in registry :
        r.type = chain[i] /\ r.parent = (IF i = 1 THEN NoParent ELSE chain[i - 1])
=============================================================================
