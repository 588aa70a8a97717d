------------------------------- MODULE Rollups -------------------------------
(***************************************************************************)
(* rwdiscovery/enumerate.py and rollup_context.py, as discover.py uses     *)
(* them for one namespace: which types the API serves, and what of them is *)
(* registered; what is read of the types that are never stored, and the    *)
(* rollups the namespace's items get from it, while the cluster changes.   *)
(*                                                                         *)
(* A rollup is modelled by the set of objects it sums up: a count, a sum   *)
(* of restarts or a list of outcomes is wrong when that set is. A listing  *)
(* is taken at one moment; module Paginate looks inside.                   *)
(***************************************************************************)
EXTENDS Chain

CONSTANTS
    CoreKinds,      \* the resources of /api/v1, in order, records [kind,
                    \* plural, namespaced, listable]: a subresource, or one
                    \* without the verb, is not listable
    Apis,           \* what there may be beside it, records [groups, crds,
                    \* registry]: the sequence /apis lists of [name, kinds],
                    \* the sequences of CRDs that their listing may read, and
                    \* what other runs have registered
    LegacyGroups,   \* _LEGACY_GROUPS
    Objs,           \* the objects, records [type, uid, of]: `of` is the uid of
                    \* the controller, of the involved object or of the
                    \* service, or NoUid
    NoUid,
    CronJobUids,    \* the uids that CronJobs have or had
    Clusters,       \* what may exist when the run begins
    MaxChanges      \* bound: changes to the cluster during the run

ASSUME ObjsAssumption ==
    /\ \A o, p \in Objs : o.uid = p.uid => o = p
    /\ \A o \in Objs : o.uid # NoUid /\ (o.type = "cronjob" <=> o.uid \in CronJobUids)
    /\ \A S \in Clusters : S \subseteq Objs
\* /apis names a group once, and never the core group; a registry has a type
\* once.
ASSUME ApisAssumption ==
    /\ CoreKinds \in Seq(Range(CoreKinds))
    /\ \A a \in Apis :
          /\ a.groups \in Seq(Range(a.groups))
          /\ \A g \in Range(a.groups) : g.name # NoGroup /\ g.kinds \in Seq(Range(g.kinds))
          /\ \A i, j \in DOMAIN a.groups : a.groups[i].name = a.groups[j].name => i = j
          /\ \A c \in a.crds : c \in Seq(Range(c))
          /\ \A r, s \in a.registry : r.type = s.type => r = s
ASSUME BoundsAssumption == NoGroup \notin LegacyGroups /\ MaxChanges \in Nat

VARIABLES
    pc,             \* "crds", "core", "groups", "pack", "sources", "push", "failed"
    api,            \* the one of Apis that the cluster has
    crds,           \* crds
    toRead,         \* the groups still to read
    resources,      \* the listable resources found, [spec, group, ephemeral]
    unread,         \* the groups whose document could not be read
    registry,       \* papi: the registered types
    sourceTodo,     \* the source types _items has still to read
    unavailable,    \* unavailable
    read,           \* what was read of each source type
    pushed,         \* the items pushed, each with its chain and rollups
    live, changes,  \* the cluster
    run             \* history: [steady, ever] since the run began

enumeration == <<api, crds, toRead, resources, unread, registry>>
sources == <<sourceTodo, unavailable, read>>
cluster == <<live, changes, run>>
vars == <<pc, enumeration, sources, pushed, cluster>>

Sources == <<"pod", "replicaset", "endpointslice", "job", "event">>
RollupSourceTypes == {"pod", "replicaset", "endpointslice", "event"}
CoreGroup == [name |-> NoGroup, kinds |-> CoreKinds]
AllGroups == {CoreGroup} \union Range(api.groups)

\* resources_from_list.
Resource(g, k) ==
    [spec |-> ResolveType(g.name, k.kind, k.plural, k.namespaced), group |-> g.name,
     ephemeral |-> IsEphemeral(g.name, k.kind)]
Served(g) ==
    FoldLeft(LAMBDA found, k : IF k.listable THEN Append(found, Resource(g, k)) ELSE found,
             <<>>, g.kinds)
TypesOf(g) == {r.spec.type : r \in Range(Served(g))}
Exists(o) == \E g \in AllGroups : o.type \in TypesOf(g)           \* some group serves it

\* The API serves a plural for one kind, and what is not in the table has no
\* name of what is: a qualified name has its group in it, and no kind or
\* plural has a dot.
ServedSpecs(a) == UNION {{r.spec : r \in Range(Served(g))} : g \in {CoreGroup} \union Range(a.groups)}
ASSUME NamesAssumption ==
    \A a \in Apis : \A s \in ServedSpecs(a) \ BuiltinSpecs :
        /\ ~Conflicts(BuiltinSpecs, s)
        /\ \A t \in ServedSpecs(a) : t.plural = s.plural => t.type = s.type

-----------------------------------------------------------------------------
Init ==
    /\ pc = "crds"
    /\ api \in Apis /\ crds = <<>> /\ toRead = api.groups
    /\ resources = <<>> /\ unread = {} /\ registry = api.registry
    /\ sourceTodo = <<>> /\ unavailable = {}
    /\ read = [t \in Range(Sources) |-> {}]
    /\ pushed = {}
    /\ live \in {{o \in S : Exists(o)} : S \in Clusters} /\ changes = 0
    /\ run = [steady |-> live, ever |-> live]

\* The CRDs, best effort and before anything else: one may be gone, or have
\* come, by the time its group is read.
ReadCrds ==
    /\ pc = "crds"
    /\ crds' \in api.crds \union {<<>>}
    /\ pc' = "core"
    /\ UNCHANGED <<api, toRead, resources, unread, registry, sources, pushed, cluster>>

\* /api/v1; an error ends the run.
ReadCore ==
    /\ pc = "core"
    /\ \/ pc' = "groups" /\ resources' = Served(CoreGroup)
       \/ pc' = "failed" /\ UNCHANGED resources
    /\ UNCHANGED <<api, crds, toRead, unread, registry, sources, pushed, cluster>>

\* One group's preferred version; one that cannot be read is passed over.
ReadGroup ==
    /\ pc = "groups" /\ toRead # <<>>
    /\ \/ resources' = resources \o Served(Head(toRead)) /\ UNCHANGED unread
       \/ unread' = unread \union {Head(toRead).name} /\ UNCHANGED resources
    /\ toRead' = Tail(toRead)
    /\ UNCHANGED <<pc, api, crds, registry, sources, pushed, cluster>>

\* Mutant: the first group wins.
Replaces_Never(r, current) == FALSE

\* _dedupe_by_type: one resource of each type, a legacy group's only as long
\* as no other serves the type.
Replaces(r, current) == current.group \in LegacyGroups /\ r.group \notin LegacyGroups
Deduped(rs) ==
    FoldLeft(LAMBDA kept, r :
        LET at == SelectInSeq(kept, LAMBDA k : k.spec.type = r.spec.type)
        IN  IF at = 0 THEN Append(kept, r)
            ELSE IF Replaces(r, kept[at]) THEN [kept EXCEPT ![at] = r] ELSE kept,
        <<>>, rs)

Enumerated ==
    /\ pc = "groups" /\ toRead = <<>>
    /\ resources' = Deduped(resources)
    /\ pc' = "pack"
    /\ UNCHANGED <<api, crds, toRead, unread, registry, sources, pushed, cluster>>

\* put_pack. What papi skips is logged and has no other effect; an error
\* ends the run.
PutPack ==
    /\ pc = "pack"
    /\ \/ /\ registry' = Registered(registry, AdditiveTypes([i \in DOMAIN resources |-> resources[i].spec], crds))
          /\ sourceTodo' = Sources
          /\ pc' = "sources"
       \/ pc' = "failed" /\ UNCHANGED <<registry, sourceTodo>>
    /\ UNCHANGED <<api, crds, toRead, resources, unread, unavailable, read, pushed, cluster>>

IsServed(t) == \E i \in DOMAIN resources : resources[i].spec.type = t

\* Mutant: a listing that fails keeps the pages it has.
ReadSource_KeepsPages ==
    /\ pc = "sources" /\ sourceTodo # <<>>
    /\ LET t == Head(sourceTodo)
       IN  /\ read' = [read EXCEPT ![t] = {o \in live : o.type = t}]
           /\ unavailable' \in {unavailable, unavailable \union {t}}
    /\ sourceTodo' = Tail(sourceTodo)
    /\ UNCHANGED <<pc, enumeration, pushed, cluster>>

\* _items: nothing of a type that is not served, and nothing of one that
\* cannot be listed -- which is remembered.
ReadSource ==
    /\ pc = "sources" /\ sourceTodo # <<>>
    /\ LET t == Head(sourceTodo)
       IN  \/ ~IsServed(t) /\ UNCHANGED <<read, unavailable>>
           \/ /\ IsServed(t)
              /\ read' = [read EXCEPT ![t] = {o \in live : o.type = t}]
              /\ UNCHANGED unavailable
           \/ /\ IsServed(t)
              /\ unavailable' = unavailable \union {t}
              /\ UNCHANGED read
    /\ sourceTodo' = Tail(sourceTodo)
    /\ UNCHANGED <<pc, enumeration, pushed, cluster>>

SourcesRead ==
    /\ pc = "sources" /\ sourceTodo = <<>>
    /\ pc' = "push"
    /\ UNCHANGED <<enumeration, sources, pushed, cluster>>

-----------------------------------------------------------------------------
\* Mutant: pods are enough to count a deployment's.
Required_PodsOnly ==
    [k8sPods |-> {"pod"}, k8sServiceEndpoints |-> {"endpointslice"},
     k8sCronJobRuns |-> {"job"}, k8sEvents |-> {"event"}]

\* ROLLUP_FACET_REQUIRED_SOURCES.
Required ==
    [k8sPods |-> {"pod", "replicaset"}, k8sServiceEndpoints |-> {"endpointslice"},
     k8sCronJobRuns |-> {"job"}, k8sEvents |-> {"event"}]
Available(facet) == Required[facet] \intersect unavailable = {}

\* The facets an item of a type may have.
Workloads == {"deployment", "statefulset", "daemonset", "job"}
FacetsOf(t) ==
    {"k8sEvents"}
    \union (IF t \in Workloads THEN {"k8sPods"} ELSE {})
    \union (IF t = "service" THEN {"k8sServiceEndpoints"} ELSE {})
    \union (IF t = "cronjob" THEN {"k8sCronJobRuns"} ELSE {})

\* resolve_workload_owner: a pod's controller or, when that is a ReplicaSet
\* which was read and has one itself, the ReplicaSet's.
WorkloadOf(pod, S) ==
    LET rs == {o \in S : o.type = "replicaset" /\ o.uid = pod.of /\ o.of # NoUid}
    IN  IF rs = {} THEN pod.of ELSE (CHOOSE o \in rs : TRUE).of

\* What a facet of x sums up, when S is all there is to know.
PodsOf(x, S) == {o \in S : o.type = "pod" /\ o.of # NoUid /\ WorkloadOf(o, S) = x.uid}
EventsOf(U, S) == {o \in S : o.type = "event" /\ o.of \in U}
Value(facet, x, S) ==
    CASE facet = "k8sPods" -> PodsOf(x, S)
      [] facet = "k8sServiceEndpoints" -> {o \in S : o.type = "endpointslice" /\ o.of = x.uid}
      [] facet = "k8sCronJobRuns" -> {o \in S : o.type = "job" /\ o.of = x.uid}
      [] facet = "k8sEvents" ->
            EventsOf({x.uid} \union (IF x.type \in Workloads THEN {p.uid : p \in PodsOf(x, S)} ELSE {}), S)

\* rollups_for, over what was read for this namespace.
RollupsFor(x) ==
    [facet \in {f \in FacetsOf(x.type) : Available(f)} |->
        Value(facet, x, UNION {read[t] : t \in Range(Sources)})]

\* A standalone Job, or one that something else owns, is an item.
IsJobOwnedByCronjob(x) == x.type = "job" /\ x.of \in CronJobUids

\* An item is pushed as its type is listed, after all sources were read. An
\* ephemeral type is not, nor is a Job of a CronJob.
Push(x) ==
    /\ pc = "push"
    /\ x \in live /\ x \notin {p.item : p \in pushed}
    /\ x.type \notin RollupSourceTypes
    /\ ~IsJobOwnedByCronjob(x)
    /\ \E r \in Range(resources) :
          /\ r.spec.type = x.type /\ ~r.ephemeral
          /\ pushed' = pushed \union {[item |-> x, chain |-> ChainOf(r.spec), rollups |-> RollupsFor(x)]}
    /\ UNCHANGED <<pc, enumeration, sources, cluster>>

\* The cluster (external), in any order.
Change(S) ==
    /\ changes < MaxChanges /\ pc # "failed"
    /\ changes' = changes + 1
    /\ live' = S
    /\ run' = [steady |-> run.steady \intersect S, ever |-> run.ever \union S]
    /\ UNCHANGED <<pc, enumeration, sources, pushed>>
Create(o) == o \notin live /\ Change(live \union {o}) /\ Exists(o)
Delete(o) == o \in live /\ Change(live \ {o})

Next ==
    \/ ReadCrds \/ ReadCore \/ ReadGroup \/ Enumerated \/ PutPack \/ ReadSource \/ SourcesRead
    \/ \E x \in Objs : Push(x) \/ Create(x) \/ Delete(x)
Spec == Init /\ [][Next]_vars

-----------------------------------------------------------------------------
TypeOK ==
    /\ pc \in {"crds", "core", "groups", "pack", "sources", "push", "failed"}
    /\ api \in Apis /\ crds \in api.crds \union {<<>>}
    /\ IsSuffix(toRead, api.groups) /\ IsSuffix(sourceTodo, Sources)
    /\ unread \subseteq {g.name : g \in Range(api.groups)}
    /\ \A r \in registry \ BuiltinSpecs, s \in registry : r.type = s.type => r = s
    /\ unavailable \subseteq Range(Sources)
    /\ \A t \in Range(Sources) : read[t] \subseteq Objs /\ (t \in unavailable => read[t] = {})
    /\ \A p \in pushed : DOMAIN p.rollups \subseteq FacetsOf(p.item.type)
    /\ live \subseteq Objs /\ changes \in 0..MaxChanges

\* The groups that were read, and who serves a type.
ReadGroups == {g \in AllGroups : g.name \notin unread}
Servers(t) == {g.name : g \in {h \in ReadGroups : t \in TypesOf(h)}}

\* Every type that a readable group serves is enumerated exactly once, so is
\* listed, pushed and committed once; a legacy group stands in for it only
\* when no other does, and the core group wins over all.
EveryTypeOnce ==
    pc = "pack" =>
        /\ \A i, j \in DOMAIN resources : resources[i].spec.type = resources[j].spec.type => i = j
        /\ \A g \in ReadGroups : \A t \in TypesOf(g) : IsServed(t)
        /\ \A r \in Range(resources) :
              /\ r.group \in Servers(r.spec.type)
              /\ r.group \in LegacyGroups => Servers(r.spec.type) \subseteq LegacyGroups
              /\ NoGroup \in Servers(r.spec.type) => r.group = NoGroup

\* Types that are not everywhere the same: another run has registered one
\* differently, or the CRDs that were read are not those behind the API -- two
\* claim its kind, its scope has changed, or its plural was another's.
Disputed(s) == Conflicts(api.registry \union {CrdSpec(c) : c \in Range(crds)}, s)

\* "Without that third source, discover.py could list and push items of a type
\* whose TypeSpec was never registered": papi takes the chain of every item,
\* of whatever origin its type is and whichever reads failed, unless the type
\* is disputed.
PushedChainsAreTaken ==
    \A p \in pushed :
        \/ TakesChain(registry, p.chain)
        \/ \E r \in Range(resources) : r.spec.type = p.item.type /\ Disputed(r.spec)

\* What a facet leaves out when it is computed of what may be missing: the
\* events of pods that could not be attributed.
Owed(facet, x) ==
    IF facet = "k8sEvents" /\ {"pod", "replicaset"} \intersect unavailable # {}
    THEN EventsOf({x.uid}, run.steady)
    ELSE Value(facet, x, run.steady)
Truthful(p, facet) ==
    /\ Owed(facet, p.item) \subseteq p.rollups[facet]
    /\ p.rollups[facet] \subseteq Value(facet, p.item, run.ever)

\* "A 403/error reading one of these rollup sources is never treated as zero
\* of that": a facet that is pushed sums up everything of the item that was
\* there throughout the run, and nothing that never was.
RollupsAreTruthful ==
    \A p \in pushed : \A facet \in DOMAIN p.rollups : Truthful(p, facet)

\* So it is unless a source type is served only by groups that could not be
\* read.
ReadRollupsAreTruthful ==
    \/ RollupsAreTruthful
    \/ \E t \in Range(Sources) : Servers(t) = {} /\ \E g \in AllGroups : t \in TypesOf(g)
=============================================================================
