------------------------------ MODULE Discover ------------------------------
(***************************************************************************)
(* rwdiscovery/discover.py: one run_discover() against a cluster that      *)
(* changes and a platform inventory that earlier runs have filled.         *)
(*                                                                         *)
(* The run opens a sync, pushes the cluster, its namespaces and then every *)
(* type's objects through the BatchingPusher of sync.py, and commits with  *)
(* one partition per (type, parentPath). papi, the platform, is external:  *)
(* it stores an item whose parent it has, and at commit sweeps the         *)
(* `complete` partitions of what the sync did not touch, with all that     *)
(* hangs under it.                                                         *)
(*                                                                         *)
(* A type's listing is taken at the guarantee module Paginate proves of    *)
(* it: it yields objects that existed while it ran, and reports a scope    *)
(* `complete` only when it yielded every object steady in that scope.      *)
(* A call to papi either answers, or fails for good after the retries of   *)
(* SyncClient._request -- with or without having taken effect.             *)
(***************************************************************************)
EXTENDS Integers, Sequences, SequencesExt, FiniteSets

CONSTANTS
    Names,          \* the namespaces' names
    NoNs,           \* parentPath of a partition of the cluster itself
    Objs,           \* the objects, records [type, ns, name]
    Transient,      \* those of Objs that are Jobs a CronJob owns
    Types,          \* the stored types, a sequence of [type, namespaced]
    SourceTypes,    \* ROLLUP_SOURCE_TYPES the cluster serves
    Inputs,         \* the inputs [namespaces, exclude] a run may be given
    Unstorable,     \* sets of items papi may not take as they are
    Clusters,       \* what may exist in the cluster when the run begins
    Inventories,    \* what earlier runs may have left in the inventory
    Outcomes,       \* how a listing may end: "complete", "failed", "forbidden"
    BatchSize,      \* MAX_BATCH_ITEMS / MAX_BATCH_BYTES
    MaxChanges      \* bound: changes to the cluster during the run

Root == [type |-> "cluster", ns |-> NoNs, name |-> NoNs]
NsItem(n) == [type |-> "namespace", ns |-> NoNs, name |-> n]
Items == {Root} \union {NsItem(n) : n \in Names} \union Objs
Parent(o) == IF o.ns = NoNs THEN Root ELSE NsItem(o.ns)
Rooted(S) == \A o \in S : o # Root => Parent(o) \in S \union {Root}

ASSUME NamesAssumption == IsFiniteSet(Names) /\ NoNs \notin Names
\* What is listed as a source is not pushed, so it is not among the objects;
\* the cluster and its namespaces are pushed before any type is listed; and a
\* type is listed once (Rollups!EveryTypeOnce).
ASSUME TypesAssumption ==
    /\ Types \in Seq(Range(Types)) /\ SourceTypes \in Seq(Range(SourceTypes))
    /\ \A i, j \in DOMAIN Types : Types[i].type = Types[j].type => i = j
    /\ IsInjective(SourceTypes)
    /\ \A t \in Range(Types) : t.type \notin {"cluster", "namespace"} \union Range(SourceTypes)
    /\ {"cluster", "namespace"} \intersect Range(SourceTypes) = {}
ASSUME ObjsAssumption ==
    /\ \A o \in Objs : /\ o.ns \in Names \union {NoNs}
                       /\ o.type \notin {"cluster", "namespace"} \union Range(SourceTypes)
    /\ Transient \subseteq Objs
ASSUME InputsAssumption == \A i \in Inputs : i.namespaces \in Seq(Names)
\* Namespaced objects exist in namespaces, and papi never stores an orphan.
ASSUME ClusterAssumption ==
    \A S \in Clusters : S \subseteq Items \ {Root} /\ Rooted(S)
ASSUME InventoryAssumption ==
    \A S \in Inventories : S \subseteq Items \ Transient /\ Rooted(S) /\ (S # {} => Root \in S)
ASSUME OutcomesAssumption == Outcomes \subseteq {"complete", "failed", "forbidden"}
ASSUME BoundsAssumption == BatchSize \in Nat \ {0} /\ MaxChanges \in Nat

VARIABLES
    live,           \* the cluster: namespace items and objects that exist now
    changes,        \* how often the cluster changed (bounded by MaxChanges)
    input,          \* the inputs namespaces and exclude_namespaces
    pc,             \* where run_discover is
    listed,         \* all_ns_items, by name
    nsList,         \* "ok", or the status of ns_list_failure
    scope,          \* in_scope_namespaces
    excluded,       \* excluded_namespaces
    nsTodo,         \* the namespaces the current loop still has to visit
    typeTodo,       \* the resources the main loop still has to list
    yielded,        \* objects the listing of Head(typeTodo) has yielded
    partitions,     \* counters.partition_types and counters.partitions
    batch,          \* pusher._batch
    rejected,       \* pusher.rejected_partitions (its keys)
    inv,            \* papi: the active items under the cluster's scope
    sync,           \* papi: the state of the run's sync
    unstorable,     \* papi: the items it will not take: their document is not
                    \* acceptable, or their type was skipped at registration
    touched,        \* papi: the items this sync stored
    committed,      \* papi: the partitions it was given at commit
    window,         \* history: [steady, ever] since the current listing began
    run,            \* history: [steady, ever] since the run began
    deleted         \* history: what this run's commit deleted

cluster == <<live, changes, run>>
scoping == <<listed, nsList, scope, excluded>>
loop == <<nsTodo, typeTodo, yielded, window>>
pusher == <<batch, rejected>>
platform == <<inv, sync, unstorable, touched, committed, deleted>>
storage == <<inv, unstorable, touched, committed, deleted>>
vars == <<cluster, input, pc, scoping, loop, partitions, pusher, platform>>

Final == {"done", "failed"}

Descendants(S) == {o \in Items : o # Root /\ (Parent(o) \in S \/ Parent(Parent(o)) \in S)}

\* The (type, namespace) a partition and a pushed item are keyed by.
Key(o) == <<o.type, o.ns>>
InPartition(S, p) == {o \in S : o.type = p.type /\ o.ns = p.ns /\ o # Root}
Partition(t, n, status) == [type |-> t, ns |-> n, status |-> status]

\* History of a stretch of time: what lived all through it, what lived at all.
Since(S) == [steady |-> S, ever |-> S]

-----------------------------------------------------------------------------
(* papi (external): the items route. An item is stored if papi knows its   *)
(* type and has its parent, from before or from earlier in the batch.      *)
Storable(o, stored) == o \notin unstorable /\ (o = Root \/ Parent(o) \in stored)
Takes(b, S) ==
    \A i \in DOMAIN b : i \in S <=> Storable(b[i], inv \union {b[j] : j \in {k \in S : k < i}})
Stores(b, S) ==
    /\ inv' = inv \union {b[i] : i \in S}
    /\ touched' = touched \union {b[i] : i \in S}

\* BatchingPusher.flush: the answer names the rejected items, whose keys it
\* keeps (the cluster item has none).
FlushOk ==
    /\ \E S \in SUBSET DOMAIN batch :
          /\ Takes(batch, S) /\ Stores(batch, S)
          /\ rejected' = rejected \union
                {Key(batch[i]) : i \in {j \in DOMAIN batch \ S : batch[j] # Root}}
    /\ UNCHANGED <<sync, unstorable, committed, deleted>>

\* The push failed for good: papi has stored the batch, or has not.
FlushFails ==
    /\ \/ \E S \in SUBSET DOMAIN batch : Takes(batch, S) /\ Stores(batch, S)
       \/ UNCHANGED <<inv, touched>>
    /\ UNCHANGED <<rejected, sync, unstorable, committed, deleted>>

\* Mutant: a full batch is not flushed.
Add_NoFlush(o) == batch' = Append(batch, o) /\ UNCHANGED <<rejected, platform>>

\* BatchingPusher.add, when it goes through: a full batch is flushed first.
Add(o) ==
    IF Len(batch) < BatchSize
    THEN batch' = Append(batch, o) /\ UNCHANGED <<rejected, platform>>
    ELSE FlushOk /\ batch' = <<o>>

\* An exception after the sync is open: run_discover aborts and re-raises.
Raise == pc' = "abort" /\ UNCHANGED <<cluster, input, scoping, loop, partitions>>

-----------------------------------------------------------------------------
Init ==
    /\ live \in Clusters
    /\ inv \in Inventories
    /\ changes = 0
    /\ input \in Inputs
    /\ pc = "open"
    /\ listed = <<>> /\ nsList = "ok" /\ scope = <<>> /\ excluded = <<>>
    /\ nsTodo = <<>> /\ typeTodo = <<>> /\ yielded = {}
    /\ partitions = <<>> /\ batch = <<>> /\ rejected = {}
    /\ sync = "none" /\ unstorable = {} /\ touched = {} /\ committed = <<>>
    /\ window = Since(live) /\ run = Since(live)
    /\ deleted = {}

\* put_pack and open_sync. Whatever is raised up to here -- a cluster that
\* does not answer, a pack conflict, a 409 for a sync already open -- is
\* raised outside the try block.
OpenSync ==
    /\ pc = "open"
    /\ unstorable' \in Unstorable
    /\ sync' = "open"
    /\ pc' = "namespaces"
    /\ UNCHANGED <<cluster, input, scoping, loop, partitions, pusher, inv, touched,
                   committed, deleted>>

OpenFails ==
    /\ pc = "open"
    /\ pc' = "failed"
    /\ sync' \in {"none", "open"}          \* "open": only the answer was lost
    /\ UNCHANGED <<cluster, input, scoping, loop, partitions, pusher, storage>>

\* _list_namespaces and _resolve_in_scope_namespaces, in one order or another.
Resolve(names) ==
    IF input.namespaces # <<>> THEN input.namespaces
    ELSE SetToSeq(Range(names) \ input.exclude)

ListNamespaces ==
    /\ pc = "namespaces"
    /\ \E outcome \in {"ok", "forbidden", "failed"} :
          /\ nsList' = outcome
          /\ listed' = IF outcome = "ok" THEN SetToSeq({n \in Names : NsItem(n) \in live}) ELSE <<>>
    /\ scope' = Resolve(listed')
    /\ pc' = "cluster"
    /\ UNCHANGED <<cluster, input, excluded, loop, partitions, pusher, platform>>

\* _push_cluster_and_namespaces: the cluster item first. Reading the API
\* groups may raise; the nodes are read best effort.
PushCluster ==
    /\ pc = "cluster"
    /\ Add(Root)
    /\ pc' = "push_ns"
    /\ nsTodo' = CASE nsList = "ok" -> listed [] nsList = "forbidden" -> scope [] OTHER -> <<>>
    /\ UNCHANGED <<cluster, input, scoping, typeTodo, yielded, window, partitions>>

\* A listed namespace that is in scope is pushed, any other is excluded.
PushListedNamespace ==
    /\ pc = "push_ns" /\ nsList = "ok" /\ nsTodo # <<>>
    /\ IF Head(nsTodo) \in Range(scope)
       THEN Add(NsItem(Head(nsTodo))) /\ UNCHANGED excluded
       ELSE excluded' = Append(excluded, Head(nsTodo)) /\ UNCHANGED <<pusher, platform>>
    /\ nsTodo' = Tail(nsTodo)
    /\ UNCHANGED <<cluster, input, pc, listed, nsList, scope, typeTodo, yielded, window,
                   partitions>>

\* Mutants: no stub for a namespace that is not there, and one namespace for
\* ever.
PushNamedNamespace_NoStub ==
    /\ pc = "push_ns" /\ nsList = "forbidden" /\ nsTodo # <<>>
    /\ IF NsItem(Head(nsTodo)) \in live THEN Add(NsItem(Head(nsTodo)))
                                       ELSE UNCHANGED <<pusher, platform>>
    /\ nsTodo' = Tail(nsTodo)
    /\ UNCHANGED <<cluster, input, pc, scoping, typeTodo, yielded, window, partitions>>
PushNamedNamespace_Again ==
    /\ pc = "push_ns" /\ nsList = "forbidden" /\ nsTodo # <<>>
    /\ Add(NsItem(Head(nsTodo)))
    /\ UNCHANGED <<cluster, input, pc, scoping, loop, partitions>>

\* A forbidden listing: every namespace named in the input is read by name
\* and pushed, as a stub when it is not there or not readable.
PushNamedNamespace ==
    /\ pc = "push_ns" /\ nsList = "forbidden" /\ nsTodo # <<>>
    /\ Add(NsItem(Head(nsTodo)))
    /\ nsTodo' = Tail(nsTodo)
    /\ UNCHANGED <<cluster, input, pc, scoping, typeTodo, yielded, window, partitions>>

\* Mutant: a narrowed scope is not told from a full one.
NamespaceStatus_Narrowed == IF nsList # "ok" THEN nsList ELSE "complete"

\* The partition of all namespaces: `complete` only when all were listed and
\* none was left out.
NamespaceStatus ==
    CASE nsList # "ok" -> nsList
      [] excluded # <<>> -> "excluded"
      [] OTHER -> "complete"

NamespacesPushed ==
    /\ pc = "push_ns" /\ nsTodo = <<>>
    /\ partitions' = Append(partitions, Partition("namespace", NoNs, NamespaceStatus))
    /\ pc' = "sources"
    /\ nsTodo' = scope
    /\ UNCHANGED <<cluster, input, scoping, typeTodo, yielded, window, pusher, platform>>

\* _fetch_namespace_rollup_sources, one in-scope namespace: read for its
\* partitions only, nothing of these types is pushed.
ReadSources ==
    /\ pc = "sources" /\ nsTodo # <<>>
    /\ \E status \in [1..Len(SourceTypes) -> Outcomes] :
          partitions' = partitions \o
              [i \in 1..Len(SourceTypes) |-> Partition(SourceTypes[i], Head(nsTodo), status[i])]
    /\ nsTodo' = Tail(nsTodo)
    /\ UNCHANGED <<cluster, input, pc, scoping, typeTodo, yielded, window, pusher, platform>>

StartListing(todo) ==
    /\ typeTodo' = todo
    /\ yielded' = {}
    /\ window' = Since(live)

SourcesRead ==
    /\ pc = "sources" /\ nsTodo = <<>>
    /\ pc' = "types"
    /\ StartListing(Types)
    /\ UNCHANGED <<cluster, input, scoping, nsTodo, partitions, pusher, platform>>

\* list_resource of Head(typeTodo): the scopes it answers for, an object of
\* theirs on one of its pages, and its partitions. A namespace named twice is
\* listed twice, and may end differently; a second push of an object changes
\* nothing and is left out.
ListedScopes == IF Head(typeTodo).namespaced THEN scope ELSE <<NoNs>>
OfType(S) == {o \in S : o.type = Head(typeTodo).type /\ o.ns \in Range(ListedScopes)}

PushObject ==
    /\ pc = "types" /\ typeTodo # <<>>
    /\ \E o \in OfType(window.ever) \ yielded :
          /\ yielded' = yielded \union {o}
          /\ IF o \in Transient THEN UNCHANGED <<pusher, platform>> ELSE Add(o)
    /\ UNCHANGED <<cluster, input, pc, scoping, nsTodo, typeTodo, window, partitions>>

TypeListed ==
    /\ pc = "types" /\ typeTodo # <<>>
    /\ \E status \in [DOMAIN ListedScopes -> Outcomes] :
          /\ \A i \in DOMAIN ListedScopes : status[i] = "complete" =>
                \A o \in OfType(window.steady) : o.ns = ListedScopes[i] => o \in yielded
          /\ partitions' = partitions \o
                [i \in DOMAIN ListedScopes |->
                    Partition(Head(typeTodo).type, ListedScopes[i], status[i])]
    /\ StartListing(Tail(typeTodo))
    /\ UNCHANGED <<cluster, input, pc, scoping, nsTodo, pusher, platform>>

\* Mutant: the source types are forgotten.
ExcludedTypes_NoSources == {t.type : t \in {u \in Range(Types) : u.namespaced}}

\* Every type of every excluded namespace is reported, and reported excluded.
ExcludedTypes == {t.type : t \in {u \in Range(Types) : u.namespaced}} \union Range(SourceTypes)
AllListed ==
    /\ pc = "types" /\ typeTodo = <<>>
    /\ partitions' = partitions \o
          SetToSeq({Partition(t, n, "excluded") : t \in ExcludedTypes, n \in Range(excluded)})
    /\ pc' = "flush"
    /\ UNCHANGED <<cluster, input, scoping, loop, pusher, platform>>

FinalFlush ==
    /\ pc = "flush"
    /\ FlushOk
    /\ batch' = <<>>
    /\ pc' = "commit"
    /\ UNCHANGED <<cluster, input, scoping, loop, partitions>>

\* Any step that talks to the cluster or flushes may raise instead: K8sClient
\* turns an HTTP error into ForbiddenError or ApiError, and lets a connection
\* error through. What the batch holds is then lost with the run, or has
\* reached papi unanswered.
RunFails ==
    /\ \/ pc \in {"namespaces", "cluster", "flush"}
       \/ pc \in {"push_ns", "sources"} /\ nsTodo # <<>>
       \/ pc = "types" /\ typeTodo # <<>>
    /\ \/ UNCHANGED <<rejected, platform>>
       \/ (Len(batch) = BatchSize \/ pc = "flush") /\ FlushFails
    /\ UNCHANGED batch
    /\ Raise

-----------------------------------------------------------------------------
\* Mutants: rejections are ignored; a listing that failed counts as complete.
CommitBody_NoRejections == partitions
CommitBody_FailedIsComplete ==
    [i \in DOMAIN partitions |->
        IF partitions[i].status = "failed" THEN [partitions[i] EXCEPT !.status = "complete"]
        ELSE partitions[i]]

\* _commit_partition_entry: a rejected item turns `complete` into `failed`.
CommitBody ==
    [i \in DOMAIN partitions |->
        IF partitions[i].status = "complete"
           /\ <<partitions[i].type, partitions[i].ns>> \in rejected
        THEN [partitions[i] EXCEPT !.status = "failed"] ELSE partitions[i]]

\* papi (external): the commit route. Untouched items of every complete
\* partition go, and everything under them; none does when the mass-delete
\* guard holds the sync.
Doomed(body) ==
    UNION {InPartition(inv, p) \ touched : p \in {q \in Range(body) : q.status = "complete"}}
Sweep(body) ==
    /\ committed' = body
    /\ \/ sync' = "held" /\ Doomed(body) # {} /\ UNCHANGED <<inv, deleted>>
       \/ sync' = "committed"
          /\ deleted' = inv \intersect (Doomed(body) \union Descendants(Doomed(body)))
          /\ inv' = inv \ deleted'
    /\ UNCHANGED <<unstorable, touched>>

Commit ==
    /\ pc = "commit"
    /\ Sweep(CommitBody)
    /\ pc' = "done"
    /\ UNCHANGED <<cluster, input, scoping, loop, partitions, pusher>>

CommitFails ==
    /\ pc = "commit"
    /\ Sweep(CommitBody) \/ UNCHANGED platform
    /\ UNCHANGED pusher
    /\ Raise

\* The except branch: abort, best effort, and re-raise. A sync that reached
\* another terminal state keeps it.
Abort ==
    /\ pc = "abort"
    /\ pc' = "failed"
    /\ sync' \in {sync, IF sync = "open" THEN "aborted" ELSE sync}
    /\ UNCHANGED <<cluster, input, scoping, loop, partitions, pusher, storage>>

-----------------------------------------------------------------------------
\* The cluster: a namespace goes only when it is empty.
Observe(h, S) == [steady |-> h.steady \intersect S, ever |-> h.ever \union S]
Change(S) ==
    /\ pc \notin Final \union {"abort"} /\ changes < MaxChanges
    /\ changes' = changes + 1
    /\ live' = S
    /\ run' = Observe(run, S)
    /\ window' = Observe(window, S)
    /\ UNCHANGED <<input, pc, scoping, nsTodo, typeTodo, yielded, partitions, pusher, platform>>
Create(o) == o \notin live /\ Parent(o) \in live \union {Root} /\ Change(live \union {o})
Delete(o) == o \in live /\ Descendants({o}) \intersect live = {} /\ Change(live \ {o})

Discovery ==
    \/ OpenSync \/ OpenFails \/ ListNamespaces \/ PushCluster \/ PushListedNamespace
    \/ PushNamedNamespace \/ NamespacesPushed \/ ReadSources \/ SourcesRead \/ PushObject
    \/ TypeListed \/ AllListed \/ FinalFlush \/ RunFails \/ Commit \/ CommitFails \/ Abort
Next == Discovery \/ \E o \in Items \ {Root} : Create(o) \/ Delete(o)
Spec == Init /\ [][Next]_vars

\* Every call of the run returns or raises.
FairSpec == Spec /\ WF_vars(Discovery)

-----------------------------------------------------------------------------
Partitions == [type : {"namespace"} \union Range(SourceTypes) \union {t.type : t \in Range(Types)},
               ns : Names \union {NoNs}, status : {"complete", "failed", "forbidden", "excluded"}]
TypeOK ==
    /\ live \subseteq Items /\ inv \subseteq Items /\ touched \subseteq Items /\ deleted \subseteq Items
    /\ changes \in 0..MaxChanges /\ input \in Inputs
    /\ pc \in {"open", "namespaces", "cluster", "push_ns", "sources", "types", "flush",
               "commit", "abort"} \union Final
    /\ nsList \in {"ok", "forbidden", "failed"}
    /\ {listed, scope, excluded, nsTodo} \subseteq Seq(Names)
    /\ typeTodo \in Seq(Range(Types))
    /\ yielded \subseteq Objs
    /\ partitions \in Seq(Partitions) /\ committed \in Seq(Partitions)
    /\ batch \in Seq(Items \ Transient) /\ Len(batch) <= BatchSize
    /\ rejected \subseteq {Key(o) : o \in Items}
    /\ sync \in {"none", "open", "committed", "held", "aborted"}
    /\ \A h \in {window, run} : h.steady \subseteq h.ever /\ h.ever \subseteq Items

\* No run removes from the inventory an object that existed throughout the
\* run: not through a cascade from its namespace, not because the scope was
\* narrowed, a listing was forbidden or failed, or papi rejected its item.
\* (A Job a CronJob owns is never stored, so it cannot be removed either.)
\* And a namespace the input leaves out while it is there keeps its subtree,
\* whatever becomes of that in the cluster.
NothingSteadyIsDeleted ==
    /\ deleted \intersect run.steady = {}
    /\ \A n \in Names : NsItem(n) \in run.steady /\ n \notin Range(scope) =>
          \A o \in deleted : o # NsItem(n) /\ o.ns # n

\* What a partition committed as `complete` holds after the sweep is what the
\* cluster held: everything steady, and nothing that never was.
CompletePartitionsAreAccurate ==
    sync = "committed" =>
        \A p \in Range(committed) : p.status = "complete" =>
            /\ InPartition(run.steady \ Transient, p) \subseteq inv
            /\ InPartition(inv, p) \subseteq run.ever

\* The (type, parentPath)s a run that lists `names` answers for: all
\* namespaces, the cluster-scoped types, and every namespaced type of every
\* namespace it knows of, in scope or excluded.
Answerable ==
    {<<"namespace", NoNs>>}
    \union {<<t.type, NoNs>> : t \in {u \in Range(Types) : ~u.namespaced}}
    \union ({t.type : t \in {u \in Range(Types) : u.namespaced}} \union Range(SourceTypes))
           \X (Range(scope) \union Range(excluded))

\* A finished run commits one partition for each of them, and no other:
\* nothing is claimed twice -- unless the input names a namespace twice --
\* and nothing it should answer for is forgotten.
ExactlyOnePartitionEach ==
    pc = "done" =>
        /\ {<<p.type, p.ns>> : p \in Range(committed)} = Answerable
        /\ IsInjective(scope) => Len(committed) = Cardinality(Answerable)

\* "Pushes items with every ancestor pushed before its children": what waits
\* to be sent has its parent ahead of it, in this batch or in an earlier one.
AncestorsPushedFirst ==
    \A i \in DOMAIN batch : batch[i] # Root =>
        Parent(batch[i]) \in touched \union {batch[j] : j \in 1..(i - 1)}

\* So it is whenever the namespaces in scope could be listed or named, and
\* papi takes what others hang under.
AncestorsFirstWhenNamespacesKnown ==
    unstorable \subseteq Objs /\ (nsList = "forbidden" \/ (nsList = "ok" /\ Range(scope) \subseteq Range(listed)))
        => AncestorsPushedFirst

\* What the run does to the inventory, whatever it does to get there.
Contract == INSTANCE Inventory WITH
    steady <- run.steady, ever <- run.ever, swept <- (sync = "committed"),
    named <- {NsItem(n) : n \in Range(input.namespaces)}
ImplementsContract == Contract!Spec

\* Every call returns or raises, so every run ends.
RunEnds == <>(pc \in Final)
=============================================================================
