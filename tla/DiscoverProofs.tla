---------------------------- MODULE DiscoverProofs ----------------------------
(***************************************************************************)
(* What a discovery run does to the inventory, for any cluster, any        *)
(* inventory, any types and inputs, and any failures: nothing that was     *)
(* there throughout is deleted, complete partitions are accurate, and the  *)
(* run implements Inventory. Then, over the same invariant: ancestors are  *)
(* pushed first where the namespaces are known, and every partition is     *)
(* reported exactly once.                                                  *)
(***************************************************************************)
EXTENDS Discover, DataTheorems

-----------------------------------------------------------------------------
(* The inductive invariant.                                                *)

\* What has been pushed: papi has it, it is on its way, or it was rejected.
Handled(o) == o \in touched \union Range(batch) \/ Key(o) \in rejected

\* The stubs a run may push for namespaces it was given by name.
NamedItems == {NsItem(n) : n \in Range(input.namespaces)}

\* What is steady is there now, with its namespace; what is there was seen.
Histories ==
    /\ run.steady \subseteq window.steady /\ window.steady \subseteq live
    /\ live \subseteq window.ever /\ window.ever \subseteq run.ever
    /\ Root \notin live /\ Rooted(live) /\ Rooted(run.steady)

\* papi's tree is whole, and holds no Job of a CronJob; what the run pushes
\* was in the cluster, is a namespace that it could only be given by name, or
\* is the cluster.
Stored ==
    /\ inv \intersect Transient = {}
    /\ \A o \in inv : o # Root => Parent(o) \in inv
    /\ sync # "committed" => touched \subseteq inv
    /\ touched \union Range(batch) \subseteq run.ever \union {Root} \union NamedItems
    /\ nsList # "forbidden" => touched \union Range(batch) \subseteq run.ever \union {Root}

\* Nothing is deleted but at the end, and the last batch is sent before it.
Stages ==
    /\ pc \in {"open", "namespaces"} => partitions = <<>> /\ nsList = "ok"
    /\ pc \in {"open", "namespaces", "cluster"} => excluded = <<>> /\ batch = <<>>
    /\ pc \in {"commit", "done"} => batch = <<>>
    /\ deleted # {} \/ sync = "committed" => pc \in {"done", "abort", "failed"}

\* The namespaces that are listed, in scope, and still to visit.
Scoped ==
    /\ \A n \in Range(listed) : NsItem(n) \in run.ever
    /\ nsList = "ok" /\ pc \in {"cluster", "push_ns"} =>
          \A n \in Names : NsItem(n) \in run.steady => n \in Range(listed)
    /\ nsList # "ok" => Range(scope) \subseteq Range(input.namespaces)
    /\ pc = "push_ns" /\ nsList = "ok" => Range(nsTodo) \subseteq Range(listed)
    /\ pc = "push_ns" /\ nsList = "forbidden" => Range(nsTodo) \subseteq Range(input.namespaces)
    /\ pc = "sources" => Range(nsTodo) \subseteq Range(scope)

\* What a loop has been through was pushed, or left out with reason.
Accounted ==
    /\ pc = "push_ns" /\ nsList = "ok" =>
          \A n \in Range(listed) : n \in Range(nsTodo) \union Range(excluded) \/ Handled(NsItem(n))
    /\ pc = "types" => \A o \in yielded \ Transient : Handled(o)

\* A partition recorded as complete is of the scope, and all that is steady
\* in it was pushed.
Claim(p) ==
    /\ p.ns \in Range(scope) \union {NoNs}
    /\ \A o \in InPartition(run.steady \ Transient, p) : Handled(o)
    /\ p.type = "namespace" => nsList = "ok"
Claimed == \A p \in Range(partitions) : p.status = "complete" => Claim(p)

IInv ==
    /\ TypeOK /\ Histories /\ Stored /\ Stages /\ Scoped /\ Accounted /\ Claimed
    /\ NothingSteadyIsDeleted /\ CompletePartitionsAreAccurate

-----------------------------------------------------------------------------
(* Items and their parents.                                                *)

LEMMA RootIs ==
    /\ Root \in Items /\ Root \notin Objs /\ Root \notin Transient /\ Root.ns = NoNs
    /\ Parent(Root) = Root
BY ObjsAssumption DEF Items, Root, Parent

LEMMA NsItemIs ==
    ASSUME NEW n \in Names
    PROVE  /\ NsItem(n) \in Items /\ NsItem(n) # Root /\ NsItem(n) \notin Objs
           /\ NsItem(n) \notin Transient /\ NsItem(n).ns = NoNs /\ NsItem(n).type = "namespace"
           /\ Parent(NsItem(n)) = Root
BY ObjsAssumption DEF Items, Root, NsItem, Parent

LEMMA ItemNs ==
    ASSUME NEW o \in Items
    PROVE  o.ns \in Names \union {NoNs}
BY ObjsAssumption DEF Items, Root, NsItem

LEMMA ParentIs ==
    ASSUME NEW o \in Items
    PROVE  Parent(o) \in Items /\ Parent(Parent(o)) = Root
<1>1. CASE o.ns = NoNs
  BY <1>1, RootIs DEF Parent
<1>2. CASE o.ns # NoNs
  BY <1>2, ItemNs, NsItemIs DEF Parent
<1> QED  BY <1>1, <1>2

\* An item of the type of namespaces is one, and one of a listed type is an
\* object.
LEMMA ItemOfType ==
    ASSUME NEW o \in Items
    PROVE  /\ o.type = "namespace" => \E n \in Names : o = NsItem(n)
           /\ o.type \notin {"cluster", "namespace"} => o \in Objs
           /\ o.type \notin Range(SourceTypes)
BY ObjsAssumption, TypesAssumption DEF Items, Root, NsItem

-----------------------------------------------------------------------------
(* The pusher. What one call of it does, when O is what it is given.       *)

Pushes(O) ==
    /\ inv \subseteq inv' /\ inv' \subseteq inv \union Range(batch)
    /\ \A o \in inv' : o # Root => Parent(o) \in inv'
    /\ touched \subseteq touched' /\ touched' \subseteq touched \union Range(batch)
    /\ sync # "committed" => touched' \subseteq inv'
    /\ rejected \subseteq rejected' /\ rejected' \subseteq {Key(o) : o \in Items}
    /\ batch' \in Seq(Items \ Transient) /\ Len(batch') <= BatchSize
    /\ Range(batch') \subseteq Range(batch) \union O
    /\ \A o \in (Range(batch) \union O) \ {Root} : Handled(o)'
    /\ UNCHANGED <<sync, unstorable, committed, deleted>>

LEMMA SamePushes ==
    ASSUME IInv, UNCHANGED <<pusher, platform>>
    PROVE  Pushes({})
BY DEF IInv, TypeOK, Stored, Pushes, Handled, pusher, platform

\* Whatever of a batch papi takes, its tree stays whole.
LEMMA TakenIsStored ==
    ASSUME IInv, NEW S \in SUBSET DOMAIN batch, Takes(batch, S), Stores(batch, S)
    PROVE  /\ inv \subseteq inv' /\ inv' \subseteq inv \union Range(batch)
           /\ touched \subseteq touched' /\ touched' \subseteq touched \union Range(batch)
           /\ sync # "committed" => touched' \subseteq inv'
           /\ \A o \in inv' : o # Root => Parent(o) \in inv'
<1>1. \A i \in S : batch[i] \in Range(batch)
  BY DEF Range
<1>2. ASSUME NEW i \in S, batch[i] # Root PROVE Parent(batch[i]) \in inv'
  BY <1>2 DEF Takes, Storable, Stores
<1>3. ASSUME NEW o \in inv', o # Root PROVE Parent(o) \in inv'
  <2>1. CASE o \in inv
    BY <1>3, <2>1 DEF IInv, Stored, Stores
  <2>2. CASE o \notin inv
    BY <1>2, <1>3, <2>2 DEF Stores
  <2> QED  BY <2>1, <2>2
<1> QED  BY <1>1, <1>3 DEF IInv, Stored, Stores

LEMMA FlushPushes ==
    ASSUME IInv, FlushOk, NEW O, batch' \in Seq(Items \ Transient), Len(batch') <= BatchSize,
           Range(batch') = O
    PROVE  Pushes(O)
<1>1. PICK S \in SUBSET DOMAIN batch :
          /\ Takes(batch, S) /\ Stores(batch, S)
          /\ rejected' = rejected \union
                {Key(batch[i]) : i \in {j \in DOMAIN batch \ S : batch[j] # Root}}
  BY DEF FlushOk
<1>2. \A i \in DOMAIN batch : batch[i] \in Items
  BY DEF IInv, TypeOK
<1>3. rejected' \subseteq {Key(o) : o \in Items}
  BY <1>1, <1>2 DEF IInv, TypeOK
<1>4. ASSUME NEW o \in Range(batch), o # Root PROVE o \in touched' \/ Key(o) \in rejected'
  <2>1. PICK i \in DOMAIN batch : o = batch[i]
    BY <1>4 DEF Range
  <2> QED  BY <1>1, <1>4, <2>1 DEF Stores
<1>5. UNCHANGED <<sync, unstorable, committed, deleted>>
  BY DEF FlushOk
<1> QED  BY <1>1, <1>3, <1>4, <1>5, TakenIsStored DEF Pushes, Handled

LEMMA AddPushes ==
    ASSUME IInv, NEW o \in Items \ Transient, Add(o)
    PROVE  Pushes({o})
<1>0. batch \in Seq(Items \ Transient) /\ Len(batch) \in Nat /\ Len(batch) <= BatchSize
  BY DEF IInv, TypeOK
<1>1. CASE Len(batch) < BatchSize
  <2>1. batch' = Append(batch, o) /\ UNCHANGED <<rejected, platform>>
    BY <1>1 DEF Add
  <2>2. Range(batch') = Range(batch) \union {o}
    BY <1>0, <2>1, RangeAppend
  <2>3. batch' \in Seq(Items \ Transient) /\ Len(batch') = Len(batch) + 1
    BY <1>0, <2>1
  <2>4. Len(batch') <= BatchSize
    BY <1>0, <1>1, <2>3, BoundsAssumption
  <2> QED  BY <2>1, <2>2, <2>3, <2>4 DEF IInv, TypeOK, Stored, Pushes, Handled, platform
<1>2. CASE ~(Len(batch) < BatchSize)
  <2>1. FlushOk /\ batch' = <<o>>
    BY <1>2 DEF Add
  <2>2. batch' \in Seq(Items \ Transient) /\ Len(batch') <= BatchSize /\ Range(batch') = {o}
    BY <2>1, BoundsAssumption DEF Range
  <2> QED  BY <2>1, <2>2, FlushPushes
<1> QED  BY <1>1, <1>2

\* A push that fails for good loses nothing either: the batch is kept.
LEMMA FailedFlushPushes ==
    ASSUME IInv, FlushFails, UNCHANGED batch
    PROVE  Pushes({})
<1>1. UNCHANGED <<rejected, sync, unstorable, committed, deleted>>
  BY DEF FlushFails
<1>2. CASE UNCHANGED <<inv, touched>>
  BY <1>1, <1>2, SamePushes DEF pusher, platform
<1>3. CASE \E S \in SUBSET DOMAIN batch : Takes(batch, S) /\ Stores(batch, S)
  <2>1. PICK S \in SUBSET DOMAIN batch : Takes(batch, S) /\ Stores(batch, S)
    BY <1>3
  <2> QED  BY <1>1, <2>1, TakenIsStored DEF IInv, TypeOK, Pushes, Handled
<1> QED  BY <1>2, <1>3 DEF FlushFails

-----------------------------------------------------------------------------
(* What a push of the run leaves as it is.                                 *)

LEMMA PushKeeps ==
    ASSUME IInv, NEW O, Pushes(O), pc \notin {"done", "abort", "failed"},
           UNCHANGED <<cluster, input, listed, nsList, scope, window>>,
           O \subseteq run.ever \union {Root} \union NamedItems,
           nsList # "forbidden" => O \subseteq run.ever \union {Root}
    PROVE  /\ Histories' /\ Stored' /\ NothingSteadyIsDeleted' /\ CompletePartitionsAreAccurate'
           /\ \A o : o # Root /\ Handled(o) => Handled(o)'
           /\ \A p : Claim(p) => Claim(p)'
<1>1. /\ live' = live /\ run' = run /\ window' = window /\ input' = input /\ listed' = listed
      /\ nsList' = nsList /\ scope' = scope
  BY DEF cluster
<1>2. Histories'
  BY <1>1 DEF IInv, Histories, Rooted
<1>3. sync # "committed" /\ sync' = sync
  BY DEF IInv, Stages, Pushes
<1>4. inv' \intersect Transient = {}
  <2>1. Range(batch) \subseteq Items \ Transient
    BY RangeType DEF IInv, TypeOK
  <2> QED  BY <2>1 DEF Pushes, IInv, Stored
<1>5. touched' \union Range(batch') \subseteq touched \union Range(batch) \union O
  BY DEF Pushes
<1>6. Stored'
  BY <1>1, <1>3, <1>4, <1>5 DEF IInv, Stored, Pushes, NamedItems
<1>7. NothingSteadyIsDeleted'
  BY <1>1 DEF IInv, NothingSteadyIsDeleted, Pushes
<1>8. CompletePartitionsAreAccurate'
  BY <1>3 DEF CompletePartitionsAreAccurate
<1>9. ASSUME NEW o, o # Root, Handled(o) PROVE Handled(o)'
  BY <1>9 DEF Handled, Pushes
<1>10. ASSUME NEW p, Claim(p) PROVE Claim(p)'
  <2>1. \A o \in InPartition(run.steady \ Transient, p) : Handled(o)'
    BY <1>9, <1>10 DEF Claim, InPartition
  <2> QED  BY <1>1, <1>10, <2>1 DEF Claim
<1> QED  BY <1>2, <1>6, <1>7, <1>8, <1>9, <1>10

\* A step that pushes nothing.
LEMMA QuietKeeps ==
    ASSUME IInv, UNCHANGED <<pusher, platform>>, pc \notin {"done", "abort", "failed"},
           UNCHANGED <<cluster, input, listed, nsList, scope, window>>
    PROVE  /\ Histories' /\ Stored' /\ NothingSteadyIsDeleted' /\ CompletePartitionsAreAccurate'
           /\ \A o : o # Root /\ Handled(o) => Handled(o)'
           /\ \A p : Claim(p) => Claim(p)'
BY SamePushes, PushKeeps

\* A step between papi and the run that neither stores nor deletes.
LEMMA SameKeeps ==
    ASSUME IInv, UNCHANGED <<cluster, input, scoping, window, partitions, pusher>>,
           UNCHANGED <<inv, touched, committed, deleted>>, sync' \in {"none", "open", "aborted", sync},
           sync = "committed" => sync' = "committed"
    PROVE  /\ Histories' /\ Stored' /\ Claimed'
           /\ NothingSteadyIsDeleted' /\ CompletePartitionsAreAccurate'
           /\ \A o : Handled(o)' <=> Handled(o)
<1>1. /\ live' = live /\ run' = run /\ input' = input /\ listed' = listed /\ window' = window
      /\ nsList' = nsList /\ scope' = scope /\ batch' = batch /\ rejected' = rejected
  BY DEF cluster, scoping, pusher
<1>2. Histories'
  BY <1>1 DEF IInv, Histories, Rooted
<1>3. Stored'
  BY <1>1 DEF IInv, Stored, NamedItems
<1>4. NothingSteadyIsDeleted'
  BY <1>1 DEF IInv, NothingSteadyIsDeleted
<1>5. CompletePartitionsAreAccurate'
  BY <1>1 DEF IInv, CompletePartitionsAreAccurate
<1>6. ASSUME NEW o PROVE Handled(o)' <=> Handled(o)
  BY <1>1 DEF Handled
<1>7. Claimed'
  <2>1. ASSUME NEW p, Claim(p) PROVE Claim(p)'
    BY <1>1, <1>6, <2>1 DEF Claim
  <2> QED  BY <2>1 DEF IInv, Claimed
<1> QED  BY <1>2, <1>3, <1>4, <1>5, <1>6, <1>7

-----------------------------------------------------------------------------
(* The steps of the run.                                                   *)

LEMMA InitHolds == Init => IInv
<1> SUFFICES ASSUME Init PROVE IInv
  OBVIOUS
<1>0. live \in Clusters /\ inv \in Inventories /\ input \in Inputs
  BY DEF Init
<1>1. live \subseteq Items \ {Root} /\ Rooted(live)
  BY <1>0, ClusterAssumption
<1>2. inv \subseteq Items \ Transient /\ \A o \in inv : o # Root => Parent(o) \in inv
  BY <1>0, InventoryAssumption DEF Rooted
<1>3. run.steady = live /\ run.ever = live /\ window.steady = live /\ window.ever = live
  BY DEF Init, Since
<1>4. TypeOK
  BY <1>1, <1>2, <1>3, BoundsAssumption DEF Init, TypeOK, Final
<1>5. Histories
  BY <1>1, <1>3 DEF Histories
<1>6. Stored
  BY <1>2, RangeEmpty DEF Init, Stored
<1>7. Stages /\ Scoped /\ Accounted /\ Claimed
  BY RangeEmpty DEF Init, Stages, Scoped, Accounted, Claimed
<1>8. NothingSteadyIsDeleted /\ CompletePartitionsAreAccurate
  BY DEF Init, NothingSteadyIsDeleted, CompletePartitionsAreAccurate
<1> QED  BY <1>4, <1>5, <1>6, <1>7, <1>8 DEF IInv

LEMMA OpenSyncHolds == ASSUME IInv, OpenSync PROVE IInv'
<1>1. /\ pc = "open" /\ pc' = "namespaces" /\ sync' = "open"
      /\ UNCHANGED <<cluster, input, scoping, loop, partitions, pusher, inv, touched, committed, deleted>>
  BY DEF OpenSync
<1>2. /\ Histories' /\ Stored' /\ Claimed' /\ NothingSteadyIsDeleted' /\ CompletePartitionsAreAccurate'
  BY <1>1, SameKeeps DEF loop, IInv, Stages
<1>3. TypeOK'
  BY <1>1 DEF IInv, TypeOK, cluster, scoping, loop, pusher
<1>4. Stages' /\ Scoped' /\ Accounted'
  BY <1>1 DEF IInv, Stages, Scoped, Accounted, cluster, scoping, loop, pusher
<1> QED  BY <1>2, <1>3, <1>4 DEF IInv

LEMMA OpenFailsHolds == ASSUME IInv, OpenFails PROVE IInv'
<1>1. /\ pc = "open" /\ pc' = "failed" /\ sync' \in {"none", "open"}
      /\ UNCHANGED <<cluster, input, scoping, loop, partitions, pusher, storage>>
  BY DEF OpenFails
<1>2. /\ Histories' /\ Stored' /\ Claimed' /\ NothingSteadyIsDeleted' /\ CompletePartitionsAreAccurate'
  BY <1>1, SameKeeps DEF loop, storage, IInv, Stages
<1>3. TypeOK'
  BY <1>1 DEF IInv, TypeOK, cluster, scoping, loop, pusher, storage, Final
<1>4. Stages' /\ Scoped' /\ Accounted'
  BY <1>1 DEF IInv, Stages, Scoped, Accounted, cluster, scoping, loop, pusher, storage
<1> QED  BY <1>2, <1>3, <1>4 DEF IInv

LEMMA AbortHolds == ASSUME IInv, Abort PROVE IInv'
<1>1. /\ pc = "abort" /\ pc' = "failed" /\ sync' \in {sync, "aborted"}
      /\ (sync = "committed" => sync' = "committed")
      /\ UNCHANGED <<cluster, input, scoping, loop, partitions, pusher, storage>>
  BY DEF Abort
<1>2. /\ Histories' /\ Stored' /\ Claimed' /\ NothingSteadyIsDeleted' /\ CompletePartitionsAreAccurate'
  BY <1>1, SameKeeps DEF loop, storage
<1>3. TypeOK'
  BY <1>1 DEF IInv, TypeOK, cluster, scoping, loop, pusher, storage, Final
<1>4. Stages' /\ Scoped' /\ Accounted'
  BY <1>1 DEF IInv, Stages, Scoped, Accounted, cluster, scoping, loop, pusher, storage
<1> QED  BY <1>2, <1>3, <1>4 DEF IInv

\* The namespaces that are there, in some order, and those of them in scope.
LEMMA ListedIs ==
    LET names == {n \in Names : NsItem(n) \in live}
    IN  SetToSeq(names) \in Seq(Names) /\ Range(SetToSeq(names)) = names
<1> DEFINE names == {n \in Names : NsItem(n) \in live}
<1>1. IsFiniteSet(names)
  BY NamesAssumption, FS_Subset
<1>2. SetToSeq(names) \in Seq(names) /\ Range(SetToSeq(names)) = names
  BY <1>1, SetToSeqIs
<1>3. SetToSeq(names) \in Seq(Names)
  BY <1>2
<1> QED  BY <1>2, <1>3

LEMMA ResolveIs ==
    ASSUME input \in Inputs, NEW names \in Seq(Names)
    PROVE  /\ Resolve(names) \in Seq(Names)
           /\ Range(Resolve(names)) \subseteq Range(input.namespaces) \union Range(names)
<1>1. CASE input.namespaces # <<>>
  BY <1>1, InputsAssumption DEF Resolve
<1>2. CASE input.namespaces = <<>>
  <2> DEFINE rest == Range(names) \ input.exclude
  <2>1. rest \subseteq Names
    BY RangeType
  <2>2. IsFiniteSet(rest)
    BY <2>1, NamesAssumption, FS_Subset
  <2>3. SetToSeq(rest) \in Seq(rest) /\ Range(SetToSeq(rest)) = rest
    BY <2>2, SetToSeqIs
  <2>4. SetToSeq(rest) \in Seq(Names)
    BY <2>1, <2>3
  <2> QED  BY <1>2, <2>3, <2>4 DEF Resolve
<1> QED  BY <1>1, <1>2

LEMMA ListNamespacesHolds == ASSUME IInv, ListNamespaces PROVE IInv'
<1>0. /\ pc = "namespaces" /\ pc' = "cluster"
      /\ UNCHANGED <<cluster, input, excluded, loop, partitions, pusher, platform>>
      /\ nsList' \in {"ok", "forbidden", "failed"}
      /\ nsList' = "ok" => listed' = SetToSeq({n \in Names : NsItem(n) \in live})
      /\ nsList' # "ok" => listed' = <<>>
      /\ scope' = Resolve(listed')
  BY DEF ListNamespaces
<1>1. /\ live' = live /\ changes' = changes /\ run' = run /\ window' = window /\ input' = input
      /\ excluded' = excluded /\ nsTodo' = nsTodo /\ typeTodo' = typeTodo /\ yielded' = yielded
      /\ partitions' = partitions /\ batch' = batch /\ rejected' = rejected /\ inv' = inv
      /\ sync' = sync /\ touched' = touched /\ committed' = committed /\ deleted' = deleted
  BY <1>0 DEF cluster, loop, pusher, platform
<1>2. /\ partitions = <<>> /\ nsList = "ok" /\ excluded = <<>> /\ batch = <<>>
      /\ deleted = {} /\ sync # "committed"
  BY <1>0 DEF IInv, Stages
<1>3. /\ listed' \in Seq(Names) /\ Range(listed') \subseteq {n \in Names : NsItem(n) \in live}
      /\ nsList' = "ok" => Range(listed') = {n \in Names : NsItem(n) \in live}
      /\ nsList' # "ok" => Range(listed') = {}
  <2>1. CASE nsList' = "ok"
    BY <1>0, <2>1, ListedIs
  <2>2. CASE nsList' # "ok"
    BY <1>0, <2>2, RangeEmpty
  <2> QED  BY <2>1, <2>2
<1>4. scope' \in Seq(Names) /\ Range(scope') \subseteq Range(input.namespaces) \union Range(listed')
  BY <1>0, <1>3, ResolveIs DEF IInv, TypeOK
<1>5. TypeOK'
  BY <1>0, <1>1, <1>3, <1>4 DEF IInv, TypeOK
<1>6. Histories'
  BY <1>1 DEF IInv, Histories, Rooted
<1>7. Stored'
  BY <1>1, <1>2 DEF IInv, Stored, NamedItems
<1>8. Stages' /\ Claimed' /\ Accounted'
  BY <1>0, <1>1, <1>2, RangeEmpty DEF Stages, Claimed, Accounted
<1>9. Scoped'
  <2>1. run.steady \subseteq live /\ live \subseteq run.ever
    BY DEF IInv, Histories
  <2> QED  BY <1>0, <1>1, <1>3, <1>4, <2>1 DEF Scoped
<1>10. NothingSteadyIsDeleted' /\ CompletePartitionsAreAccurate'
  BY <1>1, <1>2 DEF NothingSteadyIsDeleted, CompletePartitionsAreAccurate
<1> QED  BY <1>5, <1>6, <1>7, <1>8, <1>9, <1>10 DEF IInv

\* A push of the run, and what is left to show of it.
LEMMA PushHolds ==
    ASSUME IInv, NEW O, Pushes(O), pc \notin {"done", "abort", "failed"},
           UNCHANGED <<cluster, input, listed, nsList, scope, window>>,
           O \subseteq run.ever \union {Root} \union NamedItems,
           nsList # "forbidden" => O \subseteq run.ever \union {Root},
           {excluded', nsTodo'} \subseteq Seq(Names), typeTodo' \in Seq(Range(Types)), yielded' \subseteq Objs,
           partitions' \in Seq(Partitions),
           pc' \in {"cluster", "push_ns", "sources", "types", "flush", "commit", "abort"},
           pc' = "cluster" => excluded' = <<>> /\ batch' = <<>>,
           pc' = "commit" => batch' = <<>>,
           Scoped', Accounted',
           \A p \in Range(partitions') :
               p \in Range(partitions) \/ (p.status = "complete" => Claim(p)')
    PROVE  IInv'
<1>1. /\ live' = live /\ changes' = changes /\ run' = run /\ window' = window /\ input' = input
      /\ listed' = listed /\ nsList' = nsList /\ scope' = scope
  BY DEF cluster
<1>2. /\ Histories' /\ Stored' /\ NothingSteadyIsDeleted' /\ CompletePartitionsAreAccurate'
      /\ \A p : Claim(p) => Claim(p)'
  BY PushKeeps
<1>3. /\ inv' \subseteq Items /\ touched' \subseteq Items
  <2>1. Range(batch) \subseteq Items
    BY RangeType DEF IInv, TypeOK
  <2> QED  BY <2>1 DEF IInv, TypeOK, Pushes
<1>4. TypeOK'
  BY <1>1, <1>3 DEF IInv, TypeOK, Pushes
<1>5. Stages'
  BY <1>1 DEF IInv, Stages, Pushes
<1>6. Claimed'
  BY <1>2 DEF IInv, Claimed
<1> QED  BY <1>2, <1>4, <1>5, <1>6 DEF IInv

LEMMA PushClusterHolds == ASSUME IInv, PushCluster PROVE IInv'
<1>0. /\ pc = "cluster" /\ pc' = "push_ns" /\ Add(Root)
      /\ nsList = "ok" => nsTodo' = listed
      /\ nsList = "forbidden" => nsTodo' = scope
      /\ nsList = "failed" => nsTodo' = <<>>
      /\ UNCHANGED <<cluster, input, scoping, typeTodo, yielded, window, partitions>>
  BY DEF PushCluster
<1>1. Pushes({Root})
  BY <1>0, RootIs, AddPushes
<1>2. nsTodo' \in Seq(Names)
  <2>1. listed \in Seq(Names) /\ scope \in Seq(Names) /\ nsList \in {"ok", "forbidden", "failed"}
    BY DEF IInv, TypeOK
  <2>2. nsTodo' \in {listed, scope, <<>>}
    BY <1>0, <2>1
  <2>3. <<>> \in Seq(Names)
    OBVIOUS
  <2> QED  BY <2>1, <2>2, <2>3
<1>3. Scoped'
  BY <1>0 DEF IInv, Scoped, scoping, cluster
<1>4. Accounted'
  BY <1>0 DEF Accounted, scoping
<1>5. /\ {excluded', nsTodo'} \subseteq Seq(Names) /\ typeTodo' \in Seq(Range(Types)) /\ yielded' \subseteq Objs
      /\ partitions' \in Seq(Partitions) /\ partitions' = partitions
      /\ UNCHANGED <<cluster, input, listed, nsList, scope, window>>
  BY <1>0, <1>2 DEF IInv, TypeOK, scoping
<1> QED  BY <1>0, <1>1, <1>3, <1>4, <1>5, PushHolds

\* What a loop has accounted for stays so, when n is the next one it visits.
LEMMA NamespaceAccounted ==
    ASSUME IInv, NEW O, Pushes(O), pc = "push_ns", pc' = "push_ns",
           UNCHANGED <<cluster, input, listed, nsList, scope, window>>,
           O \subseteq run.ever \union {Root} \union NamedItems,
           nsList # "forbidden" => O \subseteq run.ever \union {Root},
           NEW n \in Names, Range(nsTodo) = {n} \union Range(nsTodo'),
           Range(excluded) \subseteq Range(excluded'),
           NsItem(n) \in O \/ n \in Range(excluded')
    PROVE  Accounted'
<1>1. \A o : o # Root /\ Handled(o) => Handled(o)'
  BY PushKeeps
<1>2. listed' = listed /\ nsList' = nsList
  OBVIOUS
<1> SUFFICES ASSUME nsList = "ok", NEW m \in Range(listed)
             PROVE  m \in Range(nsTodo') \union Range(excluded') \/ Handled(NsItem(m))'
  BY <1>2 DEF Accounted
<1>3. m \in Names
  BY RangeType DEF IInv, TypeOK
<1>4. CASE m = n
  BY <1>4, NsItemIs DEF Pushes
<1>5. CASE m # n
  <2>1. m \in Range(nsTodo') \union Range(excluded') \/ Handled(NsItem(m))
    BY <1>5 DEF IInv, Accounted
  <2> QED  BY <1>1, <1>3, <2>1, NsItemIs
<1> QED  BY <1>4, <1>5

LEMMA PushListedNamespaceHolds == ASSUME IInv, PushListedNamespace PROVE IInv'
<1> DEFINE n == Head(nsTodo)
<1>0. /\ pc = "push_ns" /\ nsList = "ok" /\ nsTodo # <<>> /\ nsTodo' = Tail(nsTodo)
      /\ UNCHANGED <<cluster, input, pc, listed, nsList, scope, typeTodo, yielded, window, partitions>>
      /\ \/ n \in Range(scope) /\ Add(NsItem(n)) /\ UNCHANGED excluded
         \/ excluded' = Append(excluded, n) /\ UNCHANGED <<pusher, platform>>
  BY DEF PushListedNamespace
<1>1. /\ n \in Names /\ nsTodo' \in Seq(Names) /\ n \in Range(nsTodo)
      /\ Range(nsTodo) = {n} \union Range(nsTodo')
  BY <1>0, RangeTail DEF IInv, TypeOK
<1>2. NsItem(n) \in run.ever
  BY <1>0, <1>1 DEF IInv, Scoped
<1>3. Scoped'
  BY <1>0, <1>1 DEF IInv, Scoped, cluster
<1>4. /\ typeTodo' \in Seq(Range(Types)) /\ yielded' \subseteq Objs
      /\ partitions' \in Seq(Partitions) /\ partitions' = partitions
  BY <1>0 DEF IInv, TypeOK
<1>5. CASE Add(NsItem(n)) /\ UNCHANGED excluded
  <2>1. Pushes({NsItem(n)})
    BY <1>1, <1>5, NsItemIs, AddPushes
  <2>2. Accounted'
    BY <1>0, <1>1, <1>2, <1>5, <2>1, NamespaceAccounted
  <2>3. excluded' \in Seq(Names)
    BY <1>5 DEF IInv, TypeOK
  <2> QED  BY <1>0, <1>1, <1>2, <1>3, <1>4, <2>1, <2>2, <2>3, PushHolds
<1>6. CASE excluded' = Append(excluded, n) /\ UNCHANGED <<pusher, platform>>
  <2>1. Pushes({})
    BY <1>6, SamePushes
  <2>2. excluded' \in Seq(Names) /\ Range(excluded') = Range(excluded) \union {n}
    BY <1>1, <1>6, RangeAppend DEF IInv, TypeOK
  <2>3. Accounted'
    BY <1>0, <1>1, <2>1, <2>2, NamespaceAccounted
  <2> QED  BY <1>0, <1>1, <1>3, <1>4, <2>1, <2>2, <2>3, PushHolds
<1> QED  BY <1>0, <1>5, <1>6

LEMMA PushNamedNamespaceHolds == ASSUME IInv, PushNamedNamespace PROVE IInv'
<1> DEFINE n == Head(nsTodo)
<1>0. /\ pc = "push_ns" /\ nsList = "forbidden" /\ nsTodo # <<>> /\ nsTodo' = Tail(nsTodo)
      /\ Add(NsItem(n))
      /\ UNCHANGED <<cluster, input, pc, scoping, typeTodo, yielded, window, partitions>>
  BY DEF PushNamedNamespace
<1>1. /\ n \in Names /\ nsTodo' \in Seq(Names) /\ n \in Range(nsTodo)
      /\ Range(nsTodo) = {n} \union Range(nsTodo')
  BY <1>0, RangeTail DEF IInv, TypeOK
<1>2. NsItem(n) \in NamedItems
  BY <1>0, <1>1 DEF IInv, Scoped, NamedItems
<1>3. Pushes({NsItem(n)})
  BY <1>0, <1>1, NsItemIs, AddPushes
<1>4. Scoped' /\ Accounted'
  BY <1>0, <1>1 DEF IInv, Scoped, Accounted, scoping, cluster
<1>5. /\ {excluded', nsTodo'} \subseteq Seq(Names) /\ typeTodo' \in Seq(Range(Types)) /\ yielded' \subseteq Objs
      /\ partitions' \in Seq(Partitions) /\ partitions' = partitions
      /\ UNCHANGED <<cluster, input, listed, nsList, scope, window>>
  BY <1>0, <1>1 DEF IInv, TypeOK, scoping
<1> QED  BY <1>0, <1>2, <1>3, <1>4, <1>5, PushHolds

LEMMA PartitionIs ==
    ASSUME NEW t, t \in {"namespace"} \union Range(SourceTypes) \union {u.type : u \in Range(Types)},
           NEW n \in Names \union {NoNs}, NEW status \in {"complete", "failed", "forbidden", "excluded"}
    PROVE  Partition(t, n, status) \in Partitions
BY DEF Partition, Partitions

LEMMA NamespacesPushedHolds == ASSUME IInv, NamespacesPushed PROVE IInv'
<1>. PICK p : p = Partition("namespace", NoNs, NamespaceStatus)
  OBVIOUS
<1>0. /\ pc = "push_ns" /\ nsTodo = <<>> /\ pc' = "sources" /\ nsTodo' = scope
      /\ partitions' = Append(partitions, p)
      /\ UNCHANGED <<cluster, input, scoping, typeTodo, yielded, window, pusher, platform>>
  BY DEF NamespacesPushed
<1>1. Pushes({})
  BY <1>0, SamePushes
<1>2. NamespaceStatus \in {"complete", "failed", "forbidden", "excluded"}
  BY DEF IInv, TypeOK, NamespaceStatus
<1>3. p \in Partitions
  BY <1>2, PartitionIs
<1>4. partitions' \in Seq(Partitions) /\ Range(partitions') = Range(partitions) \union {p}
  BY <1>0, <1>3, RangeAppend DEF IInv, TypeOK
<1>5. ASSUME p.status = "complete" PROVE Claim(p)
  <2>1. nsList = "ok" /\ excluded = <<>>
    BY <1>5 DEF Partition, NamespaceStatus, IInv, TypeOK
  <2>2. ASSUME NEW o \in InPartition(run.steady \ Transient, p) PROVE Handled(o)
    <3>1. o \in run.steady /\ o \in Items /\ o.type = "namespace"
      BY <2>2 DEF InPartition, Partition, IInv, TypeOK
    <3>2. PICK n \in Names : o = NsItem(n)
      BY <3>1, ItemOfType
    <3>3. n \in Range(listed)
      BY <1>0, <2>1, <3>1, <3>2 DEF IInv, Scoped
    <3> QED  BY <1>0, <2>1, <3>2, <3>3, RangeEmpty DEF IInv, Accounted
  <2> QED  BY <2>1, <2>2 DEF Claim, Partition
<1>6. p.status = "complete" => Claim(p)'
  BY <1>0, <1>5, QuietKeeps DEF scoping
<1>7. Scoped' /\ Accounted'
  BY <1>0 DEF IInv, Scoped, Accounted, scoping, cluster
<1>8. /\ {excluded', nsTodo'} \subseteq Seq(Names) /\ typeTodo' \in Seq(Range(Types)) /\ yielded' \subseteq Objs
      /\ UNCHANGED <<cluster, input, listed, nsList, scope, window>>
  BY <1>0 DEF IInv, TypeOK, scoping
<1> QED  BY <1>0, <1>1, <1>4, <1>6, <1>7, <1>8, PushHolds

LEMMA ReadSourcesHolds == ASSUME IInv, ReadSources PROVE IInv'
<1> DEFINE n == Head(nsTodo)
<1>0. /\ pc = "sources" /\ nsTodo # <<>> /\ nsTodo' = Tail(nsTodo)
      /\ UNCHANGED <<cluster, input, pc, scoping, typeTodo, yielded, window, pusher, platform>>
  BY DEF ReadSources
<1>1. PICK status \in [1..Len(SourceTypes) -> Outcomes] :
          partitions' = partitions \o [i \in 1..Len(SourceTypes) |-> Partition(SourceTypes[i], n, status[i])]
  BY DEF ReadSources
<1> DEFINE more == [i \in 1..Len(SourceTypes) |-> Partition(SourceTypes[i], n, status[i])]
<1>2. /\ n \in Names /\ nsTodo' \in Seq(Names)
      /\ Range(nsTodo) = {n} \union Range(nsTodo')
  BY <1>0, RangeTail DEF IInv, TypeOK
<1>3. Pushes({})
  BY <1>0, SamePushes
<1>4. Len(SourceTypes) \in Nat /\ \A i \in 1..Len(SourceTypes) : SourceTypes[i] \in Range(SourceTypes)
  BY TypesAssumption DEF Range
<1>5. \A i \in 1..Len(SourceTypes) : more[i] \in Partitions /\ more[i].type \in Range(SourceTypes) /\ more[i].ns = n
  <2> TAKE i \in 1..Len(SourceTypes)
  <2>1. status[i] \in {"complete", "failed", "forbidden", "excluded"}
    BY OutcomesAssumption
  <2>2. more[i] = Partition(SourceTypes[i], n, status[i])
    OBVIOUS
  <2> QED  BY <1>2, <1>4, <2>1, <2>2, PartitionIs DEF Partition
<1>6. more \in Seq(Partitions) /\ DOMAIN more = 1..Len(SourceTypes)
  BY <1>4, <1>5
<1> HIDE DEF more
<1>7. partitions' \in Seq(Partitions) /\ Range(partitions') = Range(partitions) \union Range(more)
  <2>1. partitions \in Seq(Partitions) /\ partitions' = partitions \o more
    BY <1>1 DEF IInv, TypeOK, more
  <2>2. partitions \o more \in Seq(Partitions)
    BY <1>6, <2>1
  <2> QED  BY <1>6, <2>1, <2>2, RangeConcat
<1>8. ASSUME NEW p \in Range(more) PROVE Claim(p)
  <2>1. p.type \in Range(SourceTypes) /\ p.ns = n
    BY <1>5, <1>6 DEF Range
  <2>2. InPartition(run.steady \ Transient, p) = {}
    BY <2>1, ItemOfType DEF InPartition, IInv, TypeOK
  <2>3. n \in Range(scope)
    BY <1>0, <1>2 DEF IInv, Scoped
  <2> QED  BY <2>1, <2>2, <2>3, TypesAssumption DEF Claim
<1>9. \A p \in Range(partitions') : p \in Range(partitions) \/ Claim(p)'
  BY <1>0, <1>7, <1>8, QuietKeeps DEF scoping
<1>10. Scoped' /\ Accounted'
  BY <1>0, <1>2 DEF IInv, Scoped, Accounted, scoping, cluster
<1>11. /\ {excluded', nsTodo'} \subseteq Seq(Names) /\ typeTodo' \in Seq(Range(Types)) /\ yielded' \subseteq Objs
       /\ UNCHANGED <<cluster, input, listed, nsList, scope, window>>
  BY <1>0, <1>2 DEF IInv, TypeOK, scoping
<1> QED  BY <1>0, <1>3, <1>7, <1>9, <1>10, <1>11, PushHolds

\* A listing begins with a new window, in which all that lives is steady.
LEMMA NewWindow ==
    ASSUME IInv, window' = Since(live), UNCHANGED <<run, live>>
    PROVE  Histories' /\ run.steady \subseteq live /\ live \subseteq run.ever
BY DEF IInv, Histories, Since, Rooted

LEMMA StartsListing ==
    ASSUME IInv, NEW todo \in Seq(Range(Types)), StartListing(todo), pc \in {"sources", "types"}, pc' = "types",
           UNCHANGED <<cluster, input, scoping, nsTodo, pusher, platform>>,
           partitions' \in Seq(Partitions),
           \A p \in Range(partitions') : p \in Range(partitions) \/ (p.status = "complete" => Claim(p))
    PROVE  IInv'
<1>0. /\ live' = live /\ changes' = changes /\ run' = run /\ input' = input
      /\ listed' = listed /\ nsList' = nsList /\ scope' = scope /\ excluded' = excluded /\ nsTodo' = nsTodo
      /\ batch' = batch /\ rejected' = rejected /\ inv' = inv /\ sync' = sync /\ touched' = touched
      /\ committed' = committed /\ deleted' = deleted
      /\ typeTodo' = todo /\ yielded' = {} /\ window' = Since(live)
  BY DEF cluster, scoping, pusher, platform, StartListing
<1>1. Histories' /\ run.steady \subseteq live /\ live \subseteq run.ever
  BY <1>0, NewWindow
<1>2. live \subseteq live /\ live \subseteq Items
  BY DEF IInv, TypeOK
<1>3. TypeOK'
  BY <1>0, <1>2 DEF IInv, TypeOK, Since
<1>4. Stored' /\ NothingSteadyIsDeleted' /\ CompletePartitionsAreAccurate'
  BY <1>0 DEF IInv, Stored, NamedItems, NothingSteadyIsDeleted, CompletePartitionsAreAccurate
<1>5. Stages' /\ Scoped' /\ Accounted'
  BY <1>0 DEF IInv, Stages, Scoped, Accounted
<1>6. ASSUME NEW p, Claim(p) PROVE Claim(p)'
  BY <1>0, <1>6 DEF Claim, Handled
<1>7. Claimed'
  BY <1>6 DEF IInv, Claimed
<1> QED  BY <1>1, <1>3, <1>4, <1>5, <1>7 DEF IInv

LEMMA SourcesReadHolds == ASSUME IInv, SourcesRead PROVE IInv'
<1>1. /\ StartListing(Types) /\ pc = "sources" /\ pc' = "types"
      /\ UNCHANGED <<cluster, input, scoping, nsTodo, partitions, pusher, platform>>
  BY DEF SourcesRead
<1>2. Types \in Seq(Range(Types)) /\ partitions' \in Seq(Partitions) /\ partitions' = partitions
  BY <1>1, TypesAssumption DEF IInv, TypeOK
<1> QED  BY <1>1, <1>2, StartsListing

LEMMA ListedScopesIs ==
    ASSUME IInv
    PROVE  /\ ListedScopes \in Seq(Names \union {NoNs})
           /\ Range(ListedScopes) \subseteq Range(scope) \union {NoNs}
<1>1. scope \in Seq(Names) /\ <<NoNs>> \in Seq(Names \union {NoNs}) /\ Range(<<NoNs>>) = {NoNs}
  BY DEF IInv, TypeOK, Range
<1>2. scope \in Seq(Names \union {NoNs})
  BY <1>1
<1>3. ListedScopes \in {scope, <<NoNs>>}
  BY DEF ListedScopes
<1> QED  BY <1>1, <1>2, <1>3

\* The type whose listing is under way.
LEMMA HeadType ==
    ASSUME IInv, typeTodo # <<>>
    PROVE  /\ Head(typeTodo) \in Range(Types) /\ Tail(typeTodo) \in Seq(Range(Types))
           /\ Head(typeTodo).type \notin {"cluster", "namespace"} \union Range(SourceTypes)
BY RangeTail, TypesAssumption DEF IInv, TypeOK

LEMMA PushObjectHolds == ASSUME IInv, PushObject PROVE IInv'
<1>0. /\ pc = "types" /\ typeTodo # <<>>
      /\ UNCHANGED <<cluster, input, pc, scoping, nsTodo, typeTodo, window, partitions>>
  BY DEF PushObject
<1>1. PICK o \in OfType(window.ever) \ yielded :
          /\ yielded' = yielded \union {o}
          /\ IF o \in Transient THEN UNCHANGED <<pusher, platform>> ELSE Add(o)
  BY DEF PushObject
<1>2. o \in window.ever /\ o \in run.ever /\ o \in Items /\ o.type = Head(typeTodo).type
  BY <1>1 DEF OfType, IInv, Histories, TypeOK
<1>3. o \in Objs
  BY <1>0, <1>2, HeadType, ItemOfType
<1>4. \E O \in SUBSET {o} : Pushes(O) /\ (o \notin Transient => o \in O)
  <2>1. CASE o \in Transient
    BY <1>1, <2>1, SamePushes
  <2>2. CASE o \notin Transient
    BY <1>1, <1>2, <2>2, AddPushes
  <2> QED  BY <2>1, <2>2
<1>5. PICK O \in SUBSET {o} : Pushes(O) /\ (o \notin Transient => o \in O)
  BY <1>4
<1>6. /\ {excluded', nsTodo'} \subseteq Seq(Names) /\ typeTodo' \in Seq(Range(Types)) /\ yielded' \subseteq Objs
      /\ partitions' \in Seq(Partitions) /\ partitions' = partitions
      /\ UNCHANGED <<cluster, input, listed, nsList, scope, window>>
  BY <1>0, <1>1, <1>3 DEF IInv, TypeOK, scoping
<1>7. \A q : q # Root /\ Handled(q) => Handled(q)'
  BY <1>0, <1>2, <1>5, <1>6, PushKeeps
<1>8. Accounted'
  <2> SUFFICES ASSUME NEW q \in yielded' \ Transient PROVE Handled(q)'
    BY <1>0 DEF Accounted
  <2>1. q \in Objs /\ q # Root
    BY <1>6, RootIs
  <2>2. CASE q = o
    BY <1>5, <2>1, <2>2 DEF Pushes
  <2>3. CASE q # o
    BY <1>0, <1>1, <1>7, <2>1, <2>3 DEF IInv, Accounted
  <2> QED  BY <2>2, <2>3
<1>9. Scoped'
  BY <1>0 DEF IInv, Scoped, scoping, cluster
<1> QED  BY <1>0, <1>2, <1>5, <1>6, <1>8, <1>9, PushHolds

LEMMA TypeListedHolds == ASSUME IInv, TypeListed PROVE IInv'
<1> DEFINE type == Head(typeTodo).type
<1>0. /\ pc = "types" /\ typeTodo # <<>> /\ StartListing(Tail(typeTodo))
      /\ UNCHANGED <<cluster, input, pc, scoping, nsTodo, pusher, platform>>
  BY DEF TypeListed
<1>1. PICK status \in [DOMAIN ListedScopes -> Outcomes] :
          /\ \A i \in DOMAIN ListedScopes : status[i] = "complete" =>
                \A o \in OfType(window.steady) : o.ns = ListedScopes[i] => o \in yielded
          /\ partitions' = partitions \o
                [i \in DOMAIN ListedScopes |-> Partition(type, ListedScopes[i], status[i])]
  BY DEF TypeListed
<1> DEFINE more == [i \in DOMAIN ListedScopes |-> Partition(type, ListedScopes[i], status[i])]
<1>2. /\ Tail(typeTodo) \in Seq(Range(Types))
      /\ type \in {t.type : t \in Range(Types)} /\ type # "namespace"
  BY <1>0, HeadType
<1>3. /\ Len(ListedScopes) \in Nat /\ DOMAIN ListedScopes = 1..Len(ListedScopes)
      /\ \A i \in DOMAIN ListedScopes :
            /\ ListedScopes[i] \in Range(ListedScopes) /\ ListedScopes[i] \in Names \union {NoNs}
            /\ ListedScopes[i] \in Range(scope) \union {NoNs}
  <2>1. Len(ListedScopes) \in Nat /\ DOMAIN ListedScopes = 1..Len(ListedScopes)
    BY ListedScopesIs
  <2>2. \A i \in DOMAIN ListedScopes : ListedScopes[i] \in Range(ListedScopes)
    BY DEF Range
  <2> QED  BY <2>1, <2>2, ListedScopesIs
<1>4. \A i \in DOMAIN ListedScopes : more[i] \in Partitions
  <2> TAKE i \in DOMAIN ListedScopes
  <2>1. status[i] \in {"complete", "failed", "forbidden", "excluded"}
    BY OutcomesAssumption
  <2>2. more[i] = Partition(type, ListedScopes[i], status[i])
    OBVIOUS
  <2> QED  BY <1>2, <1>3, <2>1, <2>2, PartitionIs
<1>5. more \in Seq(Partitions) /\ DOMAIN more = DOMAIN ListedScopes
  BY <1>3, <1>4
<1>6. partitions' \in Seq(Partitions) /\ Range(partitions') = Range(partitions) \union Range(more)
  <2>1. partitions \in Seq(Partitions) /\ partitions' = partitions \o more
    BY <1>1 DEF IInv, TypeOK
  <2> HIDE DEF more
  <2>2. partitions \o more \in Seq(Partitions)
    BY <1>5, <2>1
  <2>3. Range(partitions \o more) = Range(partitions) \union Range(more)
    BY <1>5, <2>1, RangeConcat
  <2> QED  BY <2>1, <2>2, <2>3
<1>7. ASSUME NEW p \in Range(more), p.status = "complete" PROVE Claim(p)
  <2>1. PICK i \in DOMAIN ListedScopes : p = more[i]
    BY <1>5, <1>7 DEF Range
  <2>2. p.type = type /\ p.ns = ListedScopes[i] /\ p.status = status[i]
    BY <2>1 DEF Partition
  <2>3. ASSUME NEW o \in InPartition(run.steady \ Transient, p) PROVE Handled(o)
    <3>1. o \in window.steady /\ o \notin Transient /\ o.type = type /\ o.ns = ListedScopes[i]
      BY <2>2, <2>3 DEF InPartition, IInv, Histories
    <3>2. o \in OfType(window.steady)
      BY <1>3, <3>1 DEF OfType
    <3>3. o \in yielded
      BY <1>1, <1>7, <2>2, <3>1, <3>2
    <3> QED  BY <1>0, <3>1, <3>3 DEF IInv, Accounted
  <2> QED  BY <1>2, <1>3, <2>2, <2>3 DEF Claim
<1> HIDE DEF more
<1> QED  BY <1>0, <1>2, <1>6, <1>7, StartsListing

\* The partitions of what is left out can be put into a sequence.
LEMMA ExcludedPartitions ==
    ASSUME IInv
    PROVE  LET S == {Partition(t, n, "excluded") : t \in ExcludedTypes, n \in Range(excluded)}
           IN  /\ SetToSeq(S) \in Seq(Partitions) /\ Range(SetToSeq(S)) = S
               /\ IsInjective(SetToSeq(S))
<1> DEFINE A == {t.type : t \in {u \in Range(Types) : u.namespaced}}
           B == Range(excluded)
           S == {Partition(t, n, "excluded") : t \in ExcludedTypes, n \in B}
<1>1. IsFiniteSet(A)
  <2> DEFINE N == {u \in Range(Types) : u.namespaced}
             f == [u \in N |-> u.type]
  <2>1. IsFiniteSet(N)
    BY TypesAssumption, FiniteRange, FS_Subset
  <2>2. f \in Surjection(N, A)
    BY DEF Surjection
  <2> QED  BY <2>1, <2>2, FS_Surjection
<1>2. IsFiniteSet(ExcludedTypes) /\ IsFiniteSet(B)
  <2>1. IsFiniteSet(Range(SourceTypes)) /\ IsFiniteSet(B)
    BY TypesAssumption, FiniteRange DEF IInv, TypeOK
  <2>2. IsFiniteSet(A \union Range(SourceTypes))
    BY <1>1, <2>1, FS_Union
  <2> QED  BY <2>1, <2>2 DEF ExcludedTypes
<1>3. IsFiniteSet(ExcludedTypes \X B)
  BY <1>2, FS_Product
<1>4. IsFiniteSet(S)
  <2> DEFINE f == [x \in ExcludedTypes \X B |-> Partition(x[1], x[2], "excluded")]
  <2>1. f \in Surjection(ExcludedTypes \X B, S)
    <3>1. \A x \in ExcludedTypes \X B : f[x] \in S
      OBVIOUS
    <3>2. ASSUME NEW p \in S PROVE \E x \in ExcludedTypes \X B : f[x] = p
      <4>1. PICK t \in ExcludedTypes, n \in B : p = Partition(t, n, "excluded")
        OBVIOUS
      <4>2. <<t, n>> \in ExcludedTypes \X B /\ f[<<t, n>>] = p
        BY <4>1
      <4> QED  BY <4>2
    <3> QED  BY <3>1, <3>2 DEF Surjection
  <2> QED  BY <1>3, <2>1, FS_Surjection
<1>5. S \subseteq Partitions
  <2>1. B \subseteq Names
    BY RangeType DEF IInv, TypeOK
  <2>2. ExcludedTypes \subseteq Range(SourceTypes) \union {t.type : t \in Range(Types)}
    BY DEF ExcludedTypes
  <2> QED  BY <2>1, <2>2, PartitionIs
<1>6. SetToSeq(S) \in Seq(Partitions) /\ Range(SetToSeq(S)) = S /\ IsInjective(SetToSeq(S))
  <2> HIDE DEF S
  <2>1. SetToSeq(S) \in Seq(S) /\ Range(SetToSeq(S)) = S /\ IsInjective(SetToSeq(S))
    BY <1>4, SetToSeqIs
  <2> QED  BY <1>5, <2>1
<1> QED  BY <1>6

LEMMA AllListedHolds == ASSUME IInv, AllListed PROVE IInv'
<1> DEFINE S == {Partition(t, n, "excluded") : t \in ExcludedTypes, n \in Range(excluded)}
           more == SetToSeq(S)
<1>0. /\ pc = "types" /\ pc' = "flush" /\ partitions' = partitions \o more
      /\ UNCHANGED <<cluster, input, scoping, loop, pusher, platform>>
  BY DEF AllListed
<1>1. more \in Seq(Partitions) /\ Range(more) = S
  BY ExcludedPartitions
<1>2. \A p \in Range(more) : p.status = "excluded"
  BY <1>1 DEF Partition
<1>3. partitions \in Seq(Partitions)
  BY DEF IInv, TypeOK
<1> HIDE DEF more
<1>4. partitions' \in Seq(Partitions) /\ Range(partitions') = Range(partitions) \union Range(more)
  BY <1>0, <1>1, <1>3, RangeConcat
<1>5. Pushes({})
  BY <1>0, SamePushes
<1>6. Scoped' /\ Accounted'
  BY <1>0 DEF IInv, Scoped, Accounted, scoping, cluster
<1>7. /\ {excluded', nsTodo'} \subseteq Seq(Names) /\ typeTodo' \in Seq(Range(Types)) /\ yielded' \subseteq Objs
      /\ UNCHANGED <<cluster, input, listed, nsList, scope, window>>
  BY <1>0 DEF IInv, TypeOK, scoping, loop
<1> QED  BY <1>0, <1>2, <1>4, <1>5, <1>6, <1>7, PushHolds

LEMMA FinalFlushHolds == ASSUME IInv, FinalFlush PROVE IInv'
<1>0. /\ pc = "flush" /\ pc' = "commit" /\ FlushOk /\ batch' = <<>>
      /\ UNCHANGED <<cluster, input, scoping, loop, partitions>>
  BY DEF FinalFlush
<1>1. Pushes({})
  <2>1. batch' \in Seq(Items \ Transient) /\ Len(batch') <= BatchSize /\ Range(batch') = {}
    BY <1>0, RangeEmpty, BoundsAssumption
  <2> QED  BY <1>0, <2>1, FlushPushes
<1>2. Scoped' /\ Accounted'
  BY <1>0 DEF IInv, Scoped, Accounted, scoping, cluster
<1>3. /\ {excluded', nsTodo'} \subseteq Seq(Names) /\ typeTodo' \in Seq(Range(Types)) /\ yielded' \subseteq Objs
      /\ partitions' \in Seq(Partitions) /\ partitions' = partitions
      /\ UNCHANGED <<cluster, input, listed, nsList, scope, window>>
  BY <1>0 DEF IInv, TypeOK, scoping, loop
<1> QED  BY <1>0, <1>1, <1>2, <1>3, PushHolds

LEMMA RunFailsHolds == ASSUME IInv, RunFails PROVE IInv'
<1>0. /\ pc \in {"namespaces", "cluster", "flush", "push_ns", "sources", "types"}
      /\ pc' = "abort" /\ UNCHANGED <<cluster, input, scoping, loop, partitions, batch>>
      /\ UNCHANGED <<rejected, platform>> \/ FlushFails
  BY DEF RunFails, Raise
<1>1. Pushes({})
  <2>1. CASE UNCHANGED <<rejected, platform>>
    BY <1>0, <2>1, SamePushes DEF pusher
  <2>2. CASE FlushFails
    BY <1>0, <2>2, FailedFlushPushes
  <2> QED  BY <1>0, <2>1, <2>2
<1>2. Scoped' /\ Accounted'
  BY <1>0 DEF IInv, Scoped, Accounted, scoping, cluster
<1>3. /\ {excluded', nsTodo'} \subseteq Seq(Names) /\ typeTodo' \in Seq(Range(Types)) /\ yielded' \subseteq Objs
      /\ partitions' \in Seq(Partitions) /\ partitions' = partitions
      /\ UNCHANGED <<cluster, input, listed, nsList, scope, window>>
  BY <1>0 DEF IInv, TypeOK, scoping, loop
<1> QED  BY <1>0, <1>1, <1>2, <1>3, PushHolds

-----------------------------------------------------------------------------
(* The commit.                                                             *)

\* What the body says is complete was recorded so, and nothing of it was
\* rejected.
LEMMA CommitBodyIs ==
    ASSUME IInv
    PROVE  /\ CommitBody \in Seq(Partitions)
           /\ \A p \in Range(CommitBody) : p.status = "complete" =>
                 p \in Range(partitions) /\ <<p.type, p.ns>> \notin rejected
<1>0. /\ partitions \in Seq(Partitions) /\ Len(partitions) \in Nat /\ DOMAIN partitions = 1..Len(partitions)
      /\ \A i \in DOMAIN partitions : partitions[i] \in Partitions
  BY DEF IInv, TypeOK
<1>1. ASSUME NEW i \in DOMAIN partitions
      PROVE  /\ CommitBody[i] \in Partitions
             /\ CommitBody[i].status = "complete" =>
                   CommitBody[i] = partitions[i] /\ <<partitions[i].type, partitions[i].ns>> \notin rejected
  <2>1. [partitions[i] EXCEPT !.status = "failed"] \in Partitions
    BY <1>0, <1>1 DEF Partitions
  <2>2. [partitions[i] EXCEPT !.status = "failed"].status = "failed"
    BY <1>0, <1>1 DEF Partitions
  <2> QED  BY <1>0, <1>1, <2>1, <2>2 DEF CommitBody
<1>2. DOMAIN CommitBody = DOMAIN partitions
  BY DEF CommitBody
<1>3. CommitBody \in Seq(Partitions)
  <2>1. CommitBody \in [1..Len(partitions) -> Partitions]
    BY <1>0, <1>1 DEF CommitBody
  <2> QED  BY <1>0, <2>1, SeqDef
<1> QED  BY <1>0, <1>1, <1>2, <1>3 DEF Range

\* What a sweep starts from is neither steady nor of a namespace left out, and
\* what hangs under it is not either.
LEMMA DoomedIs ==
    ASSUME IInv, pc = "commit", NEW o \in Doomed(CommitBody)
    PROVE  /\ o \in inv /\ o \in Items /\ o # Root /\ o \notin run.steady
           /\ o.ns \in Range(scope) \union {NoNs}
<1>1. PICK p \in Range(CommitBody) : p.status = "complete" /\ o \in InPartition(inv, p) \ touched
  BY DEF Doomed
<1>2. p \in Range(partitions) /\ <<p.type, p.ns>> \notin rejected
  BY <1>1, CommitBodyIs
<1>3. Claim(p)
  BY <1>1, <1>2 DEF IInv, Claimed
<1>4. o \in inv /\ o \in Items /\ o # Root /\ o.type = p.type /\ o.ns = p.ns /\ o \notin touched
  BY <1>1 DEF InPartition, IInv, TypeOK
<1>5. o \notin Transient
  BY <1>4 DEF IInv, Stored
<1>6. batch = <<>>
  BY DEF IInv, Stages
<1>7. ~Handled(o)
  BY <1>2, <1>4, <1>6, RangeEmpty DEF Handled, Key
<1>8. o \notin run.steady
  BY <1>3, <1>4, <1>5, <1>7 DEF Claim, InPartition
<1> QED  BY <1>3, <1>4, <1>8 DEF Claim

LEMMA SweptIs ==
    ASSUME IInv, pc = "commit",
           NEW o \in inv \intersect (Doomed(CommitBody) \union Descendants(Doomed(CommitBody)))
    PROVE  /\ o # Root /\ o \in Items /\ o \notin run.steady
           /\ \A n \in Names : NsItem(n) \in run.steady /\ n \notin Range(scope) => o # NsItem(n) /\ o.ns # n
<1>0. o \in Items
  BY DEF IInv, TypeOK
<1>1. CASE o \in Doomed(CommitBody)
  BY <1>1, DoomedIs, NamesAssumption
<1>2. CASE o \in Descendants(Doomed(CommitBody))
  <2>1. o # Root /\ (Parent(o) \in Doomed(CommitBody) \/ Parent(Parent(o)) \in Doomed(CommitBody))
    BY <1>2 DEF Descendants
  <2>2. Parent(o) \in Doomed(CommitBody)
    BY <1>0, <2>1, ParentIs, DoomedIs
  <2>3. Parent(o) \notin run.steady /\ Parent(o) # Root
    BY <2>2, DoomedIs
  <2>4. o \notin run.steady
    BY <2>1, <2>3 DEF IInv, Histories, Rooted
  <2>5. \A n \in Names : NsItem(n) \in run.steady => o # NsItem(n) /\ o.ns # n
    BY <2>3, <2>4, NsItemIs, NamesAssumption DEF Parent
  <2> QED  BY <1>0, <2>1, <2>4, <2>5
<1> QED  BY <1>1, <1>2

\* A commit that goes through.
LEMMA SweepHolds ==
    ASSUME IInv, pc = "commit", Sweep(CommitBody), pc' \in {"done", "abort"},
           UNCHANGED <<cluster, input, scoping, loop, partitions, pusher>>
    PROVE  IInv'
<1> DEFINE D == Doomed(CommitBody)
<1>0. /\ live' = live /\ changes' = changes /\ run' = run /\ window' = window /\ input' = input
      /\ listed' = listed /\ nsList' = nsList /\ scope' = scope /\ excluded' = excluded
      /\ nsTodo' = nsTodo /\ typeTodo' = typeTodo /\ yielded' = yielded /\ partitions' = partitions
      /\ batch' = batch /\ rejected' = rejected
  BY DEF cluster, scoping, loop, pusher
<1>1. committed' = CommitBody /\ touched' = touched /\ committed' \in Seq(Partitions)
  BY CommitBodyIs DEF Sweep
<1>2. batch = <<>> /\ deleted = {} /\ sync # "committed"
  BY DEF IInv, Stages
<1>3. \/ sync' = "held" /\ UNCHANGED <<inv, deleted>>
      \/ /\ sync' = "committed" /\ inv' = inv \ deleted'
         /\ deleted' = inv \intersect (D \union Descendants(D))
  BY DEF Sweep
<1> HIDE DEF D
<1>4. inv' \subseteq inv /\ inv \subseteq Items /\ deleted' \subseteq inv /\ inv \ inv' \subseteq deleted'
  BY <1>2, <1>3 DEF IInv, TypeOK
<1>5. \A o \in deleted' :
          /\ o # Root /\ o \notin run.steady
          /\ \A n \in Names : NsItem(n) \in run.steady /\ n \notin Range(scope) => o # NsItem(n) /\ o.ns # n
  BY <1>2, <1>3, SweptIs DEF D
<1>6. TypeOK'
  <2>1. pc' \in {"open", "namespaces", "cluster", "push_ns", "sources", "types", "flush", "commit", "abort"}
                  \union Final
    BY DEF Final
  <2>2. inv' \subseteq Items /\ deleted' \subseteq Items /\ sync' \in {"none", "open", "committed", "held", "aborted"}
    BY <1>3, <1>4
  <2> QED  BY <1>0, <1>1, <2>1, <2>2 DEF IInv, TypeOK
<1>7. Histories'
  BY <1>0 DEF IInv, Histories, Rooted
<1>8. ASSUME NEW o \in inv', o # Root PROVE Parent(o) \in inv'
  <2>1. CASE sync' = "held"
    BY <1>3, <1>8, <2>1 DEF IInv, Stored
  <2>2. CASE sync' = "committed"
    <3>1. o \in inv /\ o \in Items /\ o \notin D \union Descendants(D) /\ Parent(o) \in inv
      BY <1>3, <1>4, <1>8, <2>2 DEF IInv, Stored
    <3>2. Parent(o) \notin D
      BY <1>8, <3>1 DEF Descendants
    <3>3. Parent(Parent(o)) = Root /\ Parent(Root) = Root /\ Root \notin D
      BY <3>1, ParentIs, RootIs, DoomedIs DEF D
    <3>4. Parent(o) \notin Descendants(D)
      BY <3>3 DEF Descendants
    <3> QED  BY <1>3, <2>2, <3>1, <3>2, <3>4
  <2> QED  BY <1>3, <2>1, <2>2
<1>9. Stored'
  <2>1. inv' \intersect Transient = {}
    BY <1>4 DEF IInv, Stored
  <2>2. sync' # "committed" => touched' \subseteq inv'
    BY <1>1, <1>2, <1>3 DEF IInv, Stored
  <2>3. NamedItems' = NamedItems
    BY <1>0 DEF NamedItems
  <2> QED  BY <1>0, <1>1, <1>8, <2>1, <2>2, <2>3 DEF IInv, Stored
<1>10. Stages' /\ Scoped' /\ Accounted'
  BY <1>0, <1>2 DEF IInv, Stages, Scoped, Accounted
<1>11. Claimed'
  <2>1. ASSUME NEW p, Claim(p) PROVE Claim(p)'
    BY <1>0, <1>1, <2>1 DEF Claim, Handled
  <2> QED  BY <1>0, <2>1 DEF IInv, Claimed
<1>12. NothingSteadyIsDeleted'
  BY <1>0, <1>5 DEF NothingSteadyIsDeleted
<1>13. CompletePartitionsAreAccurate'
  <2> SUFFICES ASSUME sync' = "committed", NEW p \in Range(CommitBody), p.status = "complete"
               PROVE  /\ InPartition(run.steady \ Transient, p) \subseteq inv'
                      /\ InPartition(inv', p) \subseteq run.ever
    BY <1>0, <1>1 DEF CompletePartitionsAreAccurate
  <2>1. p \in Range(partitions) /\ <<p.type, p.ns>> \notin rejected /\ Claim(p)
    BY CommitBodyIs DEF IInv, Claimed
  <2>2. ASSUME NEW o \in InPartition(run.steady \ Transient, p) PROVE o \in inv'
    <3>1. Handled(o) /\ o \in run.steady /\ o.type = p.type /\ o.ns = p.ns
      BY <2>1, <2>2 DEF Claim, InPartition
    <3>2. o \in touched
      BY <1>2, <2>1, <3>1, RangeEmpty DEF Handled, Key
    <3>3. o \in inv
      BY <1>2, <3>2 DEF IInv, Stored
    <3> QED  BY <1>4, <1>5, <3>1, <3>3
  <2>3. ASSUME NEW o \in InPartition(inv', p) PROVE o \in run.ever
    <3>1. o \in inv /\ o \in inv' /\ o # Root /\ o \in InPartition(inv, p) /\ o.type = p.type /\ o \in Items
      BY <1>4, <2>3 DEF InPartition
    <3>2. o \in touched
      <4>1. o \notin D
        BY <1>3, <3>1
      <4>2. o \in InPartition(inv, p) \ touched => o \in D
        BY DEF D, Doomed
      <4> QED  BY <3>1, <4>1, <4>2
    <3>3. CASE o \in NamedItems
      <4>1. o.type = "namespace"
        BY <3>3 DEF NamedItems, NsItem
      <4>2. nsList = "ok"
        BY <2>1, <3>1, <4>1 DEF Claim
      <4> QED  BY <3>1, <3>2, <4>2 DEF IInv, Stored
    <3>4. CASE o \notin NamedItems
      BY <3>1, <3>2, <3>4 DEF IInv, Stored
    <3> QED  BY <3>3, <3>4
  <2> QED  BY <2>2, <2>3
<1> QED  BY <1>6, <1>7, <1>9, <1>10, <1>11, <1>12, <1>13 DEF IInv

LEMMA CommitHolds == ASSUME IInv, Commit PROVE IInv'
BY SweepHolds DEF Commit

LEMMA CommitFailsHolds == ASSUME IInv, CommitFails PROVE IInv'
<1>0. /\ pc = "commit" /\ pc' = "abort"
      /\ UNCHANGED <<cluster, input, scoping, loop, partitions, pusher>>
      /\ Sweep(CommitBody) \/ UNCHANGED platform
  BY DEF CommitFails, Raise
<1>1. CASE Sweep(CommitBody)
  BY <1>0, <1>1, SweepHolds
<1>2. CASE UNCHANGED platform
  <2>1. Pushes({})
    BY <1>0, <1>2, SamePushes
  <2>2. Scoped' /\ Accounted'
    BY <1>0 DEF IInv, Scoped, Accounted, scoping, cluster
  <2>3. /\ {excluded', nsTodo'} \subseteq Seq(Names) /\ typeTodo' \in Seq(Range(Types)) /\ yielded' \subseteq Objs
        /\ partitions' \in Seq(Partitions) /\ partitions' = partitions
        /\ UNCHANGED <<cluster, input, listed, nsList, scope, window>>
    BY <1>0 DEF IInv, TypeOK, scoping, loop
  <2> QED  BY <1>0, <2>1, <2>2, <2>3, PushHolds
<1> QED  BY <1>0, <1>1, <1>2

-----------------------------------------------------------------------------
(* The cluster.                                                            *)

LEMMA ChangeHolds ==
    ASSUME IInv, NEW S \in SUBSET (Items \ {Root}), Rooted(S), Change(S)
    PROVE  IInv'
<1>0. /\ live' = S /\ changes < MaxChanges /\ changes' = changes + 1 /\ pc' = pc
      /\ pc \notin {"done", "failed", "abort"}
      /\ input' = input /\ listed' = listed /\ nsList' = nsList /\ scope' = scope
      /\ excluded' = excluded /\ nsTodo' = nsTodo /\ typeTodo' = typeTodo /\ yielded' = yielded
      /\ partitions' = partitions /\ batch' = batch /\ rejected' = rejected /\ inv' = inv
      /\ sync' = sync /\ touched' = touched /\ committed' = committed /\ deleted' = deleted
  BY DEF Change, scoping, pusher, platform, Final
<1>1. /\ run'.steady = run.steady \intersect S /\ run'.ever = run.ever \union S
      /\ window'.steady = window.steady \intersect S /\ window'.ever = window.ever \union S
  BY DEF Change, Observe
<1>2. deleted = {} /\ sync # "committed"
  BY <1>0 DEF IInv, Stages
<1>3. changes' \in 0..MaxChanges
  BY <1>0, BoundsAssumption DEF IInv, TypeOK
<1>4. TypeOK'
  BY <1>0, <1>1, <1>3 DEF IInv, TypeOK
<1>5. Histories'
  BY <1>0, <1>1 DEF IInv, Histories, Rooted
<1>6. Stored' /\ Stages'
  BY <1>0, <1>1 DEF IInv, Stored, Stages, NamedItems
<1>7. Scoped'
  BY <1>0, <1>1 DEF IInv, Scoped
<1>8. \A o : Handled(o)' <=> Handled(o)
  BY <1>0 DEF Handled
<1>9. Accounted'
  BY <1>0, <1>8 DEF IInv, Accounted
<1>10. Claimed'
  <2>1. ASSUME NEW p, Claim(p) PROVE Claim(p)'
    BY <1>0, <1>1, <1>8, <2>1 DEF Claim, InPartition
  <2> QED  BY <1>0, <2>1 DEF IInv, Claimed
<1>11. NothingSteadyIsDeleted' /\ CompletePartitionsAreAccurate'
  BY <1>0, <1>2 DEF NothingSteadyIsDeleted, CompletePartitionsAreAccurate
<1> QED  BY <1>4, <1>5, <1>6, <1>7, <1>9, <1>10, <1>11 DEF IInv

LEMMA CreateHolds == ASSUME IInv, NEW o \in Items \ {Root}, Create(o) PROVE IInv'
<1>1. live \subseteq Items \ {Root} /\ Rooted(live)
  BY DEF IInv, TypeOK, Histories
<1>2. Parent(o) \in live \union {Root} /\ Change(live \union {o})
  BY DEF Create
<1>3. Rooted(live \union {o})
  BY <1>1, <1>2 DEF Rooted
<1> QED  BY <1>1, <1>2, <1>3, ChangeHolds

LEMMA DeleteHolds == ASSUME IInv, NEW o \in Items \ {Root}, Delete(o) PROVE IInv'
<1>1. live \subseteq Items \ {Root} /\ Rooted(live)
  BY DEF IInv, TypeOK, Histories
<1>2. Descendants({o}) \intersect live = {} /\ Change(live \ {o})
  BY DEF Delete
<1>3. Rooted(live \ {o})
  BY <1>1, <1>2 DEF Rooted, Descendants
<1> QED  BY <1>1, <1>2, <1>3, ChangeHolds

-----------------------------------------------------------------------------
LEMMA StepHolds == IInv /\ [Next]_vars => IInv'
<1> SUFFICES ASSUME IInv, [Next]_vars PROVE IInv'
  OBVIOUS
<1>1. CASE Discovery
  BY <1>1, OpenSyncHolds, OpenFailsHolds, ListNamespacesHolds, PushClusterHolds, PushListedNamespaceHolds,
     PushNamedNamespaceHolds, NamespacesPushedHolds, ReadSourcesHolds, SourcesReadHolds, PushObjectHolds,
     TypeListedHolds, AllListedHolds, FinalFlushHolds, RunFailsHolds, CommitHolds, CommitFailsHolds,
     AbortHolds DEF Discovery
<1>2. CASE \E o \in Items \ {Root} : Create(o) \/ Delete(o)
  BY <1>2, CreateHolds, DeleteHolds
<1>3. CASE UNCHANGED vars
  <2>1. /\ live' = live /\ changes' = changes /\ pc' = pc /\ run' = run /\ window' = window
        /\ input' = input /\ listed' = listed /\ nsList' = nsList /\ scope' = scope
        /\ excluded' = excluded /\ nsTodo' = nsTodo /\ typeTodo' = typeTodo /\ yielded' = yielded
        /\ partitions' = partitions /\ batch' = batch /\ rejected' = rejected /\ inv' = inv
        /\ sync' = sync /\ touched' = touched /\ committed' = committed /\ deleted' = deleted
    BY <1>3 DEF vars, cluster, scoping, loop, pusher, platform
  <2>2. TypeOK' /\ Histories' /\ Stored' /\ Stages'
    BY <2>1 DEF IInv, TypeOK, Histories, Rooted, Stored, NamedItems, Stages
  <2>3. \A o : Handled(o)' <=> Handled(o)
    BY <2>1 DEF Handled
  <2>4. Scoped' /\ Accounted'
    BY <2>1, <2>3 DEF IInv, Scoped, Accounted
  <2>5. \A p : Claim(p) => Claim(p)'
    BY <2>1, <2>3 DEF Claim
  <2>6. Claimed' /\ NothingSteadyIsDeleted' /\ CompletePartitionsAreAccurate'
    BY <2>1, <2>5 DEF IInv, Claimed, NothingSteadyIsDeleted, CompletePartitionsAreAccurate
  <2> QED  BY <2>2, <2>4, <2>6 DEF IInv
<1> QED  BY <1>1, <1>2, <1>3 DEF Next

LEMMA Invariance == Spec => []IInv
<1> QED  BY InitHolds, StepHolds, PTL DEF Spec

\* The state of a run, whatever the cluster, the inventory, the input and the
\* failures: what it keeps, pushes and claims is of the namespaces and types
\* there are, and no batch is larger than it may be.
THEOREM TypeCorrect == Spec => []TypeOK
<1>1. IInv => TypeOK
  BY DEF IInv
<1> QED  BY <1>1, Invariance, PTL

\* For any cluster that changes at will, any inventory, any scope, any listing
\* that fails and any item that papi rejects: nothing that existed throughout
\* the run is swept by it, and nothing of a namespace that was left out.
THEOREM SteadyObjectsStay == Spec => []NothingSteadyIsDeleted
<1>1. IInv => NothingSteadyIsDeleted
  BY DEF IInv
<1> QED  BY <1>1, Invariance, PTL

\* A partition committed as complete holds, after the sweep, everything of the
\* cluster that was steady, and nothing that never was there.
THEOREM CommittedPartitionsAreAccurate == Spec => []CompletePartitionsAreAccurate
<1>1. IInv => CompletePartitionsAreAccurate
  BY DEF IInv
<1> QED  BY <1>1, Invariance, PTL

-----------------------------------------------------------------------------
(* A run implements Inventory.                                             *)

\* What the run pushes, papi's inventory gains, as Inventory!Add allows.
LEMMA PushImplements ==
    ASSUME IInv, NEW O, Pushes(O), pc \notin {"done", "abort", "failed"}, UNCHANGED <<run, input>>
    PROVE  [Contract!Next]_Contract!vars
<1>1. sync # "committed" /\ sync' = sync
  BY DEF IInv, Stages, Pushes
<1>2. /\ inv \subseteq inv' /\ inv' \subseteq inv \union run.ever \union NamedItems \union {Root}
      /\ \A o \in inv' : o # Root => Parent(o) \in inv'
  BY DEF IInv, Stored, Pushes
<1>3. Contract!Add
  BY <1>1, <1>2 DEF Contract!Add, Contract!NoOrphans, NamedItems
<1> QED  BY <1>3 DEF Contract!Next

LEMMA IdleImplements ==
    ASSUME UNCHANGED <<inv, run, input>>, (sync' = "committed") <=> (sync = "committed")
    PROVE  [Contract!Next]_Contract!vars
BY DEF Contract!vars

LEMMA SweepImplements ==
    ASSUME IInv, IInv', pc = "commit", Sweep(CommitBody), UNCHANGED <<run, input>>
    PROVE  [Contract!Next]_Contract!vars
<1>1. sync # "committed"
  BY DEF IInv, Stages
<1>2. CASE sync' = "held" /\ UNCHANGED inv
  BY <1>1, <1>2, IdleImplements
<1>3. CASE sync' = "committed" /\ inv' = inv \ deleted'
  <2>1. inv \intersect run.steady \subseteq inv'
    BY <1>3 DEF IInv, NothingSteadyIsDeleted
  <2>2. \A o \in inv' : o # Root => Parent(o) \in inv'
    BY DEF IInv, Stored
  <2>3. Contract!Sweep
    BY <1>1, <1>3, <2>1, <2>2 DEF Contract!Sweep, Contract!NoOrphans
  <2> QED  BY <2>3 DEF Contract!Next
<1> QED  BY <1>2, <1>3 DEF Sweep

LEMMA ChangeImplements ==
    ASSUME NEW S, Change(S)
    PROVE  [Contract!Next]_Contract!vars
<1>1. run'.steady = run.steady \intersect S /\ run'.ever = run.ever \union S /\ UNCHANGED <<inv, input, sync>>
  BY DEF Change, Observe, platform
<1>2. Contract!Observe
  BY <1>1 DEF Contract!Observe
<1> QED  BY <1>2 DEF Contract!Next

LEMMA InitImplements == Init => Contract!Init
<1> SUFFICES ASSUME Init PROVE Contract!Init
  OBVIOUS
<1>1. IInv
  BY InitHolds
<1>2. inv \subseteq Items /\ \A o \in inv : o # Root => Parent(o) \in inv
  BY <1>1 DEF IInv, TypeOK, Stored
<1>3. run.steady \subseteq Items /\ run.ever = run.steady
  BY <1>1 DEF IInv, TypeOK, Init, Since
<1>4. {NsItem(n) : n \in Range(input.namespaces)} \subseteq Items
  <2>1. Range(input.namespaces) \subseteq Names
    BY InputsAssumption, RangeType DEF Init
  <2> QED  BY <2>1, NsItemIs
<1>5. (sync = "committed") = FALSE
  BY DEF Init
<1> QED  BY <1>2, <1>3, <1>4, <1>5 DEF Contract!Init, Contract!NoOrphans

LEMMA DiscoveryImplements ==
    ASSUME IInv, IInv', Discovery
    PROVE  [Contract!Next]_Contract!vars
<1>1. CASE OpenSync \/ OpenFails
  <2>1. UNCHANGED <<inv, run, input>> /\ sync' \in {"none", "open"} /\ pc = "open"
    BY <1>1 DEF OpenSync, OpenFails, cluster, storage
  <2> QED  BY <2>1, IdleImplements DEF IInv, Stages
<1>2. CASE Abort
  <2>1. UNCHANGED <<inv, run, input>> /\ (sync' = "committed" <=> sync = "committed")
    BY <1>2 DEF Abort, cluster, storage
  <2> QED  BY <2>1, IdleImplements
<1>3. CASE ListNamespaces \/ NamespacesPushed \/ ReadSources \/ SourcesRead \/ TypeListed \/ AllListed
  <2>1. UNCHANGED <<inv, run, input>> /\ sync' = sync
    BY <1>3 DEF ListNamespaces, NamespacesPushed, ReadSources, SourcesRead, TypeListed, AllListed,
                cluster, platform
  <2> QED  BY <2>1, IdleImplements
<1>4. CASE PushCluster
  BY <1>4, RootIs, AddPushes, PushImplements DEF PushCluster, cluster
<1>5. CASE PushListedNamespace
  <2>1. Head(nsTodo) \in Names
    BY <1>5, RangeTail DEF PushListedNamespace, IInv, TypeOK
  <2>2. Add(NsItem(Head(nsTodo))) \/ UNCHANGED <<pusher, platform>>
    BY <1>5 DEF PushListedNamespace
  <2> QED  BY <1>5, <2>1, <2>2, NsItemIs, AddPushes, SamePushes, PushImplements DEF PushListedNamespace, cluster
<1>6. CASE PushNamedNamespace
  <2>1. Head(nsTodo) \in Names
    BY <1>6, RangeTail DEF PushNamedNamespace, IInv, TypeOK
  <2> QED  BY <1>6, <2>1, NsItemIs, AddPushes, PushImplements DEF PushNamedNamespace, cluster
<1>7. CASE PushObject
  <2>1. PICK o \in OfType(window.ever) : IF o \in Transient THEN UNCHANGED <<pusher, platform>> ELSE Add(o)
    BY <1>7 DEF PushObject
  <2>2. o \in Items
    BY DEF OfType, IInv, TypeOK
  <2> QED  BY <1>7, <2>1, <2>2, AddPushes, SamePushes, PushImplements DEF PushObject, cluster
<1>8. CASE FinalFlush
  <2>1. batch' \in Seq(Items \ Transient) /\ Len(batch') <= BatchSize /\ Range(batch') = {}
    BY <1>8, RangeEmpty, BoundsAssumption DEF FinalFlush
  <2> QED  BY <1>8, <2>1, FlushPushes, PushImplements DEF FinalFlush, cluster
<1>9. CASE RunFails
  <2>1. UNCHANGED <<pusher, platform>> \/ FlushFails
    BY <1>9 DEF RunFails, pusher
  <2> QED  BY <1>9, <2>1, SamePushes, FailedFlushPushes, PushImplements DEF RunFails, Raise, cluster
<1>10. CASE Commit \/ CommitFails
  <2>1. /\ pc = "commit" /\ UNCHANGED <<run, input>>
        /\ Sweep(CommitBody) \/ UNCHANGED platform
    BY <1>10 DEF Commit, CommitFails, Raise, cluster
  <2>2. CASE UNCHANGED platform
    BY <2>1, <2>2, IdleImplements DEF platform
  <2> QED  BY <2>1, <2>2, SweepImplements
<1> QED  BY <1>1, <1>2, <1>3, <1>4, <1>5, <1>6, <1>7, <1>8, <1>9, <1>10 DEF Discovery

LEMMA StepImplements ==
    ASSUME IInv, IInv', [Next]_vars
    PROVE  [Contract!Next]_Contract!vars
<1>1. CASE Discovery
  BY <1>1, DiscoveryImplements
<1>2. CASE \E o \in Items \ {Root} : Create(o) \/ Delete(o)
  BY <1>2, ChangeImplements DEF Create, Delete
<1>3. CASE UNCHANGED vars
  BY <1>3, IdleImplements DEF vars, cluster, platform
<1> QED  BY <1>1, <1>2, <1>3 DEF Next

\* Whatever happens in a run, what it does to the inventory is what Inventory
\* allows: it adds what there was, each item under its parent, and removes
\* once, and only what was absent at some time.
THEOREM RunImplementsContract == Spec => ImplementsContract
<1>1. Init => Contract!Init
  BY InitImplements
<1>2. IInv /\ IInv' /\ [Next]_vars => [Contract!Next]_Contract!vars
  BY StepImplements
<1> QED  BY <1>1, <1>2, Invariance, PTL DEF Spec, ImplementsContract, Contract!Spec

-----------------------------------------------------------------------------
(* Ancestors are pushed first.                                             *)

\* papi takes what others hang under, and the namespaces in scope are known.
Known ==
    /\ unstorable \subseteq Objs
    /\ nsList = "forbidden" \/ (nsList = "ok" /\ Range(scope) \subseteq Range(listed))

\* Pushed: papi has it, or it is on its way.
Sent(o) == o \in touched \union Range(batch)

\* The cluster is sent first, then the namespaces in scope, which are all sent
\* when the objects' turn comes.
Ordered ==
    /\ AncestorsPushedFirst
    /\ pc \in {"push_ns", "sources", "types"} => Sent(Root)
    /\ pc = "push_ns" => \A n \in Range(scope) : n \in Range(nsTodo) \/ Sent(NsItem(n))
    /\ pc \in {"sources", "types"} => \A n \in Range(scope) : Sent(NsItem(n))
OrderedWhenKnown == Known => Ordered

\* What a push does to what was sent before it, when O is what it is given.
Sends(O) ==
    /\ \A o \in Items \ Objs : Sent(o) => Sent(o)'
    /\ \A o \in O : Sent(o)'
    /\ AncestorsPushedFirst'

LEMMA SameSends ==
    ASSUME AncestorsPushedFirst, UNCHANGED <<pusher, platform>>
    PROVE  Sends({})
BY DEF Sends, Sent, AncestorsPushedFirst, pusher, platform

LEMMA ParentIsNoObject ==
    ASSUME NEW o \in Items
    PROVE  Parent(o) \in Items \ Objs
BY ItemNs, RootIs, NsItemIs DEF Parent

\* papi takes the cluster and the namespaces of a batch: their parent is there.
LEMMA FlushSends ==
    ASSUME IInv, Known, AncestorsPushedFirst, FlushOk, sync # "committed"
    PROVE  \A o \in Items \ Objs : Sent(o) => o \in touched'
<1>1. PICK S \in SUBSET DOMAIN batch : Takes(batch, S) /\ Stores(batch, S)
  BY DEF FlushOk
<1>2. ASSUME NEW o \in Items \ Objs, NEW i \in DOMAIN batch, batch[i] = o, o = Root \/ Parent(o) = Root
      PROVE  i \in S
  <2>1. o \notin unstorable
    BY DEF Known
  <2>2. CASE o = Root
    BY <1>1, <1>2, <2>1, <2>2 DEF Takes, Storable
  <2>3. CASE o # Root
    <3>1. Root \in touched \union {batch[j] : j \in 1..(i - 1)}
      BY <1>2, <2>3 DEF AncestorsPushedFirst
    <3>2. touched \subseteq inv
      BY DEF IInv, Stored
    <3>3. ASSUME NEW j \in 1..(i - 1), batch[j] = Root
          PROVE  j \in {k \in S : k < i}
      <4>1. j \in DOMAIN batch /\ j < i
        BY DEF IInv, TypeOK
      <4>2. Root \notin unstorable
        BY RootIs DEF Known
      <4>3. j \in S
        BY <1>1, <3>3, <4>1, <4>2 DEF Takes, Storable
      <4> QED  BY <4>1, <4>3
    <3>4. Root \in inv \union {batch[j] : j \in {k \in S : k < i}}
      BY <3>1, <3>2, <3>3
    <3>5. Storable(batch[i], inv \union {batch[j] : j \in {k \in S : k < i}})
      BY <1>2, <2>1, <2>3, <3>4 DEF Storable
    <3> QED  BY <1>1, <3>5 DEF Takes
  <2> QED  BY <2>2, <2>3
<1>3. ASSUME NEW o \in Items \ Objs, Sent(o)
      PROVE  o \in touched'
  <2>1. CASE o \in touched
    BY <1>1, <2>1 DEF Stores
  <2>2. CASE o \in Range(batch)
    <3>1. PICK i \in DOMAIN batch : batch[i] = o
      BY <2>2 DEF Range
    <3>2. o = Root \/ Parent(o) = Root
      BY <1>3, NsItemIs DEF Items
    <3>3. i \in S
      BY <1>2, <1>3, <3>1, <3>2
    <3> QED  BY <1>1, <3>1, <3>3 DEF Stores
  <2> QED  BY <1>3, <2>1, <2>2 DEF Sent
<1> QED  BY <1>3

\* An item may be added once its parent was sent.
LEMMA AddSends ==
    ASSUME IInv, Known, AncestorsPushedFirst, sync # "committed",
           NEW o \in Items \ Transient, Add(o), o = Root \/ Sent(Parent(o))
    PROVE  Sends({o})
<1>1. batch \in Seq(Items \ Transient) /\ Len(batch) \in Nat
  BY DEF IInv, TypeOK
<1>2. CASE Len(batch) < BatchSize
  <2>1. batch' = Append(batch, o) /\ touched' = touched
    BY <1>2 DEF Add, platform
  <2>2. Range(batch') = Range(batch) \union {o}
    BY <1>1, <2>1, RangeAppend
  <2>3. /\ DOMAIN batch' = 1..(Len(batch) + 1) /\ DOMAIN batch = 1..Len(batch)
        /\ \A i \in 1..Len(batch) : batch'[i] = batch[i]
        /\ batch'[Len(batch) + 1] = o
    BY <1>1, <2>1
  <2>4. ASSUME NEW i \in DOMAIN batch', batch'[i] # Root
        PROVE  Parent(batch'[i]) \in touched' \union {batch'[j] : j \in 1..(i - 1)}
    <3>1. CASE i \in 1..Len(batch)
      <4>1. Parent(batch[i]) \in touched \union {batch[j] : j \in 1..(i - 1)}
        BY <2>3, <2>4, <3>1 DEF AncestorsPushedFirst
      <4>2. \A j \in 1..(i - 1) : batch'[j] = batch[j]
        BY <1>1, <2>3, <3>1
      <4> QED  BY <2>1, <2>3, <3>1, <4>1, <4>2
    <3>2. CASE i = Len(batch) + 1
      <4>1. Parent(o) \in touched \union Range(batch)
        BY <2>3, <2>4, <3>2 DEF Sent
      <4>2. \A x \in Range(batch) : \E j \in 1..(i - 1) : batch'[j] = x
        BY <1>1, <2>3, <3>2 DEF Range
      <4> QED  BY <2>1, <2>3, <3>2, <4>1, <4>2
    <3> QED  BY <1>1, <2>3, <3>1, <3>2
  <2> QED  BY <2>1, <2>2, <2>4 DEF Sends, Sent, AncestorsPushedFirst
<1>3. CASE ~(Len(batch) < BatchSize)
  <2>1. FlushOk /\ batch' = <<o>>
    BY <1>3 DEF Add
  <2>2. \A x \in Items \ Objs : Sent(x) => x \in touched'
    BY <2>1, FlushSends
  <2>3. o # Root => Parent(o) \in touched'
    BY <2>2, ParentIsNoObject
  <2>4. DOMAIN batch' = {1} /\ batch'[1] = o /\ Range(batch') = {o}
    BY <2>1 DEF Range
  <2> QED  BY <2>2, <2>3, <2>4 DEF Sends, Sent, AncestorsPushedFirst
<1> QED  BY <1>2, <1>3

\* While the run pushes, what is sent stays so.
LEMMA SendsKeeps ==
    ASSUME Ordered, NEW O, Sends(O), NEW n \in Names, Sent(NsItem(n))
    PROVE  Sent(NsItem(n))'
BY NsItemIs DEF Sends

LEMMA PushStepOrdered ==
    ASSUME IInv, Known, Ordered,
           PushCluster \/ PushListedNamespace \/ PushNamedNamespace \/ PushObject
    PROVE  Ordered'
<1>1. sync # "committed" /\ AncestorsPushedFirst /\ scope \in Seq(Names) /\ nsTodo \in Seq(Names)
  BY DEF IInv, TypeOK, Stages, Ordered, PushCluster, PushListedNamespace, PushNamedNamespace, PushObject
<1>2. Range(scope) \subseteq Names
  BY <1>1, RangeType
<1>3. CASE PushCluster
  <2>1. Sends({Root})
    BY <1>1, <1>3, RootIs, AddSends DEF PushCluster
  <2>2. pc' = "push_ns" /\ scope' = scope /\ nsTodo' = IF nsList = "ok" THEN listed ELSE scope
    BY <1>3 DEF PushCluster, scoping, Known
  <2>3. \A n \in Range(scope) : n \in Range(nsTodo')
    BY <2>2 DEF Known
  <2> QED  BY <2>1, <2>2, <2>3 DEF Sends, Ordered
<1>4. CASE PushListedNamespace \/ PushNamedNamespace
  <2> DEFINE n == Head(nsTodo)
  <2>1. /\ n \in Names /\ NsItem(n) \in Items \ Transient /\ Parent(NsItem(n)) = Root
        /\ Range(nsTodo) = {n} \union Range(Tail(nsTodo))
    <3>1. nsTodo # <<>>
      BY <1>4 DEF PushListedNamespace, PushNamedNamespace
    <3>2. n \in Names /\ Range(nsTodo) = {n} \union Range(Tail(nsTodo))
      BY <1>1, <3>1, RangeTail
    <3> QED  BY <3>2, NsItemIs
  <2>2. /\ pc = "push_ns" /\ pc' = "push_ns" /\ scope' = scope /\ nsTodo' = Tail(nsTodo)
        /\ Add(NsItem(n)) \/ (n \notin Range(scope) /\ UNCHANGED <<pusher, platform>>)
    BY <1>4 DEF PushListedNamespace, PushNamedNamespace, scoping
  <2>3. Sent(Root)
    BY <2>2 DEF Ordered
  <2> HIDE DEF n
  <2>4. Sends({NsItem(n)}) \/ (n \notin Range(scope) /\ Sends({}))
    BY <1>1, <2>1, <2>2, <2>3, AddSends, SameSends
  <2>5. Sent(Root)'
    BY <2>3, <2>4, RootIs DEF Sends
  <2>6. ASSUME NEW m \in Range(scope)
        PROVE  m \in Range(nsTodo') \/ Sent(NsItem(m))'
    <3>1. CASE m = n
      BY <2>4, <2>6, <3>1 DEF Sends
    <3>2. CASE m # n /\ m \in Range(nsTodo)
      BY <2>1, <2>2, <3>2
    <3>3. CASE m \notin Range(nsTodo)
      <4>1. m \in Names /\ Sent(NsItem(m))
        BY <1>2, <2>2, <3>3 DEF Ordered
      <4> QED  BY <2>4, <4>1, SendsKeeps
    <3> QED  BY <3>1, <3>2, <3>3
  <2>7. AncestorsPushedFirst'
    BY <2>4 DEF Sends
  <2> QED  BY <2>2, <2>5, <2>6, <2>7 DEF Ordered
<1>5. CASE PushObject
  <2>1. PICK o \in OfType(window.ever) : IF o \in Transient THEN UNCHANGED <<pusher, platform>> ELSE Add(o)
    BY <1>5 DEF PushObject
  <2>2. pc = "types" /\ pc' = "types" /\ scope' = scope /\ Sent(Root)
    BY <1>5 DEF PushObject, scoping, Ordered
  <2>3. o \in Items /\ o.ns \in Range(ListedScopes)
    BY <2>1 DEF OfType, IInv, TypeOK
  <2>4. o = Root \/ Sent(Parent(o))
    <3>1. CASE o.ns = NoNs
      BY <2>2, <3>1 DEF Parent
    <3>2. CASE o.ns # NoNs
      <4>1. Range(<<NoNs>>) = {NoNs}
        BY DEF Range
      <4>2. o.ns \in Range(scope)
        BY <2>3, <3>2, <4>1 DEF ListedScopes
      <4> QED  BY <2>2, <3>2, <4>2 DEF Ordered, Parent
    <3> QED  BY <3>1, <3>2
  <2>5. \E O : Sends(O)
    BY <1>1, <2>1, <2>3, <2>4, AddSends, SameSends
  <2>6. Sent(Root)' /\ \A m \in Range(scope) : Sent(NsItem(m))'
    <3>1. \A m \in Range(scope) : m \in Names /\ Sent(NsItem(m))
      BY <1>2, <2>2 DEF Ordered
    <3>2. Sent(Root)'
      BY <2>2, <2>5, RootIs DEF Sends
    <3> QED  BY <2>5, <3>1, <3>2, SendsKeeps
  <2>7. AncestorsPushedFirst'
    BY <2>5 DEF Sends
  <2> QED  BY <2>2, <2>6, <2>7 DEF Ordered
<1> QED  BY <1>3, <1>4, <1>5

\* With an empty batch nothing waits; before the cluster is pushed, and after
\* the types are listed, there is nothing more to say.
LEMMA EmptyIsOrdered ==
    ASSUME batch = <<>>, pc \notin {"push_ns", "sources", "types"}
    PROVE  Ordered
BY DEF Ordered, AncestorsPushedFirst

\* The batch waits, and what papi has it keeps on having.
LEMMA WaitingIsOrdered ==
    ASSUME Ordered, UNCHANGED batch, touched \subseteq touched',
           pc' \notin {"push_ns", "sources", "types"} \/ UNCHANGED <<pc, scope, nsTodo>>
    PROVE  Ordered'
BY DEF Ordered, AncestorsPushedFirst, Sent

LEMMA OrderedStep == IInv /\ OrderedWhenKnown /\ [Next]_vars => OrderedWhenKnown'
<1> SUFFICES ASSUME IInv, OrderedWhenKnown, [Next]_vars, Known' PROVE Ordered'
  BY DEF OrderedWhenKnown
<1>1. CASE OpenSync \/ ListNamespaces
  <2>1. batch' = <<>> /\ pc' \in {"namespaces", "cluster"}
    BY <1>1 DEF OpenSync, ListNamespaces, pusher, IInv, Stages
  <2> QED  BY <2>1 DEF Ordered, AncestorsPushedFirst
<1>2. CASE UNCHANGED <<unstorable, nsList, scope, listed>>
  <2>1. Known /\ Ordered
    BY <1>2 DEF Known, OrderedWhenKnown
  <2>2. CASE PushCluster \/ PushListedNamespace \/ PushNamedNamespace \/ PushObject
    BY <2>1, <2>2, PushStepOrdered
  <2>3. CASE OpenFails \/ AllListed \/ Abort
    BY <2>1, <2>3, WaitingIsOrdered DEF OpenFails, AllListed, Abort, pusher, platform, storage
  <2>4. CASE NamespacesPushed
    <3>1. /\ pc = "push_ns" /\ nsTodo = <<>> /\ pc' = "sources" /\ UNCHANGED <<scope, touched, batch>>
      BY <2>4 DEF NamespacesPushed, scoping, pusher, platform
    <3>2. Sent(Root) /\ \A n \in Range(scope) : Sent(NsItem(n))
      BY <2>1, <3>1, RangeEmpty DEF Ordered
    <3> QED  BY <2>1, <3>1, <3>2 DEF Ordered, Sent, AncestorsPushedFirst
  <2>5. CASE ReadSources \/ SourcesRead \/ TypeListed
    <3>1. /\ pc \in {"sources", "types"} /\ pc' \in {"sources", "types"}
          /\ UNCHANGED <<scope, touched, batch>>
      BY <2>5 DEF ReadSources, SourcesRead, TypeListed, scoping, pusher, platform
    <3> QED  BY <2>1, <3>1 DEF Ordered, Sent, AncestorsPushedFirst
  <2>6. CASE FinalFlush
    BY <2>6 DEF FinalFlush, Ordered, AncestorsPushedFirst
  <2>7. CASE RunFails
    <3>1. UNCHANGED batch /\ pc' = "abort"
      BY <2>7 DEF RunFails, Raise
    <3>2. touched \subseteq touched'
      BY <2>7 DEF RunFails, FlushFails, Stores, platform
    <3> QED  BY <2>1, <3>1, <3>2, WaitingIsOrdered
  <2>8. CASE Commit \/ CommitFails
    <3>1. UNCHANGED <<batch, touched>> /\ pc' \in {"done", "abort"}
      BY <2>8 DEF Commit, CommitFails, Sweep, Raise, pusher, platform
    <3> QED  BY <2>1, <3>1, WaitingIsOrdered
  <2>9. CASE \E o \in Items \ {Root} : Create(o) \/ Delete(o)
    BY <2>1, <2>9, WaitingIsOrdered DEF Create, Delete, Change, scoping, pusher, platform
  <2>10. CASE UNCHANGED vars
    BY <2>1, <2>10, WaitingIsOrdered DEF vars, scoping, loop, pusher, platform
  <2>11. CASE OpenSync \/ ListNamespaces
    BY <1>1, <2>11
  <2> QED  BY <2>2, <2>3, <2>4, <2>5, <2>6, <2>7, <2>8, <2>9, <2>10, <2>11 DEF Next, Discovery
<1>3. UNCHANGED <<unstorable, nsList, scope, listed>> \/ OpenSync \/ ListNamespaces
  <2>1. CASE PushCluster \/ PushListedNamespace \/ PushNamedNamespace \/ PushObject \/ FinalFlush
             \/ RunFails \/ Commit \/ CommitFails
    BY <2>1 DEF PushCluster, PushListedNamespace, PushNamedNamespace, PushObject, FinalFlush, RunFails,
                Commit, CommitFails, Add, FlushOk, FlushFails, Sweep, Raise, scoping, platform
  <2>2. CASE OpenFails \/ NamespacesPushed \/ ReadSources \/ SourcesRead \/ TypeListed \/ AllListed \/ Abort
    BY <2>2 DEF OpenFails, NamespacesPushed, ReadSources, SourcesRead, TypeListed, AllListed, Abort,
                scoping, platform, storage
  <2>3. CASE \E o \in Items \ {Root} : Create(o) \/ Delete(o)
    BY <2>3 DEF Create, Delete, Change, scoping, platform
  <2>4. CASE UNCHANGED vars
    BY <2>4 DEF vars, scoping, platform
  <2> QED  BY <2>1, <2>2, <2>3, <2>4 DEF Next, Discovery
<1> QED  BY <1>1, <1>2, <1>3

\* When the namespaces in scope could be listed or named, and papi takes what
\* others hang under, nothing waits in the batch without its parent ahead of it.
THEOREM AncestorsAreFirst == Spec => []AncestorsFirstWhenNamespacesKnown
<1>1. Init => OrderedWhenKnown
  <2>1. Init => batch = <<>> /\ pc = "open"
    BY DEF Init
  <2> QED  BY <2>1, EmptyIsOrdered DEF OrderedWhenKnown
<1>2. OrderedWhenKnown => AncestorsFirstWhenNamespacesKnown
  BY DEF OrderedWhenKnown, Known, Ordered, AncestorsFirstWhenNamespacesKnown
<1> QED  BY <1>1, <1>2, OrderedStep, Invariance, PTL DEF Spec

-----------------------------------------------------------------------------
(* Each partition is reported exactly once.                                *)

Keys(ps) == {<<p.type, p.ns>> : p \in Range(ps)}
TypesDiffer(s) == \A i, j \in 1..Len(s) : s[i].type = s[j].type => i = j
KeysDiffer(ps) == \A i, j \in 1..Len(ps) : ps[i].type = ps[j].type /\ ps[i].ns = ps[j].ns => i = j

NamespaceKey == <<"namespace", NoNs>>
SourceKeys(n) == Range(SourceTypes) \X {n}
TypeKeys(t) == {t.type} \X (IF t.namespaced THEN Range(scope) ELSE {NoNs})
AllSourceKeys == Range(SourceTypes) \X Range(scope)
AllTypeKeys == UNION {TypeKeys(t) : t \in Range(Types)}

\* Which partitions there are while the sources are read, and while the types
\* are listed; each loop still owes those of what it has to visit, and none of
\* them is there yet -- unless a namespace is named twice.
AtSources ==
    /\ NamespaceKey \in Keys(partitions) /\ Keys(partitions) \subseteq {NamespaceKey} \union AllSourceKeys
    /\ \A n \in Range(scope) : n \in Range(nsTodo) \/ SourceKeys(n) \subseteq Keys(partitions)
    /\ IsInjective(scope) =>
          /\ KeysDiffer(partitions) /\ IsInjective(nsTodo)
          /\ \A n \in Range(nsTodo) : SourceKeys(n) \intersect Keys(partitions) = {}
AtTypes ==
    /\ {NamespaceKey} \union AllSourceKeys \subseteq Keys(partitions)
    /\ Keys(partitions) \subseteq {NamespaceKey} \union AllSourceKeys \union AllTypeKeys
    /\ \A t \in Range(Types) : t \in Range(typeTodo) \/ TypeKeys(t) \subseteq Keys(partitions)
    /\ TypesDiffer(typeTodo)
    /\ \A t \in Range(typeTodo) : TypeKeys(t) \intersect Keys(partitions) = {}
    /\ IsInjective(scope) => KeysDiffer(partitions)
Answered ==
    /\ Range(excluded) \intersect Range(scope) = {}
    /\ pc \in {"open", "namespaces", "cluster", "push_ns"} => partitions = <<>>
    /\ pc = "sources" => AtSources
    /\ pc = "types" => AtTypes
    /\ pc \in {"flush", "commit"} =>
          Keys(partitions) = Answerable /\ (IsInjective(scope) => KeysDiffer(partitions))
    /\ ExactlyOnePartitionEach

LEMMA KeysOfConcat ==
    ASSUME NEW P, NEW a \in Seq(P), NEW b \in Seq(P)
    PROVE  /\ Keys(a \o b) = Keys(a) \union Keys(b)
           /\ KeysDiffer(a) /\ KeysDiffer(b) /\ Keys(a) \intersect Keys(b) = {} => KeysDiffer(a \o b)
<1>1. Range(a \o b) = Range(a) \union Range(b)
  BY RangeConcat
<1>2. Keys(a \o b) = Keys(a) \union Keys(b)
  BY <1>1 DEF Keys
<1>3. ASSUME KeysDiffer(a), KeysDiffer(b), Keys(a) \intersect Keys(b) = {}
      PROVE  KeysDiffer(a \o b)
  <2> DEFINE c == a \o b
  <2>1. /\ Len(a) \in Nat /\ Len(b) \in Nat /\ Len(c) = Len(a) + Len(b)
        /\ DOMAIN a = 1..Len(a) /\ DOMAIN b = 1..Len(b)
        /\ \A i \in 1..(Len(a) + Len(b)) : c[i] = IF i <= Len(a) THEN a[i] ELSE b[i - Len(a)]
    OBVIOUS
  <2>2. \A i \in 1..Len(a) : <<a[i].type, a[i].ns>> \in Keys(a)
    BY <2>1 DEF Keys, Range
  <2>3. \A i \in 1..Len(b) : <<b[i].type, b[i].ns>> \in Keys(b)
    BY <2>1 DEF Keys, Range
  <2> SUFFICES ASSUME NEW i \in 1..Len(c), NEW j \in 1..Len(c), c[i].type = c[j].type, c[i].ns = c[j].ns
               PROVE  i = j
    BY DEF KeysDiffer
  <2> HIDE DEF c
  <2>4. CASE i <= Len(a) /\ j <= Len(a)
    <3>1. i \in 1..Len(a) /\ j \in 1..Len(a) /\ c[i] = a[i] /\ c[j] = a[j]
      BY <2>1, <2>4
    <3> QED  BY <1>3, <3>1 DEF KeysDiffer
  <2>5. CASE ~(i <= Len(a)) /\ ~(j <= Len(a))
    <3>1. /\ i - Len(a) \in 1..Len(b) /\ j - Len(a) \in 1..Len(b)
          /\ c[i] = b[i - Len(a)] /\ c[j] = b[j - Len(a)]
      BY <2>1, <2>5
    <3>2. i - Len(a) = j - Len(a)
      BY <1>3, <3>1 DEF KeysDiffer
    <3> QED  BY <2>1, <3>2
  <2>6. CASE i <= Len(a) /\ ~(j <= Len(a))
    <3>1. i \in 1..Len(a) /\ c[i] = a[i] /\ j - Len(a) \in 1..Len(b) /\ c[j] = b[j - Len(a)]
      BY <2>1, <2>6
    <3> QED  BY <1>3, <2>2, <2>3, <3>1
  <2>7. CASE ~(i <= Len(a)) /\ j <= Len(a)
    <3>1. j \in 1..Len(a) /\ c[j] = a[j] /\ i - Len(a) \in 1..Len(b) /\ c[i] = b[i - Len(a)]
      BY <2>1, <2>7
    <3> QED  BY <1>3, <2>2, <2>3, <3>1
  <2> QED  BY <2>4, <2>5, <2>6, <2>7
<1> QED  BY <1>2, <1>3

\* The partitions a namespace's sources come to, and those a type comes to.
LEMMA SourceKeysAre ==
    ASSUME NEW n, NEW status
    PROVE  LET more == [i \in 1..Len(SourceTypes) |-> Partition(SourceTypes[i], n, status[i])]
           IN  more \in Seq(Range(more)) /\ Keys(more) = SourceKeys(n) /\ KeysDiffer(more)
<1> DEFINE more == [i \in 1..Len(SourceTypes) |-> Partition(SourceTypes[i], n, status[i])]
<1>1. Len(SourceTypes) \in Nat /\ DOMAIN SourceTypes = 1..Len(SourceTypes) /\ IsInjective(SourceTypes)
  BY TypesAssumption
<1>2. \A i \in 1..Len(SourceTypes) : more[i].type = SourceTypes[i] /\ more[i].ns = n
  BY DEF Partition
<1>3. DOMAIN more = 1..Len(SourceTypes) /\ Len(more) = Len(SourceTypes) /\ more \in [1..Len(SourceTypes) -> Range(more)]
  BY <1>1 DEF Range
<1> HIDE DEF more
<1>4. Keys(more) = SourceKeys(n)
  <2>1. Range(more) = {more[i] : i \in 1..Len(SourceTypes)}
        /\ Range(SourceTypes) = {SourceTypes[i] : i \in 1..Len(SourceTypes)}
    BY <1>1, <1>3 DEF Range
  <2> QED  BY <1>2, <2>1 DEF Keys, SourceKeys
<1>5. KeysDiffer(more)
  BY <1>1, <1>2, <1>3 DEF KeysDiffer, IsInjective
<1>6. more \in Seq(Range(more))
  BY <1>1, <1>3, SeqDef
<1> QED  BY <1>4, <1>5, <1>6 DEF more

LEMMA TypeKeysAre ==
    ASSUME NEW type, NEW S, NEW s \in Seq(S), NEW status
    PROVE  LET more == [i \in DOMAIN s |-> Partition(type, s[i], status[i])]
           IN  /\ more \in Seq(Range(more)) /\ Keys(more) = {type} \X Range(s)
               /\ IsInjective(s) => KeysDiffer(more)
<1> DEFINE more == [i \in DOMAIN s |-> Partition(type, s[i], status[i])]
<1>1. Len(s) \in Nat /\ DOMAIN s = 1..Len(s)
  OBVIOUS
<1>2. \A i \in 1..Len(s) : more[i].type = type /\ more[i].ns = s[i]
  BY <1>1 DEF Partition
<1>3. DOMAIN more = 1..Len(s) /\ Len(more) = Len(s) /\ more \in [1..Len(s) -> Range(more)]
  BY <1>1 DEF Range
<1> HIDE DEF more
<1>4. Keys(more) = {type} \X Range(s)
  BY <1>1, <1>2, <1>3 DEF Keys, Range
<1>5. IsInjective(s) => KeysDiffer(more)
  BY <1>1, <1>2, <1>3 DEF KeysDiffer, IsInjective
<1>6. more \in Seq(Range(more))
  BY <1>1, <1>3, SeqDef
<1> QED  BY <1>4, <1>5, <1>6 DEF more

\* What a list of partitions comes to when more are added to it.
LEMMA MoreKeys ==
    ASSUME partitions \in Seq(Partitions), NEW more, more \in Seq(Range(more)),
           partitions' = partitions \o more
    PROVE  /\ Keys(partitions') = Keys(partitions) \union Keys(more)
           /\ KeysDiffer(partitions) /\ KeysDiffer(more) /\ Keys(partitions) \intersect Keys(more) = {}
                 => KeysDiffer(partitions')
<1> DEFINE P == Partitions \union Range(more)
<1>1. partitions \in Seq(P) /\ more \in Seq(P)
  OBVIOUS
<1> HIDE DEF P
<1> QED  BY <1>1, KeysOfConcat

LEMMA InjectiveTail ==
    ASSUME NEW S, NEW s \in Seq(S), s # <<>>, IsInjective(s)
    PROVE  IsInjective(Tail(s)) /\ Head(s) \notin Range(Tail(s))
<1>1. /\ Len(s) \in Nat \ {0} /\ DOMAIN s = 1..Len(s)
      /\ Tail(s) \in Seq(S) /\ DOMAIN Tail(s) = 1..(Len(s) - 1)
      /\ \A i \in 1..(Len(s) - 1) : Tail(s)[i] = s[i + 1]
      /\ Head(s) = s[1]
  BY HeadTailProperties
<1>2. \A i \in 1..(Len(s) - 1) : i + 1 \in DOMAIN s /\ i + 1 # 1
  BY <1>1
<1>3. Head(s) \notin Range(Tail(s))
  BY <1>1, <1>2 DEF IsInjective, Range
<1>4. ASSUME NEW i \in DOMAIN Tail(s), NEW j \in DOMAIN Tail(s), Tail(s)[i] = Tail(s)[j] PROVE i = j
  <2>1. i + 1 = j + 1
    BY <1>1, <1>2, <1>4 DEF IsInjective
  <2> QED  BY <1>1, <2>1
<1> QED  BY <1>3, <1>4 DEF IsInjective

LEMMA TypesTail ==
    ASSUME NEW S, NEW s \in Seq(S), s # <<>>, TypesDiffer(s)
    PROVE  TypesDiffer(Tail(s)) /\ \A t \in Range(Tail(s)) : t.type # Head(s).type
<1>1. /\ Len(s) \in Nat \ {0} /\ Len(Tail(s)) = Len(s) - 1
      /\ Tail(s) \in Seq(S) /\ DOMAIN Tail(s) = 1..(Len(s) - 1)
      /\ \A i \in 1..(Len(s) - 1) : Tail(s)[i] = s[i + 1]
      /\ Head(s) = s[1]
  BY HeadTailProperties
<1>2. \A i \in 1..(Len(s) - 1) : i + 1 \in 1..Len(s) /\ i + 1 # 1
  BY <1>1
<1>3. \A t \in Range(Tail(s)) : t.type # Head(s).type
  <2>1. 1 \in 1..Len(s)
    BY <1>1
  <2> QED  BY <1>1, <1>2, <2>1 DEF TypesDiffer, Range
<1>4. ASSUME NEW i \in 1..Len(Tail(s)), NEW j \in 1..Len(Tail(s)), Tail(s)[i].type = Tail(s)[j].type
      PROVE  i = j
  <2>1. i + 1 = j + 1
    BY <1>1, <1>2, <1>4 DEF TypesDiffer
  <2> QED  BY <1>1, <2>1
<1> QED  BY <1>3, <1>4 DEF TypesDiffer

\* Partitions whose keys differ are as many as their keys.
LEMMA KeysCardinality ==
    ASSUME NEW P, NEW ps \in Seq(P), KeysDiffer(ps)
    PROVE  Cardinality(Keys(ps)) = Len(ps)
<1> DEFINE f == [i \in 1..Len(ps) |-> <<ps[i].type, ps[i].ns>>]
<1>1. Len(ps) \in Nat /\ DOMAIN ps = 1..Len(ps)
  OBVIOUS
<1>2. f \in [1..Len(ps) -> Keys(ps)]
  BY <1>1 DEF Keys, Range
<1>3. \A i \in 1..Len(ps) : f[i] = <<ps[i].type, ps[i].ns>>
  OBVIOUS
<1>4. ASSUME NEW k \in Keys(ps) PROVE \E i \in 1..Len(ps) : f[i] = k
  BY <1>1, <1>4 DEF Keys, Range
<1> HIDE DEF f
<1>5. \A i, j \in 1..Len(ps) : f[i] = f[j] => i = j
  BY <1>3 DEF KeysDiffer
<1>6. f \in Bijection(1..Len(ps), Keys(ps))
  BY <1>2, <1>4, <1>5 DEF Bijection, Injection, Surjection, IsInjective
<1>7. IsFiniteSet(1..Len(ps)) /\ Cardinality(1..Len(ps)) = Len(ps)
  BY <1>1, FS_Interval
<1> QED  BY <1>6, <1>7, FS_Bijection DEF ExistsBijection

\* A step that reports nothing, and one that ends the run without a commit.
LEMMA SameAnswered ==
    ASSUME Answered, UNCHANGED <<scope, excluded, nsTodo, typeTodo, partitions, committed>>,
           pc' \in {pc, "abort", "failed"}
    PROVE  Answered'
<1>1. Answerable' = Answerable /\ AllSourceKeys' = AllSourceKeys
  BY DEF Answerable, AllSourceKeys
<1>2. AllTypeKeys' = AllTypeKeys /\ \A t : TypeKeys(t)' = TypeKeys(t)
  BY DEF AllTypeKeys, TypeKeys
<1>3. CASE pc' = pc
  <2>1. AtSources => AtSources'
    BY <1>1 DEF AtSources
  <2>2. AtTypes => AtTypes'
    BY <1>1, <1>2 DEF AtTypes
  <2>3. ExactlyOnePartitionEach => ExactlyOnePartitionEach'
    BY <1>1, <1>3 DEF ExactlyOnePartitionEach
  <2> QED  BY <1>1, <1>3, <2>1, <2>2, <2>3 DEF Answered
<1>4. CASE pc' \in {"abort", "failed"}
  BY <1>4 DEF Answered, ExactlyOnePartitionEach
<1> QED  BY <1>3, <1>4

\* Up to the namespaces there are none; what is excluded is not in scope.
LEMMA EarlyAnswered ==
    ASSUME Answered, pc \in {"open", "namespaces", "cluster", "push_ns"},
           pc' \in {"open", "namespaces", "cluster", "push_ns"}, UNCHANGED partitions,
           Range(excluded') \intersect Range(scope') = {}
    PROVE  Answered'
BY DEF Answered, ExactlyOnePartitionEach

LEMMA PushListedNamespaceAnswers == ASSUME IInv, Answered, PushListedNamespace PROVE Answered'
<1>1. /\ pc = "push_ns" /\ pc' = "push_ns" /\ UNCHANGED <<partitions, scope>> /\ nsTodo # <<>>
      /\ \/ excluded' = excluded
         \/ Head(nsTodo) \notin Range(scope) /\ excluded' = Append(excluded, Head(nsTodo))
  BY DEF PushListedNamespace
<1>2. excluded \in Seq(Names) /\ Head(nsTodo) \in Names
  BY <1>1, RangeTail DEF IInv, TypeOK
<1>3. \/ excluded' = excluded
      \/ Head(nsTodo) \notin Range(scope) /\ Range(excluded') = Range(excluded) \union {Head(nsTodo)}
  BY <1>1, <1>2, RangeAppend
<1>4. Range(excluded') \intersect Range(scope') = {}
  BY <1>1, <1>3 DEF Answered
<1> QED  BY <1>1, <1>4, EarlyAnswered

LEMMA NamespacesPushedAnswers == ASSUME IInv, Answered, NamespacesPushed PROVE Answered'
<1> DEFINE p == Partition("namespace", NoNs, NamespaceStatus)
<1>1. /\ pc = "push_ns" /\ pc' = "sources" /\ nsTodo' = scope /\ UNCHANGED <<scope, excluded>>
      /\ partitions' = Append(partitions, p)
  BY DEF NamespacesPushed, scoping
<1>2. partitions' = <<p>>
  BY <1>1 DEF Answered
<1>3. p.type = "namespace" /\ p.ns = NoNs
  BY DEF Partition
<1> HIDE DEF p
<1>4. Keys(partitions') = {NamespaceKey} /\ KeysDiffer(partitions')
  BY <1>2, <1>3 DEF Keys, KeysDiffer, Range, NamespaceKey
<1>5. \A n : NamespaceKey \notin SourceKeys(n)
  BY TypesAssumption DEF NamespaceKey, SourceKeys
<1>6. AtSources'
  BY <1>1, <1>4, <1>5 DEF AtSources
<1> QED  BY <1>1, <1>6 DEF Answered, ExactlyOnePartitionEach

LEMMA ReadSourcesAnswers == ASSUME IInv, Answered, ReadSources PROVE Answered'
<1> DEFINE n == Head(nsTodo)
<1>0. /\ pc = "sources" /\ pc' = "sources" /\ nsTodo # <<>> /\ nsTodo' = Tail(nsTodo)
      /\ UNCHANGED <<scope, excluded>> /\ AtSources
  BY DEF ReadSources, scoping, Answered
<1>1. PICK status \in [1..Len(SourceTypes) -> Outcomes] :
          partitions' = partitions \o [i \in 1..Len(SourceTypes) |-> Partition(SourceTypes[i], n, status[i])]
  BY DEF ReadSources
<1> DEFINE more == [i \in 1..Len(SourceTypes) |-> Partition(SourceTypes[i], n, status[i])]
<1>2. more \in Seq(Range(more)) /\ Keys(more) = SourceKeys(n) /\ KeysDiffer(more)
  BY SourceKeysAre
<1>3. partitions \in Seq(Partitions) /\ partitions' = partitions \o more
  BY <1>1 DEF IInv, TypeOK
<1>4. /\ nsTodo \in Seq(Names) /\ Range(nsTodo) = {n} \union Range(nsTodo') /\ n \in Range(scope)
  BY <1>0, RangeTail DEF IInv, TypeOK, Scoped
<1>5. IsInjective(nsTodo) => IsInjective(nsTodo') /\ n \notin Range(nsTodo')
  BY <1>0, <1>4, InjectiveTail
<1> HIDE DEF more, n
<1>6. /\ Keys(partitions') = Keys(partitions) \union SourceKeys(n)
      /\ KeysDiffer(partitions) /\ Keys(partitions) \intersect SourceKeys(n) = {} => KeysDiffer(partitions')
  BY <1>2, <1>3, MoreKeys
<1>7. SourceKeys(n) \subseteq AllSourceKeys
  BY <1>4 DEF SourceKeys, AllSourceKeys
<1>8. \A m : m # n => SourceKeys(m) \intersect SourceKeys(n) = {}
  BY DEF SourceKeys
<1>9. AllSourceKeys' = AllSourceKeys /\ scope' = scope
  BY <1>0 DEF AllSourceKeys
<1>10. ASSUME IsInjective(scope)
       PROVE  KeysDiffer(partitions') /\ IsInjective(nsTodo')
              /\ \A m \in Range(nsTodo') : SourceKeys(m) \intersect Keys(partitions') = {}
  BY <1>0, <1>4, <1>5, <1>6, <1>8, <1>10 DEF AtSources
<1>11. AtSources'
  BY <1>0, <1>4, <1>6, <1>7, <1>9, <1>10 DEF AtSources
<1> QED  BY <1>0, <1>11 DEF Answered, ExactlyOnePartitionEach

\* What a type is listed in has no key of another, nor of what came before.
LEMMA TypeKeysApart ==
    ASSUME NEW t \in Range(Types)
    PROVE  /\ NamespaceKey \notin TypeKeys(t) /\ TypeKeys(t) \intersect AllSourceKeys = {}
           /\ \A u : u.type # t.type => TypeKeys(u) \intersect TypeKeys(t) = {}
BY TypesAssumption DEF NamespaceKey, TypeKeys, AllSourceKeys

LEMMA SourcesReadAnswers == ASSUME IInv, Answered, SourcesRead PROVE Answered'
<1>0. /\ pc = "sources" /\ pc' = "types" /\ nsTodo = <<>> /\ typeTodo' = Types
      /\ UNCHANGED <<scope, excluded, partitions>> /\ AtSources
  BY DEF SourcesRead, StartListing, scoping, Answered
<1>1. AllSourceKeys \subseteq Keys(partitions)
  <2>1. \A n \in Range(scope) : SourceKeys(n) \subseteq Keys(partitions)
    BY <1>0, RangeEmpty DEF AtSources
  <2> QED  BY <2>1 DEF AllSourceKeys, SourceKeys
<1>2. /\ Keys(partitions) = {NamespaceKey} \union AllSourceKeys
      /\ IsInjective(scope) => KeysDiffer(partitions)
  BY <1>0, <1>1 DEF AtSources
<1>3. \A t \in Range(Types) : TypeKeys(t) \intersect Keys(partitions) = {}
  BY <1>2, TypeKeysApart
<1>4. TypesDiffer(Types)
  BY TypesAssumption DEF TypesDiffer
<1>5. AllSourceKeys' = AllSourceKeys /\ \A t : TypeKeys(t)' = TypeKeys(t)
  BY <1>0 DEF AllSourceKeys, TypeKeys
<1>6. AtTypes'
  BY <1>0, <1>2, <1>3, <1>4, <1>5 DEF AtTypes
<1> QED  BY <1>0, <1>6 DEF Answered, ExactlyOnePartitionEach

LEMMA TypeListedAnswers == ASSUME IInv, Answered, TypeListed PROVE Answered'
<1> DEFINE type == Head(typeTodo)
<1>0. /\ pc = "types" /\ pc' = "types" /\ typeTodo # <<>> /\ typeTodo' = Tail(typeTodo)
      /\ UNCHANGED <<scope, excluded>> /\ AtTypes
  BY DEF TypeListed, StartListing, scoping, Answered
<1>1. PICK status \in [DOMAIN ListedScopes -> Outcomes] :
          partitions' = partitions \o
              [i \in DOMAIN ListedScopes |-> Partition(type.type, ListedScopes[i], status[i])]
  BY DEF TypeListed
<1> DEFINE more == [i \in DOMAIN ListedScopes |-> Partition(type.type, ListedScopes[i], status[i])]
<1>2. ListedScopes \in Seq(Names \union {NoNs})
  BY ListedScopesIs
<1>3. /\ more \in Seq(Range(more)) /\ Keys(more) = {type.type} \X Range(ListedScopes)
      /\ IsInjective(ListedScopes) => KeysDiffer(more)
  BY <1>2, TypeKeysAre
<1>4. Keys(more) = TypeKeys(type)
  <2>1. Range(<<NoNs>>) = {NoNs}
    BY DEF Range
  <2>2. Range(ListedScopes) = IF type.namespaced THEN Range(scope) ELSE {NoNs}
    BY <2>1 DEF ListedScopes
  <2> QED  BY <1>3, <2>2 DEF TypeKeys
<1>5. IsInjective(scope) => KeysDiffer(more)
  <2>1. IsInjective(<<NoNs>>)
    BY DEF IsInjective
  <2> QED  BY <1>3, <2>1 DEF ListedScopes
<1>6. partitions \in Seq(Partitions) /\ partitions' = partitions \o more
  BY <1>1 DEF IInv, TypeOK
<1>7. /\ typeTodo \in Seq(Range(Types)) /\ type \in Range(Types) /\ type \in Range(typeTodo)
      /\ Range(typeTodo) = {type} \union Range(typeTodo')
  BY <1>0, RangeTail DEF IInv, TypeOK
<1>8. TypesDiffer(typeTodo') /\ \A t \in Range(typeTodo') : t.type # type.type
  BY <1>0, <1>7, TypesTail DEF AtTypes
<1> HIDE DEF more, type
<1>9. /\ Keys(partitions') = Keys(partitions) \union TypeKeys(type)
      /\ KeysDiffer(partitions) /\ KeysDiffer(more) /\ Keys(partitions) \intersect TypeKeys(type) = {}
            => KeysDiffer(partitions')
  BY <1>3, <1>4, <1>6, MoreKeys
<1>10. TypeKeys(type) \subseteq AllTypeKeys
  BY <1>7 DEF AllTypeKeys
<1>11. AllSourceKeys' = AllSourceKeys /\ AllTypeKeys' = AllTypeKeys /\ \A t : TypeKeys(t)' = TypeKeys(t)
  BY <1>0 DEF AllSourceKeys, AllTypeKeys, TypeKeys
<1>12. \A t \in Range(typeTodo') : TypeKeys(t) \intersect Keys(partitions') = {}
  BY <1>0, <1>7, <1>8, <1>9, TypeKeysApart DEF AtTypes
<1>13. IsInjective(scope) => KeysDiffer(partitions')
  BY <1>0, <1>5, <1>7, <1>9 DEF AtTypes
<1>14. \A t \in Range(Types) : t \in Range(typeTodo') \/ TypeKeys(t) \subseteq Keys(partitions')
  BY <1>0, <1>7, <1>9 DEF AtTypes
<1>15. /\ {NamespaceKey} \union AllSourceKeys \subseteq Keys(partitions')
       /\ Keys(partitions') \subseteq {NamespaceKey} \union AllSourceKeys \union AllTypeKeys
  BY <1>0, <1>9, <1>10 DEF AtTypes
<1>16. AtTypes'
  BY <1>0, <1>8, <1>11, <1>12, <1>13, <1>14, <1>15 DEF AtTypes
<1> QED  BY <1>0, <1>16 DEF Answered, ExactlyOnePartitionEach

\* What was listed and what was left out together are what is to be answered.
LEMMA AnswerableIs ==
    Answerable = {NamespaceKey} \union AllSourceKeys \union AllTypeKeys
                 \union (ExcludedTypes \X Range(excluded))
<1> DEFINE N == {u \in Range(Types) : u.namespaced}
           A == {t.type : t \in N}
           C == {<<t.type, NoNs>> : t \in {u \in Range(Types) : ~u.namespaced}}
<1>1. AllTypeKeys = C \union (A \X Range(scope))
  <2>1. ASSUME NEW k \in AllTypeKeys PROVE k \in C \union (A \X Range(scope))
    <3>1. PICK t \in Range(Types) : k \in TypeKeys(t)
      BY <2>1 DEF AllTypeKeys
    <3>2. CASE t.namespaced
      BY <3>1, <3>2 DEF TypeKeys
    <3>3. CASE ~t.namespaced
      BY <3>1, <3>3 DEF TypeKeys
    <3> QED  BY <3>2, <3>3
  <2>2. ASSUME NEW k \in C PROVE k \in AllTypeKeys
    <3>1. PICK t \in Range(Types) : ~t.namespaced /\ k = <<t.type, NoNs>>
      BY <2>2
    <3>2. k \in TypeKeys(t)
      BY <3>1 DEF TypeKeys
    <3> QED  BY <3>2 DEF AllTypeKeys
  <2>3. ASSUME NEW k \in A \X Range(scope) PROVE k \in AllTypeKeys
    <3>1. PICK t \in N : k[1] = t.type
      BY <2>3
    <3>2. k \in TypeKeys(t)
      BY <2>3, <3>1 DEF TypeKeys
    <3> QED  BY <3>1, <3>2 DEF AllTypeKeys
  <2> QED  BY <2>1, <2>2, <2>3
<1>2. ExcludedTypes = A \union Range(SourceTypes)
  BY DEF ExcludedTypes
<1>3. Answerable = {NamespaceKey} \union C
                   \union ((A \union Range(SourceTypes)) \X (Range(scope) \union Range(excluded)))
  BY DEF Answerable, NamespaceKey
<1> HIDE DEF A, C
<1> QED  BY <1>1, <1>2, <1>3 DEF AllSourceKeys

LEMMA AllListedAnswers == ASSUME IInv, Answered, AllListed PROVE Answered'
<1> DEFINE S == {Partition(t, n, "excluded") : t \in ExcludedTypes, n \in Range(excluded)}
           more == SetToSeq(S)
<1>0. /\ pc = "types" /\ pc' = "flush" /\ typeTodo = <<>> /\ partitions' = partitions \o more
      /\ UNCHANGED <<scope, excluded>> /\ AtTypes
  BY DEF AllListed, scoping, Answered
<1>1. more \in Seq(Partitions) /\ Range(more) = S /\ IsInjective(more)
  BY ExcludedPartitions
<1> HIDE DEF more
<1>2. Keys(more) = ExcludedTypes \X Range(excluded)
  <2>1. ASSUME NEW k \in Keys(more) PROVE k \in ExcludedTypes \X Range(excluded)
    BY <1>1, <2>1 DEF Keys, Partition
  <2>2. ASSUME NEW t \in ExcludedTypes, NEW n \in Range(excluded) PROVE <<t, n>> \in Keys(more)
    <3>1. Partition(t, n, "excluded") \in Range(more)
      BY <1>1
    <3> QED  BY <3>1 DEF Keys, Partition
  <2> QED  BY <2>1, <2>2
<1>3. KeysDiffer(more)
  <2>1. DOMAIN more = 1..Len(more)
    BY <1>1
  <2>2. ASSUME NEW i \in DOMAIN more PROVE more[i] = Partition(more[i].type, more[i].ns, "excluded")
    <3>0. more[i] \in Range(more)
      BY <2>2 DEF Range
    <3>1. more[i] \in S
      BY <1>1, <3>0
    <3>2. PICK t \in ExcludedTypes, n \in Range(excluded) : more[i] = Partition(t, n, "excluded")
      BY <3>1
    <3> QED  BY <3>2 DEF Partition
  <2> QED  BY <1>1, <2>1, <2>2 DEF KeysDiffer, IsInjective
<1> HIDE DEF S
<1>4. partitions \in Seq(Partitions)
  BY DEF IInv, TypeOK
<1>5. /\ Keys(partitions') = Keys(partitions) \union Keys(more)
      /\ KeysDiffer(partitions) /\ KeysDiffer(more) /\ Keys(partitions) \intersect Keys(more) = {}
            => KeysDiffer(partitions')
  BY <1>0, <1>1, <1>4, KeysOfConcat
<1>6. AllTypeKeys \subseteq Keys(partitions)
  BY <1>0, RangeEmpty DEF AtTypes, AllTypeKeys
<1>7. Keys(partitions) = {NamespaceKey} \union AllSourceKeys \union AllTypeKeys
  BY <1>0, <1>6 DEF AtTypes
<1>8. \A k \in Keys(partitions) : k[2] \in Range(scope) \union {NoNs}
  BY <1>7 DEF NamespaceKey, AllSourceKeys, AllTypeKeys, TypeKeys
<1>9. \A k \in Keys(more) : k[2] \notin Range(scope) \union {NoNs}
  <2>1. NoNs \notin Range(excluded) /\ Range(excluded) \intersect Range(scope) = {}
    BY RangeType, NamesAssumption DEF IInv, TypeOK, Answered
  <2> QED  BY <1>2, <2>1
<1>10. IsInjective(scope) => KeysDiffer(partitions')
  BY <1>0, <1>3, <1>5, <1>8, <1>9 DEF AtTypes
<1>11. Keys(partitions') = Answerable
  BY <1>2, <1>5, <1>7, AnswerableIs
<1>12. Answerable' = Answerable
  BY <1>0 DEF Answerable
<1> QED  BY <1>0, <1>10, <1>11, <1>12 DEF Answered, ExactlyOnePartitionEach

LEMMA CommitAnswers == ASSUME IInv, Answered, Commit PROVE Answered'
<1>0. /\ pc = "commit" /\ pc' = "done" /\ committed' = CommitBody /\ UNCHANGED <<scope, excluded>>
      /\ Keys(partitions) = Answerable /\ (IsInjective(scope) => KeysDiffer(partitions))
  BY DEF Commit, Sweep, scoping, Answered
<1>1. partitions \in Seq(Partitions) /\ DOMAIN partitions = 1..Len(partitions)
  BY DEF IInv, TypeOK
<1>2. /\ CommitBody \in Seq(Partitions) /\ DOMAIN CommitBody = DOMAIN partitions
      /\ Len(CommitBody) = Len(partitions)
  <2>1. CommitBody \in Seq(Partitions) /\ DOMAIN CommitBody = DOMAIN partitions
    BY CommitBodyIs DEF CommitBody
  <2>2. DOMAIN CommitBody = 1..Len(CommitBody) /\ Len(CommitBody) \in Nat /\ Len(partitions) \in Nat
    BY <1>1, <2>1
  <2> QED  BY <1>1, <2>1, <2>2
<1>3. \A i \in DOMAIN partitions :
          CommitBody[i].type = partitions[i].type /\ CommitBody[i].ns = partitions[i].ns
  <2> TAKE i \in DOMAIN partitions
  <2>1. partitions[i] \in Partitions
    BY <1>1
  <2> QED  BY <2>1 DEF CommitBody, Partitions
<1>4. Keys(CommitBody) = Keys(partitions)
  BY <1>2, <1>3 DEF Keys, Range
<1>5. IsInjective(scope) => Len(partitions) = Cardinality(Keys(partitions))
  BY <1>0, <1>1, KeysCardinality
<1>6. Keys(CommitBody) = {<<p.type, p.ns>> : p \in Range(CommitBody)} /\ Answerable' = Answerable
  BY <1>0 DEF Keys, Answerable
<1>7. ExactlyOnePartitionEach'
  BY <1>0, <1>2, <1>4, <1>5, <1>6 DEF ExactlyOnePartitionEach
<1> QED  BY <1>0, <1>7 DEF Answered

LEMMA AnsweredStep == IInv /\ Answered /\ [Next]_vars => Answered'
<1> SUFFICES ASSUME IInv, Answered, [Next]_vars PROVE Answered'
  OBVIOUS
<1>1. CASE OpenSync \/ ListNamespaces \/ PushCluster \/ PushNamedNamespace
  <2>1. /\ pc \in {"open", "namespaces", "cluster", "push_ns"}
        /\ pc' \in {"open", "namespaces", "cluster", "push_ns"}
        /\ UNCHANGED <<partitions, excluded>>
    BY <1>1 DEF OpenSync, ListNamespaces, PushCluster, PushNamedNamespace, scoping
  <2>2. UNCHANGED scope \/ excluded = <<>>
    BY <1>1 DEF OpenSync, ListNamespaces, PushCluster, PushNamedNamespace, scoping, IInv, Stages
  <2>3. Range(excluded') \intersect Range(scope') = {}
    BY <2>1, <2>2, RangeEmpty DEF Answered
  <2> QED  BY <2>1, <2>3, EarlyAnswered
<1>2. CASE OpenFails \/ PushObject \/ Abort
  <2>1. /\ UNCHANGED <<scope, excluded, nsTodo, typeTodo, partitions>>
        /\ pc' \in {pc, "abort", "failed"}
    BY <1>2 DEF OpenFails, PushObject, Abort, scoping, loop
  <2>2. UNCHANGED committed
    BY <1>2 DEF OpenFails, PushObject, Abort, Add, FlushOk, storage, platform
  <2> QED  BY <2>1, <2>2, SameAnswered
<1>3. CASE RunFails \/ CommitFails
  BY <1>3 DEF RunFails, CommitFails, Raise, scoping, Answered, ExactlyOnePartitionEach
<1>4. CASE FinalFlush
  <2>1. /\ pc = "flush" /\ pc' = "commit" /\ UNCHANGED <<scope, excluded, partitions>>
    BY <1>4 DEF FinalFlush, scoping
  <2> QED  BY <2>1 DEF Answered, Answerable, ExactlyOnePartitionEach
<1>5. CASE \E o \in Items \ {Root} : Create(o) \/ Delete(o)
  <2>1. UNCHANGED <<scope, excluded, nsTodo, typeTodo, partitions, committed, pc>>
    BY <1>5 DEF Create, Delete, Change, scoping, platform
  <2> QED  BY <2>1, SameAnswered
<1>6. CASE UNCHANGED vars
  <2>1. UNCHANGED <<scope, excluded, nsTodo, typeTodo, partitions, committed, pc>>
    BY <1>6 DEF vars, scoping, loop, platform
  <2> QED  BY <2>1, SameAnswered
<1> QED
  BY <1>1, <1>2, <1>3, <1>4, <1>5, <1>6, PushListedNamespaceAnswers, NamespacesPushedAnswers,
     ReadSourcesAnswers, SourcesReadAnswers, TypeListedAnswers, AllListedAnswers, CommitAnswers
  DEF Next, Discovery

\* A run that finishes has committed one partition for every type and scope it
\* answers for, and no other: with any types, input, namespaces and failures.
THEOREM PartitionsAreOnce == Spec => []ExactlyOnePartitionEach
<1>1. Init => Answered
  BY RangeEmpty DEF Init, Answered, ExactlyOnePartitionEach
<1>2. Answered => ExactlyOnePartitionEach
  BY DEF Answered
<1> QED  BY <1>1, <1>2, AnsweredStep, Invariance, PTL DEF Spec
=============================================================================
