------------------------------ MODULE Paginate ------------------------------
(***************************************************************************)
(* rwdiscovery/paginate.py: the streaming listing of ONE resource type,    *)
(* followed page by page while the cluster keeps changing under it.        *)
(*                                                                         *)
(* list_resource() turns a type into PageEvents and PartitionEvents:       *)
(*   - a cluster-scoped type is one listing, reported for the cluster;     *)
(*   - a namespaced type is listed cluster-wide, its objects sorted into   *)
(*     the in-scope namespaces, and reported once per in-scope namespace;  *)
(*   - a 403 anywhere in the cluster-wide listing starts over with one     *)
(*     listing per in-scope namespace.                                     *)
(* Every listing goes through iter_pages(): limit/continue, and up to      *)
(* MaxRecoveries recoveries from a 410 on an expired token.                *)
(*                                                                         *)
(* The API server is external: a listing without a token reads what is     *)
(* live now, a continue token names the snapshot the listing started from  *)
(* and the last key returned, and an inconsistent token (offered with the  *)
(* 410) continues after the same key in what is live when it is used.      *)
(***************************************************************************)
EXTENDS Integers, Sequences, FiniteSets, Functions

CONSTANTS
    Keys,           \* the objects of the type, as positions in key order
    Namespaces,     \* the namespaces of the cluster
    NsOf,           \* NsOf[k] is the namespace of key k, if the type has one
    NoNs,           \* Partition.namespace = None: the cluster itself
    Requested,      \* the in-scope lists list_resource may be called with
    PageLimit,      \* PAGE_LIMIT
    MaxRecoveries   \* MAX_EXPIRED_CONTINUE_RECOVERIES

ASSUME KeysAssumption == Keys \subseteq Nat \ {0} /\ IsFiniteSet(Keys)
ASSUME NsAssumption == NsOf \in [Keys -> Namespaces] /\ NoNs \notin Namespaces
ASSUME RequestAssumption == Requested \subseteq Seq(Namespaces)
ASSUME LimitAssumption == PageLimit \in Nat \ {0} /\ MaxRecoveries \in Nat

VARIABLES
    live,           \* the objects that exist in the cluster now
    namespaced,     \* ApiResource.namespaced
    onRestart,      \* iter_pages was given an on_restart callback
    scope,          \* in_scope_namespaces (<<NoNs>> for a cluster-scoped type)
    mode,           \* which listing is running: "wide", "single", or none:
                    \* "done" or, after an exception, "raised"
    todo,           \* the namespaces of the per-namespace listings still to do
    token,          \* continue_token
    recoveries,     \* recoveries
    counts,         \* counts / count
    parts,          \* the PartitionEvents yielded so far
    fresh,          \* history: keys yielded since this listing (re)started
    steady          \* history: keys live ever since this listing (re)started

client == <<namespaced, onRestart, scope, mode, todo, token, recoveries, counts, parts, fresh>>
vars == <<live, client, steady>>

Scopes == Namespaces \union {NoNs}
Statuses == {"complete", "forbidden", "failed"}

\* continue_token: none, the server's (a snapshot and the last key returned),
\* or the inconsistent one that came with a 410 (the last key only).
NoToken == [kind |-> "none", snap |-> {}, after |-> 0]
Exact(snap, after) == [kind |-> "exact", snap |-> snap, after |-> after]
Resume(after) == [kind |-> "fresh", snap |-> {}, after |-> after]
Tokens == [kind : {"none", "exact", "fresh"}, snap : SUBSET Keys, after : Nat]

Listing == mode \in {"wide", "single"}
Where(k) == IF namespaced THEN NsOf[k] ELSE NoNs

\* The keys under the path being listed, and those of them kept.
Asked == IF mode = "single" THEN {k \in Keys : Where(k) = Head(todo)} ELSE Keys
Wanted == {k \in Asked : Where(k) \in Range(scope)}

\* The API server: what the listing is read from, what is left of it after
\* the token, and the page that ends with a given key.
Snapshot == (IF token.kind = "exact" THEN token.snap ELSE live) \intersect Asked
Rest == {k \in Snapshot : k > token.after}
Upto(last) == {k \in Rest : k <= last}

Zero == [n \in Scopes |-> 0]
InNs(S, n) == {k \in S : Where(k) = n}

\* The keys yielded and the counters once a page has been yielded too.
Yielded(page) == fresh \union (page \intersect Wanted)
Counted(page) == [n \in Scopes |-> counts[n] + Cardinality(InNs(page \intersect Wanted, n))]

\* A pass over the keys starts from the beginning.
StartPass ==
    /\ token' = NoToken
    /\ fresh' = {}
    /\ steady' = live

-----------------------------------------------------------------------------
\* list_resource is called for a namespaced type, or for one that is not; or
\* _list_best_effort is, for one namespace or for the cluster.
ListResource ==
    /\ onRestart
    /\ \/ namespaced /\ scope \in Requested /\ mode = "wide" /\ todo = <<>>
       \/ ~namespaced /\ scope = <<NoNs>> /\ mode = "single" /\ todo = scope
ListBestEffort ==
    /\ ~onRestart
    /\ \E n \in Scopes : (n # NoNs <=> namespaced) /\ scope = <<n>>
    /\ mode = "single" /\ todo = scope

Init ==
    /\ live \in SUBSET Keys
    /\ namespaced \in BOOLEAN
    /\ onRestart \in BOOLEAN
    /\ ListResource \/ ListBestEffort
    /\ token = NoToken
    /\ recoveries = 0
    /\ counts = Zero
    /\ parts = <<>>
    /\ fresh = {}
    /\ steady = live

\* The partitions the running listing answers for, and the event for each.
\* `distinct` and `missed` are history: what the count stands for, and the
\* objects that were there all along and were not yielded.
Claimed == IF mode = "wide" THEN scope ELSE <<Head(todo)>>
PartitionEvent(n, status, page) ==
    [namespace |-> n, status |-> status,
     count |-> IF status = "complete" THEN Counted(page)[n] ELSE 0,
     distinct |-> InNs(Yielded(page), n),
     missed |-> InNs(steady, n) \ Yielded(page)]

\* Mutant: the fallback forgets the first namespace of the scope.
Continue_DropsFirst(remaining) ==
    /\ todo' = IF remaining = scope /\ Len(scope) > 1 THEN Tail(scope) ELSE remaining
    /\ mode' = IF remaining = <<>> THEN "done" ELSE "single"
    /\ recoveries' = 0
    /\ counts' = Zero
    /\ StartPass

\* Go on with the listings of `remaining`, one by one.
Continue(remaining) ==
    /\ todo' = remaining
    /\ mode' = IF remaining = <<>> THEN "done" ELSE "single"
    /\ recoveries' = 0
    /\ counts' = Zero
    /\ StartPass

\* The running listing ends: iter_pages returned after its last page, or raised.
Report(status, page) ==
    /\ parts' = parts \o [i \in DOMAIN Claimed |-> PartitionEvent(Claimed[i], status, page)]
    /\ Continue(IF mode = "wide" THEN <<>> ELSE Tail(todo))
    /\ UNCHANGED <<live, namespaced, onRestart, scope>>

-----------------------------------------------------------------------------
\* A page that carries a continue token.
GetPage ==
    /\ Listing
    /\ \E last \in Rest :
          /\ Upto(last) # Rest
          /\ Cardinality(Upto(last)) <= PageLimit
          /\ fresh' = Yielded(Upto(last))
          /\ counts' = Counted(Upto(last))
          /\ token' = Exact(Snapshot, last)
    /\ UNCHANGED <<live, namespaced, onRestart, scope, mode, todo, recoveries, parts, steady>>

\* A page without one: the listing is complete.
GetLastPage ==
    /\ Listing
    /\ Cardinality(Rest) <= PageLimit
    /\ Report("complete", Rest)

\* Mutants: one recovery too many, and recoveries that are not counted.
Expired_OneMore ==
    /\ Listing /\ token # NoToken
    /\ recoveries <= MaxRecoveries
    /\ recoveries' = recoveries + 1
    /\ UNCHANGED <<live, namespaced, onRestart, scope, mode, todo, parts>>
Expired_NotCounted ==
    /\ Listing /\ token # NoToken
    /\ recoveries < MaxRecoveries
    /\ UNCHANGED <<live, namespaced, onRestart, scope, mode, todo, recoveries, parts>>

\* A 410 on an expired token is recovered, with the token it carries...
Expired ==
    /\ Listing
    /\ token # NoToken
    /\ recoveries < MaxRecoveries
    /\ recoveries' = recoveries + 1
    /\ UNCHANGED <<live, namespaced, onRestart, scope, mode, todo, parts>>

ExpiredResume ==
    /\ Expired
    /\ token' = Resume(token.after)
    /\ UNCHANGED <<counts, fresh, steady>>

\* Mutant: nobody zeroes the counts.
ExpiredRestart_KeepsCounts == Expired /\ UNCHANGED counts /\ StartPass

\* ... or without one: the list starts over, and on_restart zeroes the counts
\* of the caller that gave it.
ExpiredRestart ==
    /\ Expired
    /\ counts' = IF onRestart THEN Zero ELSE counts
    /\ StartPass

\* Mutant: what has been read so far is taken for the whole.
ApiError_IsComplete == Listing /\ Report("complete", {})

\* Any other error, a 410 past the bound or without a token among them.
ApiError == Listing /\ Report("failed", {})

\* A connection error is none of K8sClient's own: it ends the generator.
ConnectionError ==
    /\ Listing /\ mode' = "raised"
    /\ UNCHANGED <<live, namespaced, onRestart, scope, todo, token, recoveries, counts, parts,
                   fresh, steady>>

\* A 403: final for a single listing, the fallback for the cluster-wide one,
\* at whichever page it comes.
ForbiddenSingle == mode = "single" /\ Report("forbidden", {})
ForbiddenWide ==
    /\ mode = "wide"
    /\ Continue(scope)
    /\ UNCHANGED <<live, namespaced, onRestart, scope, parts>>

\* The cluster changes between any two requests.
Create == \E k \in Keys \ live : live' = live \union {k} /\ UNCHANGED <<client, steady>>
Delete == \E k \in live : live' = live \ {k} /\ steady' = steady \ {k} /\ UNCHANGED client

Client == GetPage \/ GetLastPage \/ ExpiredResume \/ ExpiredRestart \/ ApiError
          \/ ForbiddenSingle \/ ForbiddenWide \/ ConnectionError
Next == Client \/ (Listing /\ (Create \/ Delete))
Spec == Init /\ [][Next]_vars

\* run_discover drains the generator, and the API server answers (get_raw has
\* no timeout of its own).
FairSpec == Spec /\ WF_vars(Client)

-----------------------------------------------------------------------------
Partitions == [namespace : Scopes, status : Statuses, count : Nat,
               distinct : SUBSET Keys, missed : SUBSET Keys]

TypeOK ==
    /\ live \subseteq Keys
    /\ namespaced \in BOOLEAN /\ onRestart \in BOOLEAN
    /\ scope \in Seq(Scopes) /\ todo \in Seq(Scopes)
    /\ mode \in {"wide", "single", "done", "raised"}
    /\ token \in Tokens
    /\ recoveries \in 0..MaxRecoveries
    /\ counts \in [Scopes -> Nat]
    /\ parts \in Seq(Partitions)
    /\ fresh \subseteq Keys /\ steady \subseteq Keys

\* A partition is reported `complete` only if every object of it that existed
\* throughout the pass that produced it was yielded -- whatever was created
\* and deleted meanwhile, and however many expired tokens were resumed. This
\* is what makes sweeping a `complete` partition safe.
CompleteIsExhaustive ==
    \A i \in DOMAIN parts : parts[i].status = "complete" => parts[i].missed = {}

\* Partitions come in the order of the scope, one for each element of it, with
\* none skipped or repeated by the fallback; a finished listing answers for
\* its whole scope. The count of one list_resource reports `complete` is the
\* number of distinct objects of its last pass: neither an inconsistent token
\* nor a restart counts an object twice, and the fallback does not keep the
\* counts of the cluster-wide attempt it replaces. A best-effort list, which
\* nobody resets, may hold an object twice but never falls short.
PartitionsAreExact ==
    LET reported == [i \in DOMAIN parts |-> parts[i].namespace]
    IN  /\ Len(parts) <= Len(scope) /\ reported = SubSeq(scope, 1, Len(parts))
        /\ mode = "done" => reported = scope
        /\ \A i \in DOMAIN parts : parts[i].status = "complete" =>
              IF onRestart THEN parts[i].count = Cardinality(parts[i].distinct)
                           ELSE parts[i].count >= Cardinality(parts[i].distinct)

\* However often tokens expire and however fast the cluster changes, the
\* listing of the type ends: the generator cannot hold up the run for ever.
ListingEnds == <>~Listing
=============================================================================
