----------------------------- MODULE Credentials -----------------------------
(***************************************************************************)
(* rwdiscovery/credentials.py: build_api_client() in one executor process  *)
(* that serves several requests, each with a scope directory of its own.   *)
(*                                                                         *)
(* A request builds a client in its `connect` task and may build another   *)
(* in `discover`. The kubernetes client library (external) writes inline   *)
(* CA, certificate and key data to temp files and remembers them, for the  *)
(* process, in a dict keyed by the data alone; the client opens the files  *)
(* whenever it connects. The task host (external) wipes a request's scope  *)
(* directory when the request has ended.                                   *)
(***************************************************************************)
EXTENDS Integers, FiniteSets

CONSTANTS
    Requests,       \* the requests this process is given
    Datas,          \* the inline data there may be in a kubeconfig
    MaxConcurrent   \* maxConcurrentPerPod

ASSUME ConcurrencyAssumption == MaxConcurrent \in Nat \ {0}
ASSUME DatasAssumption == "kubeconfig" \notin Datas

VARIABLES
    pc,             \* "new", "forget", "load", "write", "ready", "ended", "wiped"
    call,           \* how often the request has called build_api_client
    shared,         \* history: the requests that were not alone in the process
    needs,          \* the inline data of the request's kubeconfig
    snapshot,       \* list(_temp_files.items()) still to be looked at
    todo,           \* the data load_kube_config has still to turn into files
    client,         \* the client's files, as pairs <<data, file>>
    cache,          \* _temp_files, as pairs <<data, file>>
    files,          \* the files that exist
    blank           \* those of them nothing has been written to yet

vars == <<pc, call, shared, needs, snapshot, todo, client, cache, files, blank>>

\* The raw kubeconfig, and the copy of some inline data, of a request's call.
Raw(r) == [dir |-> r, call |-> call[r], data |-> "kubeconfig"]
\* (Mutant: temp_file_path is not given, and the copy lands elsewhere.)
Copy_Elsewhere(r, d) == [dir |-> "tmp", call |-> call[r], data |-> d]
Copy(r, d) == [dir |-> r, call |-> call[r], data |-> d]
Active == {r \in Requests : pc[r] \notin {"new", "ended", "wiped"}}
Keys(C) == {e[1] : e \in C}

Goto(r, from, to) == pc[r] = from /\ pc' = [pc EXCEPT ![r] = to]

-----------------------------------------------------------------------------
Init ==
    /\ pc = [r \in Requests |-> "new"]
    /\ call = [r \in Requests |-> 0]
    /\ shared = {}
    /\ needs \in [Requests -> SUBSET Datas]
    /\ snapshot = [r \in Requests |-> {}]
    /\ todo = [r \in Requests |-> {}]
    /\ client = [r \in Requests |-> {}]
    /\ cache = {} /\ files = {} /\ blank = {}

\* The raw kubeconfig is written, and list(_temp_files.items()) taken.
Build(r) ==
    /\ \/ Goto(r, "new", "forget") /\ Cardinality(Active) < MaxConcurrent
       \/ Goto(r, "ready", "forget") /\ call[r] < 2
    /\ call' = [call EXCEPT ![r] = @ + 1]
    /\ shared' = IF Active' = {r} THEN shared ELSE shared \union Active'
    /\ files' = files \union {Raw(r)'}
    /\ client' = [client EXCEPT ![r] = {}]
    /\ snapshot' = [snapshot EXCEPT ![r] = cache]
    /\ UNCHANGED <<needs, todo, cache, blank>>

\* _require_known_context raises, before anything is written.
UnknownContext(r) ==
    /\ Goto(r, "new", "ended") /\ Cardinality(Active) < MaxConcurrent
    /\ UNCHANGED <<call, shared, needs, snapshot, todo, client, cache, files, blank>>

\* Mutant: no entry is forgotten.
Forget_Nothing(r) ==
    /\ pc[r] = "forget"
    /\ \E e \in snapshot[r] : snapshot' = [snapshot EXCEPT ![r] = @ \ {e}]
    /\ UNCHANGED <<pc, call, shared, needs, todo, client, cache, files, blank>>

\* _forget_foreign_temp_files, one entry of the list: if its file is another
\* directory's, its key goes, whatever the dict holds under it by now.
Forget(r) ==
    /\ pc[r] = "forget"
    /\ \E e \in snapshot[r] :
          /\ snapshot' = [snapshot EXCEPT ![r] = @ \ {e}]
          /\ cache' = IF e[2].dir # r THEN {c \in cache : c[1] # e[1]} ELSE cache
    /\ UNCHANGED <<pc, call, shared, needs, todo, client, files, blank>>

Forgotten(r) ==
    /\ snapshot[r] = {} /\ Goto(r, "forget", "load")
    /\ todo' = [todo EXCEPT ![r] = needs[r]]
    /\ UNCHANGED <<call, shared, needs, snapshot, client, cache, files, blank>>

-----------------------------------------------------------------------------
(* load_kube_config (external): for each inline data, the remembered file  *)
(* if there is one -- which must exist -- or a new one in temp_file_path.  *)
Reuse(r) ==
    /\ pc[r] = "load"
    /\ \E e \in cache :
          /\ e[1] \in todo[r] /\ e[2] \in files
          /\ client' = [client EXCEPT ![r] = @ \union {e}]
          /\ todo' = [todo EXCEPT ![r] = @ \ {e[1]}]
    /\ UNCHANGED <<pc, call, shared, needs, snapshot, cache, files, blank>>

NewFile(r) ==
    /\ Goto(r, "load", "write")
    /\ \E d \in todo[r] \ Keys(cache) :
          /\ client' = [client EXCEPT ![r] = @ \union {<<d, Copy(r, d)>>}]
          /\ todo' = [todo EXCEPT ![r] = @ \ {d}]
          /\ cache' = cache \union {<<d, Copy(r, d)>>}
          /\ files' = files \union {Copy(r, d)}
          /\ blank' = blank \union {Copy(r, d)}
    /\ UNCHANGED <<call, shared, needs, snapshot>>

WriteFile(r) ==
    /\ Goto(r, "write", "load")
    /\ blank' = {f \in blank : f.dir # r}
    /\ UNCHANGED <<call, shared, needs, snapshot, todo, client, cache, files>>

\* The client is returned; the finally block removes the raw kubeconfig.
Loaded(r) ==
    /\ todo[r] = {} /\ Goto(r, "load", "ready")
    /\ files' = files \ {Raw(r)}
    /\ UNCHANGED <<call, shared, needs, snapshot, todo, client, cache, blank>>

\* Mutant: no finally.
LoadFails_LeavesRaw(r) ==
    /\ Goto(r, "load", "ended")
    /\ UNCHANGED <<call, shared, needs, snapshot, todo, client, cache, files, blank>>

\* KubeconfigError: the kubeconfig is no good, or a remembered file is gone.
LoadFails(r) ==
    /\ Goto(r, "load", "ended")
    /\ files' = files \ {Raw(r)}
    /\ UNCHANGED <<call, shared, needs, snapshot, todo, client, cache, blank>>

\* The task host: the request ends, and its directory is wiped.
End(r) ==
    /\ Goto(r, "ready", "ended")
    /\ UNCHANGED <<call, shared, needs, snapshot, todo, client, cache, files, blank>>

Wipe(r) ==
    /\ Goto(r, "ended", "wiped")
    /\ files' = {f \in files : f.dir # r}
    /\ blank' = {f \in blank : f.dir # r}
    /\ UNCHANGED <<call, shared, needs, snapshot, todo, client, cache>>

Next == \E r \in Requests :
    \/ Build(r) \/ UnknownContext(r) \/ Forget(r) \/ Forgotten(r)
    \/ Reuse(r) \/ NewFile(r) \/ WriteFile(r) \/ Loaded(r) \/ LoadFails(r)
    \/ End(r) \/ Wipe(r)
Spec == Init /\ [][Next]_vars

-----------------------------------------------------------------------------
Files == [dir : Requests, call : 1..2, data : Datas \union {"kubeconfig"}]
TypeOK ==
    /\ pc \in [Requests -> {"new", "forget", "load", "write", "ready", "ended", "wiped"}]
    /\ call \in [Requests -> 0..2] /\ shared \subseteq Requests
    /\ needs \in [Requests -> SUBSET Datas] /\ todo \in [Requests -> SUBSET Datas]
    /\ cache \subseteq Datas \X Files
    /\ \A r \in Requests : client[r] \subseteq Datas \X Files /\ snapshot[r] \subseteq Datas \X Files
    /\ \A e, f \in cache : e[1] = f[1] => e = f
    /\ blank \subseteq files /\ files \subseteq Files
    /\ Cardinality(Active) <= MaxConcurrent

\* "Forgetting every entry outside this request's workdir makes each load
\* write its own copy here": no client is built on another request's file.
OwnCopies ==
    \A r \in Active : \A e \in client[r] : e[2].dir = r

\* A request that had the process to itself, however many it served before,
\* is built on files of its own, and its client can connect: each file is
\* there, written, and there is one for all the data it needs. (A request's
\* second client may share the files of its first.)
LoneClientsCanConnect ==
    \A r \in Active \ shared :
        /\ \A e \in client[r] : e[2].dir = r
        /\ pc[r] = "ready" =>
              /\ Keys(client[r]) = needs[r]
              /\ \A e \in client[r] : e[2] \in files \ blank

\* "The whole credential footprint is wiped when the task host cleans up the
\* scope", and "the raw kubeconfig file itself is deleted the moment it has
\* been loaded" -- or has not: whoever else is building a client meanwhile.
FootprintIsWiped ==
    \A f \in files :
        /\ pc[f.dir] # "wiped"
        /\ f.data = "kubeconfig" => pc[f.dir] \in {"forget", "load", "write"}
=============================================================================
