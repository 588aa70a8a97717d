# Verification of rw-discovery-codecollection

TLA+ models of the Kubernetes discovery capability in this repository, the TLC
configurations that check them on small instances, and TLAPS proofs of what
matters most. Paths such as `paginate.py:107` are under `src/rwdiscovery/`
unless they say otherwise.

## The system

The capability runs inside an executor process. A `discover` run reads a
cluster through the Kubernetes API and pushes what it finds to the platform
(*papi*), which keeps an inventory and, at the commit of a run's sync, deletes
("sweeps") what the run says it has looked for and not found. The other tasks
(`connect`, `cli`, `export`, `logs`) read the cluster on demand.

| Part | Code | State it keeps | Operations | What is hard about it | What makes it correct |
|---|---|---|---|---|---|
| Paginated listing | `paginate.py`, `k8s_client.py` | continue token, recoveries, counts, the namespaces still to list | `list_resource`, `iter_pages`, the two fallbacks, 410 recovery | the cluster changes between pages; tokens expire; a 403 on a late page | a `complete` partition has every object that was there all along; counts are exact; one partition per scope; it ends |
| Type enumeration | `enumerate.py` | the list of resources | `discover_resources`, `_dedupe_by_type` | unreadable groups, one type in several groups | each type once |
| Type chains, paths | `chain.py`, `path.py` | none | `resolve_type`, `build_chain`, `extra_discovered_type_specs`; the path grammar | a type comes from the table, a CRD or the API, and may differ between them | one type per kind; every chain's types are registered |
| Pack building | `packbuild.py`, `jsonpath_jmespath.py`, `packs/` | none | `build_pack_payload`: types, facets, digest | CRDs read at one time, the API at another, a registry that other clusters share | every pushed item's type is registered |
| Rollup context | `rollup_context.py`, `rollups.py` | per namespace: what was read, what could not be | `_fetch_namespace_rollup_sources`, `rollups_for` | sources read one by one from a moving cluster, some of them unreadable | never a false zero |
| Discovery run | `discover.py` | scope, excluded namespaces, recorded partitions, counters | `run_discover` and its phases | rejections that come late, narrowed scopes, forbidden listings, exceptions at any call | nothing is swept that was there all along |
| Sanitizer | `sanitize.py` | none | `sanitize`, for each object before it is pushed | many rules that meet in one object, each with its own idea of a key; the order of masking, truncating and hashing | nothing hidden leaves; references stay; a document changes just when what it tells does |
| Sync client | `sync.py` | sync id, sequence number, batch, rejected keys | `open_sync`, `push_items`, `commit`, `abort`, `BatchingPusher` | lost, late and repeated requests; executions of a run that died | a commit is whole, and of the run's own sync |
| Credentials | `credentials.py` | files in the scope directory; the client library's process-wide dict | `build_api_client` | several requests in one warm process | every client has its own files; nothing stays behind |
| Command validation | `cli.py` (`validate`) | positionals, flags | the walk over the tokens, normalisation | repeated flags, inline and separate values, clusters of letters | normalising keeps the meaning; logs are bounded |
| Full output | `cli.py`, `export.py`, `logs.py` | none | `full_output_for`, the two argv builders | last-wins flags, names, scopes | the task named covers the command |
| Command execution | `cli.py` (`run_cli`), `kubectl_artifact.py` | process, pipes, two threads, kubeconfig file | start, wait, kill, drain, join | blocked pipes, timeouts, helpers that inherit the pipes | the output is a true beginning, and says when it is cut |
| Schema release | `scripts/*.py`, `tests/test_schemas.py`, `.github/workflows/build-push.yaml` | the schema files of the branch, the manifest label of images | export, label, naming and immutability check | the base of a check is whatever commit came before; jobs that fail do not stop it from being one | an image's schema is its model's; what was published stays, as far as each push is compared with the commit before it |

Interactions: `discover.py` calls `enumerate.py`, then for each type
`paginate.py`, attaches what `rollup_context.py` computes, and hands items to
`sync.py`'s `BatchingPusher`, which remembers rejections that `discover.py`
reads back when it composes the commit. `credentials.py` is called before all
of it, in a process other requests share. `cli.py` is independent of them; its
`full_output_for` imports the builders of `export.py` and `logs.py`, which in
turn use `cli.py` to validate what they build. `enumerate.py` types what it
finds with `chain.py`; `packbuild.py` registers these types, and those of the
CRDs, before `discover.py` pushes an item of any. `tasks.py` wires inputs to
`run_*` functions; `models.py` are the outputs whose JSON Schemas the scripts
export, check and put into the image's label.

## Modules

| Module | Models | Module that runs it |
|---|---|---|
| `Paginate` | `paginate.py` page by page against a changing cluster | `MCPaginate` |
| `PaginateProofs` | type correctness, exhaustiveness and exactness of `Paginate` | proved |
| `Inventory` | abstract: what a run may do to the platform's inventory | refined by `Discover` |
| `Discover` | `run_discover`, `BatchingPusher`, papi's items and commit routes | `MCDiscover` |
| `DiscoverProofs` | what `Discover` keeps and claims, in which order it pushes, and that it implements `Inventory` | proved |
| `SyncProtocol` | `SyncClient` at the level of HTTP requests, several runs | `MCSyncProtocol` |
| `SyncProtocolProofs` | type correctness of `SyncProtocol`, whose syncs a run's calls are about, and what a committed one holds | proved |
| `Chain` | `chain.py`, the types of a pack, papi's registry | used by `Rollups` |
| `Rollups` | `enumerate.py`, `rollup_context.py` and their use in `discover.py`: from the API's documents to items with their chains and rollups (extends `Chain`) | `MCRollups` |
| `RollupsProofs` | that each type is enumerated once, chains are taken and rollups are truthful | proved |
| `Credentials` | `build_api_client` in a warm process | `MCCredentials` |
| `CredentialsProofs` | what becomes of the files of `Credentials`, and what a client has | proved |
| `Sanitizer` | `sanitize()` and the item it ends up in, over writes to the object | `MCSanitizer` |
| `CliArgv` | `validate()` and `_split_normalised()` | `MCCliArgv` |
| `FullOutput` | `full_output_for()` and the two argv builders (extends `CliArgv`) | `MCCliArgv` |
| `CliExec` | `run_cli()` after validation | `MCCliExec` |
| `CliProofs` | what `CliExec` returns, and that pipes are drained; what `CliArgv` makes of a command, and `FullOutput` of its argv | proved |
| `SchemaRelease` | the three scripts and the jobs of the workflow, over a history of pushes | `MCSchemaRelease` |
| `PublishedProofs` | what is true of the items of `Sanitizer` and of the images of `SchemaRelease` | proved |
| `DataTheorems` | facts about sequences, recursion and folds that the proofs share | proved |

The modules meet at guarantees rather than by composition of their state:
`Discover` takes the listing of a type at what `Paginate` shows of it (it yields
only objects that existed while it ran, and reports `complete` only if it
yielded every steady one), and a call to papi at what `SyncProtocol` shows (it
answers, or fails for good with or without having taken effect). `Rollups`
takes each listing at one moment.

Operators whose name ends in `_Something` and that a comment calls a mutant
are deliberately wrong versions of the definition next to them. No
specification uses them; they show that a property would notice.

### How state and actions correspond to the code

**Paginate.** `token`, `recoveries` and `counts` are the locals of
`iter_pages` and its callers; `parts` are the `PartitionEvent`s yielded; `mode`
and `todo` say which of `_list_cluster_wide_namespaced`, `_list_namespace` and
`_list_cluster_scoped` runs, and for which namespaces it still will. One action
per answer of the API server: `GetPage`, `GetLastPage`, `ExpiredResume` and
`ExpiredRestart` (a 410 with and without a token), `ForbiddenSingle` and
`ForbiddenWide`, `ApiError`, and `ConnectionError` for an exception that is none
of `K8sClient`'s own and ends the generator. `ListBestEffort` is the listing
`discover.py:113` makes of a rollup source, without an `on_restart` callback.
`fresh` and `steady` are history: what this pass has yielded, and what has been
live since it began. The API server is external: a token names the snapshot the
listing began with, an inconsistent token continues in what is live.

**Discover.** `pc` follows `run_discover`: open, namespace listing, cluster and
namespaces, rollup sources, types, flush, commit or abort. `partitions` is
`counters.partitions` with `partition_types`, `batch` and `rejected` are the
pusher's. `Add` flushes a full batch *before* it appends, so a rejection may be
learnt long after a partition was recorded; `CommitBody` is
`_commit_partition_entry`, which corrects that. `RunFails` stands for an
exception at any call of the cluster or of papi, `CommitFails` for a commit
that failed or whose answer was lost; both go to `Abort`, best effort. papi is
external: the items route (`Takes`, `Stores`) and the commit route with its sweep
and cascade (`Sweep`). `unstorable` is what it will not take, the cluster item
included: a document it refuses, or a type it skipped at registration. Its mass-delete guard may hold a commit, at its
discretion; its own guard that leaves the partition of an item it rejected
alone is left out, so that what the client does is what is checked.

**SyncProtocol.** `net` keeps every request ever sent, and `Serve` may deliver
any of them at any time, again and again: this covers loss (never served),
delay and duplication, and more than a real network does. An answer reaches the
run only while that waits for this very request. `Restart` is the executor
running a capability run again, under the same uuid and with other contents.

**Chain and Rollups.** `Builtins` is the table of `_BUILTINS` and its aliases,
with display names, categories and the like left out; lowering a kind that is
not in it is the constant `Lower`. `ReadCrds`, `ReadCore`, `ReadGroup`,
`Enumerated` and `PutPack` are the calls in `run_discover`'s order; papi's
registry (`Registered`) and the chains it takes (`TakesChain`) are external,
from what `sync.py` and `packbuild.py` say of them. `put_pack` only logs what
papi skipped, so that has no effect on the run. A rollup is the set of objects it sums up; a count, a sum or a
list of outcomes is wrong when that set is. `ReadGroup` may pass over a group
(`enumerate.py:108`), `ReadSource` is `_items` (`discover.py:485`) and
`RollupsFor` is `rollups_for`. `EndpointSlices` name their service by label; in
the model names are not reused, so a uid stands for both.

**Credentials.** `cache` is the client library's dict, `snapshot` the list
`_forget_foreign_temp_files` walks; each step of it, and of the load, is an
action, so another request may come in between.

**Sanitizer.** A document is the function of its leaves: from the path of each,
the keys and positions that lead to it, to its text or, if it is none, to
whatever it is. `With`, `Without` and `Below` are what the code does with
dictionaries on them; a rule for a string is one for the leaf at a path
(`KeyOf` is the key `_walk_generic` has in hand when it gets there, `LeftAlone`
what `_sanitize_env_list` does not look at). A text is a sequence of pieces,
each with what stands in the clear, what has the form of a credential (`form`:
a JWT, the password of a URL), and the key of its line, if it is on one. The
regular expressions and the entropy estimate are thus part of the input; which
key names what, and everything that follows, is the code's. Of a key the model
knows its words (`WordsOf`; the code joins them, so `api_key` is one word), what
is in it and what it ends in once its separators are gone (`Inside`, `Ends`, as
`authtoken` has `token` in it). A sha256 is the text
it is of, and a marker a piece with nothing in it. An item has its document, its
status, its labels, and the uid and names that `_build_item` takes from the
object as it is (`names`); its rollups are those of `Rollups`, where an event
counts but its message is left out. Empty dictionaries and lists
have no leaf and are not told from none. `Write` is anybody's write to the
object or its status, each with a new `resourceVersion`; `Visit` is one run of
discover, from the stamp of `paginate.py:119` to the item. The state and its
behaviours have names that begin with `Item`, as they share a proof module with
those of `SchemaRelease`. What the rules presuppose of an object is said in
assumptions, each one by a name: what a document is, what the overlay redacts,
where a credential may stand (`Covered`: where a rule applies, `Dropped`,
`InSecret` and `Covers`; never in a uid or a name), what a reference is (it is not where a rule would take
it for a credential, `Innocent`), and what a clean value is.

**CliArgv and FullOutput.** A token is a sequence of atoms (a dash, `=`, a
letter, a flag's name, a type, a name). Each iteration of `_Walker.run`, and
each letter of a cluster, is an action; a value-taking flag consumes the rest
of its token or the next one. `Conclude` is what `_validate` does once the walk
is over; `ValidateAgain` gives the normalised argv back to `validate()`.
Reasons and hints of refusals are left out, and so is `shlex`: a command is
its tokens. `stage` is where `_validate` has got to; the names begin with `Argv`
where those of `CliExec` would be the same. The pack's `cli` block is constants, cut down to the flags that
behave differently. `FullOutput` adds, as external, what `kubectl get` and
`kubectl logs` select with an argv: what is got by name is never got with
anything else, across namespaces or with a selector.

**CliExec.** Four parties: the caller, two drain threads and kubectl with a
possible helper. A line is written and read whole; only its length and whether
`--grep` finds it matter. `timely` fixes, per behaviour, whether timeouts may
run out at all.

**SchemaRelease.** A tree is what a commit holds of one task output: the shape
of its model, its `SCHEMA_VERSION`, the manifest's `schema:` reference and the
schema files. `Tested`, `Labelled`, `Named` and `Immutable` are the steps of
the jobs, `Builds` an image that came of them, `BuildFails` one that did not for
any reason. An action is an event of the workflow, with the base that
`build-push.yaml` gives the check: the commit before for a `Push` (whatever
became of that), none for the first push of a branch, a tag (`Elsewhere`) and a
manual run (`Dispatch`), and either for a `ForcePush`. `promised` is history:
what the branch's images have published, less what a push took away that was
refused or compared with nothing. Events are taken one at
a time; two that overlap on one branch would share what is said of each.

## Runs

| Run | Question | Bounds, and why they are enough |
|---|---|---|
| `Paginate` | Are `complete` partitions exhaustive, do partitions follow the scope and count right, does a listing end? | four objects in two namespaces, pages of at most two, two recoveries: every listing may take several pages, expire in between with and without a token twice, and fall back after items were passed on. Objects may be created and deleted without bound. Scopes: all, one, none, one named twice. |
| `Discover` | What does one run delete, claim, push first; does it implement `Inventory`; does it end? | two namespaces, a standalone and a spawned Job, one cluster-scoped object, pods as a source type, batches of two (so batches fill, and end, in the middle of a type), two changes of the cluster, an empty or a full inventory, nothing or one item of each level that papi will not take, every scoping input and a namespace named twice |
| `SyncProtocol` | Is a committed sync whole and of one execution, does a run touch or get shut out by another's or its own sync, does everything close? | two attempts per call, three syncs. One run that is executed up to three times with other contents each time (two that share a batch at different positions), against a papi that reopens; two runs for one scope, against a papi of either kind |
| `SyncOpenLost` | As the task calls it, without a uuid | found: see below |
| `Rollups` | Is each readable type enumerated once, is every chain of registered types, and is every rollup of what was there? | a Deployment with ReplicaSet, pod and events, a Service with a slice, a CronJob with a Job, a Job that a custom resource owns, two custom objects and an aggregated API's; three group lists, the legacy group first in one; CRDs all read, one missing, one of another scope, two for one kind, one whose plural is another kind's by now; a registry that is empty, has the type otherwise or its plural for another; any document and any source may be unreadable; two changes of the cluster, enough for one source to change between its read and the next |
| `RollupsUnreadGroup` | The same where a source's group may be the unreadable one | found: see below |
| `Sanitizer` | Does what is hidden stay, what is referred to leave, and a document change just when it should? | one object of each of the four kinds that are treated differently; in every place for a value either of two credentials, and a short or an overlong plain one; a status without and one with credentials; both modes; two writes, so that a body or a status comes back |
| `Credentials` | Does a client that was alone have its own files, is everything wiped? | three requests, two at a time, two clients each, one piece of data they all may need: the third request meets leftovers of the first two |
| `CredentialsShared` | And a client that was not alone? | found: see below |
| `CliArgv` | Does normalising keep the meaning, are logs bounded, does the full-output task cover the command? | every `get` of up to three and every `logs` of up to four tokens from pools of about fifteen: enough for a flag twice and what it interacts with |
| `SchemaRelease` | Does an image's schema describe its model, does what was published stay? | two versions, two shapes (up to symmetry), every tree over them, one file of which may be reformatted or no JSON, or, beside version 1, badly named; histories of any length |
| `CliExec` | Is the output the beginning it claims to be, are pipes drained, does a command come back? | every output of three stdout lines of one or two bytes, matching or not, and one or two of stderr, against caps of one and two bytes and pipes of one line: each line may fit, end at the cap, be cut by it, or come after it, and a writer blocks on every line |

### What the properties say

- `Paginate`: `CompleteIsExhaustive`, `PartitionsAreExact` (one per scope and
  path, counting what was passed on, through the 403 fallback and restarts),
  `ListingEnds`. The first is what makes a sweep safe at all.
- `Discover`: `NothingSteadyIsDeleted` (the system's promise: no run removes
  what existed throughout it, nor anything in a namespace that was left out of
  its scope), `CompletePartitionsAreAccurate` (after a commit a complete
  partition holds what the cluster held), `ExactlyOnePartitionEach`,
  `AncestorsFirstWhenNamespacesKnown`, `ImplementsContract` (refinement of
  `Inventory`), `RunEnds`.
- `SyncProtocol`: `CommittedIsWhole` (a committed sync holds what one execution
  pushed, all of it, and success means committed), `OwnSyncOnly`,
  `OwnSyncIsAdopted`, `RunsEndAndSyncsClose`.
- `Rollups`: `EveryTypeOnce`; `PushedChainsAreTaken`: papi takes the chain of
  every item, wherever its type comes from and whichever reads failed, unless
  the type is disputed: the registry, or a CRD that was read, has its name or
  its plural for something else; `ReadRollupsAreTruthful`: a
  facet that is pushed sums up everything of its item that was there throughout
  the run, and nothing that never was.
- `Sanitizer`: `NothingHiddenLeaves`, `StatusRefreshKeepsDocument`,
  `ReferencesSurvive`, `HashesTellValues`. The first and the third pull in
  opposite directions: masking more breaks the one, masking less the other.
- `Credentials`: `LoneClientsCanConnect`, `FootprintIsWiped`.
- `CliArgv`/`FullOutput`: `NormalisedReadsBack`, `LogsAreBounded`, `HintCovers`.
- `CliExec`: `OutputIsFirstMatching`, `TruncatedMeansCut`, `PipesAreDrained`,
  `CommandReturns`.
- `SchemaRelease`: `ReferencedSchemaIsCurrent`: the schema an image's manifest
  refers to is in its label and is its own model's, which no single check says;
  `PublishedSchemasStay`: what the branch's images have published stays in it,
  unchanged, until a push that its own prepare job refuses, or that is compared
  with nothing, takes away that very schema. All others are kept through such a
  push and after it.

### Where the code and its documentation disagree

1. **`SyncOpenLost`** (`src/capabilities/k8s-discovery/tasks.py:31`). The task
   passes no `capability_run_uuid`. If the answer to `open` is lost, the retry
   meets the run's own sync as somebody else's, fails, and leaves it open until
   its lease ends. `sync.py`'s docstring says such a sync is adopted.
2. **`RollupsUnreadGroup`** (`discover.py:488`). A group whose document cannot
   be read is passed over; `_items` then takes its types for types the cluster
   does not serve, so a Service is pushed with zero endpoints when
   `discovery.k8s.io` was the group. `src/README.md` says a facet whose sources
   are not all readable is omitted. `ReadRollupsAreTruthful` states what does
   hold: the promise is kept when every source type the cluster serves is
   served by some group that could be read.
3. **`CredentialsShared`** (`credentials.py:109`). Foreign entries are
   forgotten before the load; another request of the process may add one in
   between, and the load reuses it.

Smaller observations, not runs of their own:

- The `namespaces` input is taken with its duplicates (`discover.py:334`), so a
  namespace named twice is listed, and committed, twice per type;
  `enumerate.py:73` wants one partition per `(type, parentPath)`. The run
  `Discover` has such an input; `ExactlyOnePartitionEach` wants no partition of
  it missing, and no second one of a scope without duplicates.
- `docs/platform-contract.md:348` and `scripts/check_schema_immutability.py:9`
  say that a committed schema never changes and is never deleted. The base of
  the check is the commit before, whether or not its own jobs passed
  (`.github/workflows/build-push.yaml:333`). A push that deletes a published
  schema is refused, but stays on the branch; the next one is compared with it,
  finds nothing missing, and publishes another schema under the same name. A
  forced push, the first push of a branch, a tag and a manual run may have no
  base; they are then compared with nothing. `PublishedSchemasStay` says in its
  words what these two cases release, and holds every push that passes to all
  the rest.
- In CI the comparison of `tests/test_schemas.py` runs after the export has
  rewritten the files, so it cannot fail; `git diff` does, but misses a new
  file. A reference to such a file fails in `manifest_label.py` instead: together
  they give `ReferencedSchemaIsCurrent`.
- `extra_discovered_type_specs` takes the types of `metrics.k8s.io` and of the
  ephemeral CRD kinds for durable ones, where the CRD path does not
  (`chain.py`). They are never pushed, so only the registration differs.
- Two kinds of one group whose names differ only in case have one type.
- Of the entries of a list called `env` only the `value` of those that are
  dicts is looked at (`sanitize.py:295`), so an overlong string in such a list,
  in a custom resource, is pushed whole; `src/README.md` says every string over
  16 KB but a ConfigMap's data is truncated.
- `_list_best_effort` restarts without a callback and keeps the items it has,
  so after a restart the count of a source partition, and the rollups, see
  objects twice (`discover.py:132`). Such partitions sweep nothing.
- `AncestorsFirstWhenNamespacesKnown` has its condition for a reason: with an
  explicit `namespaces` input and a namespace listing that *failed* (rather
  than being forbidden), objects are pushed without their namespace. papi
  rejects them if it does not have it already; nothing is lost.
- A drain thread that outlives its 5 s join leaves an empty output whose
  `truncated` is false (`cli.py:637`); `OutputIsFirstMatching` and
  `TruncatedMeansCut` say what holds then.
- Against an older papi, one that answers an open of the same run with 409, an
  execution that starts over would adopt a sync with batches of the execution
  before and, from seq 1 on, might commit a mixture. The `SyncProtocol` run
  therefore restarts only with a papi that reopens; without restarts it has both
  kinds.
- A request to the API server has no timeout (`k8s_client.py:89`): a server
  that accepts a connection and never answers holds the run.
- A reference that has itself the form of a token, as the end of a role's ARN
  may, is masked by the entropy pass whatever its key is (`sanitize.py:241`).
  `ReferencesSurvive` is about the others.
- A line's key names a credential by its last word or, for `pass`, `pwd` and
  `pw`, by any (`sanitize.py:222`): `DB_PASS_FILE=...` is masked, where
  `src/README.md` speaks of the key's last segment only.
- The summary counts partition statuses before rejections correct them
  (`discover.py:256`).

## Fairness

Liveness is checked with weak fairness on what the code's own scheduling
drives, and on nothing else:

- `Paginate`: the generator is drained, and the API server answers every
  request or the connection breaks. This is an assumption about the server:
  `get_raw` sets no timeout of its own. Not assumed: that the cluster comes to
  rest.
- `Discover`: every call returns or raises; the same assumption for the
  cluster's calls, while those to papi are bounded by their timeout and retries,
  which `SyncProtocol` shows.
- `SyncProtocol`: `Send` and `GiveUp` (an attempt times out after
  `SyncClient.timeout`, and the loop of `_request` is bounded) and the end of a
  lease. Nothing is assumed of the network: no request need ever be served.
- `CliExec`: the caller and the threads are scheduled, kubectl writes when it
  can and ends when it has written all, a helper ends. In half of the
  behaviours no timeout ever runs out: the command then comes to its own end,
  so the result cannot come from a timeout.

## Proofs

Each theorem holds for every value of the constants that satisfies the
assumptions the component's module names. The bounds on counters, such as
`MaxChanges` of `Discover`, are constants too, so they limit the runs and not
the proofs. Each strengthened invariant below was checked by TLC on the
component's run before it was proved.

`PaginateProofs` proves, for every set of keys, namespaces, scope, page limit
and bound on recoveries:

- `TypeCorrect`: `Spec => []TypeOK`;
- `CompletePartitionsAreExhaustive`: `Spec => []CompleteIsExhaustive`;
- `PartitionsComeExactly`: `Spec => []PartitionsAreExact`.

Assumptions: keys are positive naturals and finitely many, `NsOf` maps them to
namespaces, `NoNs` is none of them, a page holds at least one object.
`CompleteIsExhaustive` is not inductive: it says nothing of a pass under way.
The inductive invariant is

    IInv == TypeOK /\ TodoInScope /\ PassCovers /\ CompleteIsExhaustive

`TodoInScope`: a single listing has a namespace to list, of its scope.
`PassCovers`: what is steady is live; it is in the snapshot an exact token will
be read from; and all of it up to the token's key has been yielded (the last
two while a listing runs). A page extends the last conjunct to its last key, a
resumed token keeps it because what is steady is still live, and a restart
empties what is steady to what is live now. At the last page it covers
everything under the path, which is what `Report("complete", Rest)` needs
(`LastPageIsExhaustive`).

For the counts a second invariant stands beside it:

    EInv == TypeOK /\ TodoInScope /\ InOrder /\ CountsAreExact /\ ReportsAreExact

`InOrder`: what was reported is the beginning of the scope and what is to do the
rest. `CountsAreExact`: a pass has counted what it yielded, namespace by
namespace, and all of that lies before its token, so the next page is disjoint
from it and is counted once (`PageIsCounted`). A listing without `on_restart`
does not reset its counts and may only claim to have counted at least as much.

`DiscoverProofs` proves, for any cluster, inventory, types, inputs and batch
size, and any number of changes while the run goes on:

- `TypeCorrect`: `Spec => []TypeOK`;
- `SteadyObjectsStay`: `Spec => []NothingSteadyIsDeleted`;
- `CommittedPartitionsAreAccurate`: `Spec => []CompletePartitionsAreAccurate`;
- `AncestorsAreFirst`: `Spec => []AncestorsFirstWhenNamespacesKnown`;
- `PartitionsAreOnce`: `Spec => []ExactlyOnePartitionEach`;
- `RunImplementsContract`: `Spec => ImplementsContract`, the refinement of
  `Inventory` (its safety part, which is all it has).

Assumptions: namespaces are finitely many; clusters and inventories are trees;
what is listed as a rollup source, the cluster and namespaces are not among the
types; a type is listed once. The last is what `EveryTypeIsOnce` of
`RollupsProofs` says of the resources `run_discover` goes through; source types
are a tuple of distinct names in the code. The inductive invariant is

    IInv == TypeOK /\ Histories /\ Stored /\ Stages /\ Scoped /\ Accounted
              /\ Claimed /\ NothingSteadyIsDeleted /\ CompletePartitionsAreAccurate

`Histories`: what is steady is live, under a namespace that is steady too, so
that no cascade from something absent reaches it. `Stored`: papi's tree is
whole, and what the run pushed was in the cluster or named in the input.
`Accounted` and `Claimed` carry the argument: what a loop has been through, and
all that is steady under a partition recorded as `complete`, is `Handled`. It is
stored, or in the batch, or its key is among the rejected ones. A flush moves items
from the second to the first or the third (`PushHolds`); at the commit the batch
is empty and a rejected key makes its partition `failed`
(`CommitBodyIs`), so what `Doomed` takes is steady nowhere (`SweepHolds`).
The refinement then needs one summary of all the pushes (`Pushes`,
`PushImplements`), the sweep, and the changes of the cluster.

Two more invariants are carried on top of it. `OrderedWhenKnown`: once the
cluster has been pushed, and then each namespace in scope that is no longer to
do, each is stored or waits ahead of what comes after (`Sends`). `Answered`:
which keys the recorded partitions have. While the sources are read (`AtSources`)
and the types listed (`AtTypes`), what a loop still has to visit has none of its
keys there yet, and what it has visited has all of them; the namespaces that are
left out are disjoint from the scope, so the `excluded` partitions collide with
nothing (`AllListedAnswers`). Distinct keys make as many partitions as there is
to answer for (`KeysCardinality`).

`RollupsProofs` proves, for any API and group lists, CRDs, registries, objects
and documents or sources that cannot be read:

- `TypeCorrect`: `Spec => []TypeOK`;
- `EveryTypeIsOnce`: `Spec => []EveryTypeOnce`;
- `ChainsAreTaken`: `Spec => []PushedChainsAreTaken`;
- `ReadRollupsHold`: `Spec => []ReadRollupsAreTruthful`.

Assumptions: uids name objects; `/apis` names a group once and never the core
group; a registry has a type once; the core group is not a legacy one; and, of
names (`NamesAssumption`), which the prover does not take apart: the API serves
a plural for one kind only, and no type outside the table has the name or the
plural of a static one. A qualified name carries its group, and kinds and
plurals have no dots, so that is what Kubernetes guarantees. The inductive
invariant is

    RInv == Typed /\ History /\ Enumerating /\ Reading /\ Pushing

`Enumerating`: a group is still to read, or is whole among the resources, or
unread, and the core group comes first. `_dedupe_by_type` is a fold, which the
prover takes as a chain of sequences, one for each resource (`FoldIsChain`,
`DedupedIs`). Along the chain each type stays once, and what stands for a type
is never worse than any it has met: a member of the core group if there is one,
legacy only if all are. Core has to lead for that: the code replaces a
resource only by one that is less legacy. `Reading`: a source is still to read, or
could not be, or is not served, or nothing steady is missing from it; so a
facet whose sources were all readable sums up all there was, and since sets of
pods only grow along the owners, nothing else.

`ChainsAreTaken` adds `Registering`: from the pack on, the registry has the
static types and every type enumerated that is not disputed. A type that is
neither static nor covered by a CRD is additive (`ExtraSpecsAre`); papi skips
an additive one only for something in its way (`RegisteredIs`), and whatever
that is, it is static, registered before, a CRD's or enumerated
(`PackRegisters`). The first and the last are ruled out by `NamesAssumption` and
by enumerating a type once, the others are what makes a type disputed. A CRD
whose plural another kind has taken over since must count among them, since papi
registers a plural once. The run has one, and without it in `Disputed` the
property is violated.

`SyncProtocolProofs` proves, for every set of runs, contents and restarts, any
number of attempts and any network that loses, delays and repeats requests:

- `TypeCorrect`: `Spec => []TypeOK`;
- `RunsKeepToTheirOwn`: `Spec => []OwnSyncOnly`;
- `CommitsAreWhole`: `Spec => []CommittedIsWhole`, if papi reopens a run's sync
  for its next execution, or runs are executed once, or pass no uuid
  (`Reopens`). The condition is that of the run: an older papi, which answers
  409, does allow a mixture (see the smaller observations).

Assumptions: those named in `SyncProtocol`, of which `UuidsAssumption` is the
one that matters: a uuid names one run. The inductive invariant is

    IInv == Typed /\ InCall /\ Attributed /\ OwnSyncOnly

`Typed` bounds sync ids by the syncs there are; `InCall`: a run waits only in a
call; `Attributed`: a request and a sync carry the uuid of their run. papi's
answers never take a sync from its run (`Grows`), and what an answer says of a
sync is true of it (`Answered`), whatever request is served and whenever. So a
run that adopts the sync of a 409 adopts its own, by the uuid. The lemma
`OwnConflicts` says of any run: if it ends in conflict with its own
sync, it has no uuid. As `tasks.py` passes none, `OwnSyncIsAdopted`
itself is not a theorem; the `SyncProtocol` run checks it for runs with one, and
`SyncOpenLost` shows what happens without.

`CommitsAreWhole` adds `Attended`, `InStep` and `Fresh`. A sync is `Young`, it
has been sent first batches only and holds one at most, or it `Follows` one
content: it holds a beginning of that, later batches are on their way under
the numbers this content gives them, and a commit has been sent only when
all of it was stored. A run is in step with its sync (`At`): it numbers on from
what it has seen acknowledged. A late first batch of an execution before can
then reach a young sync only, and a commit none that is not complete.

`CliProofs` proves of `CliExec`, for any output, caps, pipe size and schedule of
the four parties:

- `TypeCorrect`: `Spec => []TypeOK`;
- `NoPipeIsLeft`: `Spec => []PipesAreDrained`;
- `ReturnedIsFirstMatching`: `Spec => []OutputIsFirstMatching`;
- `TruncatedIsTrue`: `Spec => []TruncatedMeansCut`.

Assumptions: caps are naturals, a pipe holds a line, a line has a length. The
inductive invariant is

    IInv == Typed /\ Piped /\ Collected /\ Ended /\ Answered

`Piped`: the pipe is what was written and not yet taken, in order. `Collected`:
a thread has kept the first bytes of the matching lines among those it took,
counts them right, and has said `truncated` only beyond the cap; so when it
ends with the pipe empty and closed, this is true of the whole output. The
references `Bytes` and `FirstBytes` are recursive functions; that they exist
and what they are at each line comes from `RecursionExists`.

Of `CliArgv`, `CliProofs` proves, for any pack and any command of any length:

- `ArgvTypeCorrect`: `ArgvSpec => []ArgvTypeOK`;
- `NormalisingKeeps`: `ArgvSpec => []NormalisedReadsBack`;
- `LogsStayBounded`: `ArgvSpec => []LogsAreBounded`.

Assumptions, named in `CliArgv` and true of `packs/kubernetes/pack.yaml`: a verb
is one word or two, and none is the first word of another; `logs` takes
`--tail` and `--limit-bytes`, its limits and windows take values; no shell token
begins with a dash. The inductive invariant is

    Inv == Base /\ Again

`Base`: what is left to walk is free of shell syntax, a positional begins like
no flag, a flag's value is one of its kind, `output` and `grep` are there once,
and an argv is accepted only with the values it may have. `Again` is about the
second validation: its argv is `ArgvOf` the first one's verb, positionals and
flags, which are normal already (`Sound`: given to kubectl, they stay as they
are), and the walk has come so far in it, first among the positionals and then
among the flags, each of which reads back as it was written (`RenderIs`,
`ReadsBack`). So nothing on the way can refuse it. That the selections keep
elements and their order (`ThosePick`) comes from the chain of the fold.

Of `FullOutput` it proves, for any cluster and kubeconfig too:

- `HintsCover`: `ArgvSpec => []HintCovers`.

What is assumed besides (`TaskAssumption`): `get` and `logs` take the flags the
tasks write, with values or without as they write them; `logs` takes no
`--all-namespaces` and `get` no `--since`. It follows from `Inv` alone: an
accepted argv is split as it was meant (`AcceptedIs`), and so is the task's
(`ExportIs`, `LogsIs`). The last flag of a name is heeded by kubectl and by
`_last_value` alike (`ValueIs`, `SetIs`), so both argvs read the same namespaces
and, unless a get is by name, by the same selector. `ExportCovers` then
compares the positionals: a type is exported, a list of types and names as the
types alone, which `Kinds` and `CommaList` do not lose. `LogsCover` compares
workloads and containers; where the command's flags contradict each other it
selects nothing, as kubectl refuses it.

`CredentialsProofs` proves, for every set of requests, every inline data and
any number of requests at a time:

- `TypeCorrect`: `Spec => []TypeOK`;
- `NoFootprintIsLeft`: `Spec => []FootprintIsWiped`;
- `LoneClientsConnect`: `Spec => []LoneClientsCanConnect`.

Assumptions: a raw kubeconfig is not one of the inline data it holds, and at
least one request fits in the process. `FootprintIsWiped` does not say which raw
kubeconfig there is, so it cannot tell that the one a build removes is the last
of its request. The inductive invariant is

    IInv == Typed /\ FilesAreOwned

`FilesAreOwned`: a file lies in the directory of a request that has begun and
is not yet wiped, and a raw kubeconfig is the one of its request's present
call, whose build is still under way. A new call comes only when the last
build is over, so it finds no raw kubeconfig to outlive; what a build removes
at its end is then all there is. For the clients,

    CInv == IInv /\ Shaped /\ BlanksAreWritten /\ LonesAreAlone

`LonesAreAlone`: a request nobody has been beside is the only active one; once
it has been through the library's list, all that is remembered is its own,
what its client has and has still to load is what it needs, and the files are
there. A file is blank only while its owner is about to write it.

`PublishedProofs` proves two things that have nothing but a publisher in common.
Of `Sanitizer`, for any bodies, statuses, keys, overlays and writes:

- `ItemTypeCorrect`: `ItemSpec => []ItemTypeOK`;
- `NothingHiddenIsPushed`: `ItemSpec => []NothingHiddenLeaves`;
- `DocumentsOutlastStatuses`: `ItemSpec => []StatusRefreshKeepsDocument`;
- `ReferencesStay`: `ItemSpec => []ReferencesSurvive`;
- `HashesTellThem`: `ItemSpec => []HashesTellValues`.

The inductive invariant, `ItemInv`, is that an item is `ItemOf` of the body, the
status and the mode it was pushed under: to see that, `SeenIs` takes status,
version and stamp through `_strip_common_metadata`, whatever their values are,
and `DocumentsOutlastStatuses` is all but said. The others are about `ItemOf`. A
document falls apart by the first key of its paths (`ConfigMapIs`, `SecretIs`):
into what the walk was given, the fingerprints and the masked data. A name
beside a value is given to the walk whenever the value is, so each leaf is
judged by the key it has in the body (`BesideGiven`, `KeyGiven`); masking tells
nothing that was not told, and no credential of a text its rule covers
(`MasksTell`). A sha256 is recorded only where masking changed nothing, so it
tells what the masked value does. In the other direction, what no rule covers is
left as it is (`ShownIs`, `CleanIs`).

The assumptions, all of them evaluated in the run: documents are trees of keys,
and a ConfigMap's data are texts; no annotation whose key is `name` or `value`
has an allowed prefix; credentials stand where one of the rules reaches them
(`SecretsAssumption`), references and clean values where none does
(`ReferencesAssumption`, `CleanAssumption`). The last three are the contract the
rules have with the objects, field by field; that the rules interact as they
should, under any pairs, lists, annotations and orders, is what is proved.
`RedactionsAssumption`: an overlay does not redact what the sanitizer itself
records, `dataHashes` and `binaryDataHashes`. And a path of the overlay is not what
makes a ConfigMap's value safe: `apply_extra_redactions` comes after the hashes,
so a value it masks keeps the sha256 that was recorded of it (`Covered` does not
count such a path).

Of `SchemaRelease`, for any versions, shapes and trees and any history:

- `TypeCorrect`: `Spec => []TypeOK`;
- `ReferencedSchemasAreCurrent`: `Spec => []ReferencedSchemaIsCurrent`;
- `SchemasStay`: `Spec => []PublishedSchemasStay`.

Assumptions: those named in `SchemaRelease`. The inductive invariant is

    IInv == TypeOK /\ ImageChecked /\ PublishedSchemasStay

`ImageChecked`: the image published last was tested and its files are all
versioned. A push that passes against a base keeps the base's files, hence what
was promised (`PreparedKeeps`); one that is refused, or compared with
nothing, keeps what is promised and still in its own label. The code grants no
more (see the smaller observations).

`DataTheorems` holds what several of these need: ranges of sequences, the
existence of recursive functions and the chain behind a fold. Induction over
the naturals is used there in the form the provers can instantiate, for a set
instead of a predicate (`NatInductionOverSet`).

Model-checked only: all liveness properties; fairness and `ENABLED` are beyond
the prover; and `OwnSyncIsAdopted`, for the reason given above. Every other
safety property that a passing run checks is proved.

## Abstractions

- Outside `Sanitizer`, objects are records of a type, a namespace and a name or
  uid; their documents are left out, and so are batch sizes in
  bytes (`BatchSize` stands for both limits).
- `Discover` leaves rollup values, counts and durations out.
- Timeouts and delays are choices, not clocks.
- In `CliArgv` shell syntax is a set of tokens, of first atoms and of a last
  one; a limit of `logs` is small, large or malformed. A command whose verb of
  two words is one quoted token is left out: it would be taken for a verb and
  come out as two tokens. The spellings `-5` (a positional) and values with an
  `=` in them are not among the inputs of the run, though the proofs cover
  them.

## Not modelled

| Part | Why, or when |
|---|---|
| `rollups.py`, the arithmetic, the window of events and the cluster's own rollup | pure counting over the sets that `Rollups` shows to be right |
| `path.py` | formatting of a grammar that papi owns; only tests call it |
| `packbuild.py`: facets, digest; `jsonpath_jmespath.py` | translation of static data, one payload per run; its types are in `Chain`, what papi skips in `Rollups` and `Discover` |
| streaming of `export` and `logs` into artifacts | done by the SDK, which is not in this repository |
| `connect.py` | three reads without state; its client is the first call of a request in `Credentials` |
| `tasks.py`, `models.py` | argument passing and data classes; what they leave out is in `SyncOpenLost`, their schemas are in `SchemaRelease` |
| tags, platforms and smoke tests of `build-push.yaml` | names of images; which of two builds a moving tag ends up with depends on the registry |

## Plan

Done: `Paginate`, `Inventory` and `Discover`, `SyncProtocol`, `CliExec`,
`Credentials`, `Chain` and `Rollups`, `Sanitizer`, `CliArgv` and `FullOutput`,
`SchemaRelease`; proofs of the safety properties of each of them (of `Discover`,
with its refinement of `Inventory`), but for `OwnSyncIsAdopted`.
