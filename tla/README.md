# Verification of the Steward control plane provider

This project models the controllers of the Cluster API (CAPI) control plane
provider for Steward in TLA+, checks them with TLC on small instances, and
proves the main invariants with TLAPS for instances of every size.

## 1. The system

The provider turns a `StewardControlPlane` (SCP) of CAPI into a
`TenantControlPlane` (TCP) of Steward, in the management cluster or, when the
SCP has an `externalClusterReference`, in a remote cluster that a kubeconfig
Secret gives access to.  Two controllers run in one process and share a store
of managers.

| Component | Source | State | Operations | Talks to |
|---|---|---|---|---|
| External cluster reference controller | `controllers/externalclusterreference_controller.go` | none of its own | `Reconcile` for a Secret: stop unused managers, replace outdated ones; `startManager` goroutines | store, Secret and SCP caches, new managers |
| Manager store | `pkg/externalclusterreference/store.go` | map key -> (resource version, manager, cancel), mutex | `Get`, `Stop`, `Add` | both controllers, goroutines |
| Key names and indexes | `name_generator.go`, `pkg/indexers` | cache indexes | names of keys and of remote TCPs | both controllers |
| Remote change notification | `PushStewardChange` | none | one controller per manager: sends the SCP of a changed TCP into a channel | SCP controller |
| SCP reconciler | `stewardcontrolplane_controller.go` | none; all in API objects | `Reconcile`: about fifteen API calls in sequence | API server, cache, store |
| Finalizer and deletion | `stewardcontrolplane_finalizer.go` | finalizer on the SCP | `handleFinalizer`, `handleDeletion` | API server, remote client |
| TCP projection | `stewardcontrolplane_controller_tcp.go` | the TCP's spec | create or update | management or remote cluster |
| Endpoint and infrastructure patch | `stewardcontrolplane_controller_cluster_patch.go` | endpoint on SCP and infrastructure cluster | merge patch, patch or check by provider | API server |
| Kubeconfig and CA replication | `stewardcontrolplane_controller_resources.go` | two Secrets for CAPI | create or update | management or remote cluster |
| Condition tracking | `conditions.go` | conditions in the SCP's status | `TrackConditionType`, deferred update | API server |
| Set-up | `main.go`, `pkg/features` | feature gates | start-up | all |

What is hard in it, and hard to test (the repository has a test skeleton only;
`PROJECT.json` lists every hazard at its line):

* **Interleaving.**  The goroutine of a failing manager changes the store while
  `Reconcile` is between its own calls on it.
* **Stale reads.**  Both controllers read an informer cache, the unstructured
  infrastructure cluster included (`main.go:132`).  `Reconcile` of an SCP decides
  from a copy it took several API calls ago; conflicting updates are retried
  against the same cache; a patch is the difference to what was read, and is
  empty when that is none.
* **Partial failure and restart.**  Any of the calls can fail, the process can
  stop between any two of them, and the next attempt starts from the top.
* **Missed events.**  The Cluster and the infrastructure cluster are not
  watched.  A Secret that disappears hides the keys it had.  A control plane that
  is not ready is not polled: the error meant to do that is lost
  (`stewardcontrolplane_controller.go:331`), and only the watched TCP brings
  `Reconcile` back.
* **Sequences of legal requests.**  References are changed, control planes are
  moved and then deleted.

What makes the parts correct: no manager is lost, doubled or handed out after
it was stopped, and every referenced kubeconfig gets one; a remote TCP always
has somebody who will delete it; `Initialized` and `Ready` promise nothing that
is not there, are not taken back by late writes, and end up as Steward reports.

## 2. The modules

| Module | Contents |
|---|---|
| `ExternalClusterReference` | the store, the controller that fills it, the goroutines, restarts |
| `ExternalClusterReferenceProofs` | its theorems |
| `RemoteControlPlane` | composes `ExternalClusterReference` with `PushStewardChange` in every manager and with the reconciler that reads through a manager's client |
| `RemoteControlPlaneProofs` | its theorems; extends `ExternalClusterReferenceProofs` |
| `StewardControlPlane` | `Reconcile` of one SCP, deletion, cache, CAPI, Steward, users |
| `StewardControlPlaneProofs`, `ControlPlaneRestProofs` | its theorems; the second has what holds when `Reconcile` comes to rest |
| `ControlPlaneContract` | abstract specification: what an SCP promises CAPI and the owner of the remote cluster |
| `ControlPlaneRefinement`, `ControlPlaneRefinementProofs` | `StewardControlPlane` implements it: the mapping, the proof |
| `ReconciledObject` | the SCP as `Reconcile` holds it in memory: conditions, finalizers, the deferred update |
| `ReconciledObjectProofs` | its theorems |
| `TenantControlPlaneSync` | what is copied down to the TCP and up to the endpoints, field by field |
| `TenantControlPlaneSyncProofs` | its theorems |
| `MCStewardControlPlane`, `MCTenantControlPlaneSync` | constants for TLC |

`Reconcile` of an SCP is looked at from three sides.  `StewardControlPlane` has
all its calls and the decisions between them; `ReconciledObject` follows the
same calls for what they do to the copy in memory, and reduces what makes a
step fail to a variable `problem`; `TenantControlPlaneSync` opens the two steps
that copy data.  Each keeps its own cache and queue, because staleness is what
all three are about.

### ExternalClusterReference

A key `namespace/name/entry` is a pair `<<Secret, entry>>`.  `secret` and `ref`
are the cached Secrets and references: the controller reads only the cache and
writes neither, so nothing else of the API server can be observed.  `store` is
the map; each of `StoreGet`, `StoreStop`, `StoreAdd` is one atomic step, since
the code holds the mutex.  `manager` has the goroutine of every manager.

| Action | Code |
|---|---|
| `Begin` | Get of the Secret; a missing one ends the reconciliation |
| `ListReferences`, `StopUnused` | first loop; `Stop` is a step of its own, after the `List` |
| `GetManager`, `StopOutdated`, `RejectKubeconfig`, `StartNewManager`, `AddManager` | second loop, in the order of its calls; the goroutine starts before `Add` |
| `StartReturnsNil`, `StartReturnsError`, `StopAfterFailure` | `startManager`; between the error and `Store.Stop` others run |
| `SecretWritten`, `SecretDeleted`, `ReferenceChanged`, `Resync` | the watches of `SetupWithManager`; a reference enqueues the Secrets indexed under the old and the new key |
| `CallFails`, `Restart` | failing calls; a new process with an empty store |

Entries of a Secret are absent, valid or malformed.  Keys are walked in any
order, as Go walks a map.

### StewardControlPlane

`scp` is the object on the API server, `view` the same object in the cache.  An
update after a cached `Get` succeeds exactly if the two are equal (`Current`);
otherwise `RetryOnConflict` gives up in the end and `Reconcile` returns an
error.  A merge patch carries no resource version and always succeeds, but it
is computed against `Reconcile`'s copy `me`, so it may be empty.  `infra` is the
infrastructure cluster on the API server, and `infra.seen` what the cache has of
it: `patchCluster` checks `seen`, and writes the fields in which the new endpoint
differs from it.  `InfraCacheSync` brings `seen` up to date and enqueues nothing.
`tcp` has the
TCP at each location, with the generation of the SCP it was made from in place
of its spec.  Each value of `pc` is a call of `Reconcile` on an API server or
the cache; the actions are named after the functions they model.  `Branch`,
`ClusterReady`, `CreatedOrUpdated`, `PatchedEndpoint`, `PatchCluster`,
`ReplicatedKubeconfig`, `ReplicatedCA` and `ReadyStatus` are the decisions in
between.  An error or a `RequeueAfter` is `EnqueueBack`; any other return is
`Withdraw`, also that of `SetReady` for a control plane that is not ready.

Providers fall into kinds: *patch* (AWS, Azure, Hetzner, Ionos, OpenStack,
dynamic), *patchReady* (KubeVirt, Nutanix, Packet: the status is patched too),
*check* (Metal3), *checkOrPatch* (Proxmox, Tinkerbell, vSphere), *unsupported*,
and *skip* for the feature gate `SkipInfraClusterPatch`.

External, modelled from how the code uses it: the owner reference and the
Cluster's endpoint, which CAPI sets once; the infrastructure's readiness;
Steward's reports (address, version status, names of Secrets) and its
finalization of a TCP; garbage collection; users' edits, moves and deletions.
`ReachabilityChanges` is what `ExternalClusterReference` does to
`extractRemoteClient`: a target is reachable when the store has a manager for
the current version of its Secret.

### ControlPlaneContract

The state is what is visible outside: the phase of the object, its finalizer,
endpoint, `Initialized` and `Ready`, whether both Secrets are there, and the TCP
on each remote cluster.  There is no cache, queue or retry.  It allows the
endpoint to be announced and changed, `Initialized` after it and for good, the
Secrets after that, `Ready` last; remote TCPs are created only under the
finalizer, taken down only when the object is deleted, and the finalizer goes
only when none is live.  `ControlPlaneRefinement` maps the state of
`StewardControlPlane` to it.  The mapping holds for references that do not
change; `scp_orphan` is what a move does to it.

### ReconciledObject

`conditions := scp.Status.Conditions` copies a slice, not its array.  `array` is
the list that is going to be saved, `shared` whether the copy's own list is in
the same array.  `Track` changes an element in place or appends, which ends the
sharing; a Get from the cache ends it too (`Reread`); a Patch decodes the API
server's answer into the copy and, while sharing, into `array`
(`PatchControlPlaneEndpoint`).  `found` is a history variable: how each tracked
step went.  `SaveConditions` is the deferred update with its retries; its error
is logged only.  `problem` names the step that fails; `Fault` is a call that
fails once.  `others` is the finalizer of another controller.

### TenantControlPlaneSync

`CreateOrUpdateTenantControlPlane` is the mutate function of
`createOrUpdateTenantControlPlane`.  Fields are grouped by the rule that
projects them: assigned (`plain`), assigned when set (`ranges`), merged
(annotations, with the last-applied configuration left out and the key of the
kubeconfig Secret removed), the certificate's names, DNS with CoreDNS's
override, and the network from the Cluster.  Upwards, `Parsed` and
`ControlPlaneEndpoint` are the parsing of host and port with the widths of the
code: 16 bits with a sign for what Steward reports, a conversion to `int32` for
the port of an Ingress or Gateway host name, 443 and 6443 by default.  The merge
patch contains the fields in which `Reconcile`'s copy differs from the new
endpoint, and its answer is decoded over the copy.  The infrastructure cluster
`infra` is patched in the fields in which the new endpoint differs from its
cached copy `iview` (`MergedInfra`), which catches up by `InfraCacheSync` without
an event.

### RemoteControlPlane

`tenant` counts Steward's reports on each remote TCP, `seen` is each manager's
cache, `changed` the queue of its `PushStewardChange`, `triggered` the queue
behind the trigger channel, `client` the manager whose client a reconciliation
holds, `shown` what reached the SCP.  `TakeClient` is `extractRemoteClient` and
reads the store of `ExternalClusterReference`; `UseClient` reads that manager's
cache, even if the manager has been stopped.  This is where
`ReachabilityChanges` of `StewardControlPlane` comes from.

## 3. Runs

| Run | Question | Bounds |
|---|---|---|
| `ecr_live` | no manager lost, doubled or handed out after it was stopped; referenced entries get a manager, unreferenced ones lose it, with a malformed neighbour that is referenced for good | 1 Secret with 2 entries, 2 SCPs, 2 managers, 1 write, 1 fault |
| `remote` | the manager is for the newest version of the Secret; Steward's reports get through managers, caches and channel, and none is forgotten on the way (`NoReportLost`) | 1 entry, 1 SCP, 2 managers, 2 writes, 2 reports, 1 fault |
| `scp_local` | promises of the status in the management cluster, with pauses, a removed Cluster, unready infrastructure; the contract | 1 fault, kinds checkOrPatch and patchReady, Ready and Upgrading |
| `scp_remote` | every remote TCP is guarded by a finalizer; nothing steps back; the contract | 1 target that comes and goes, 2 generations, 1 fault, kinds check and unsupported |
| `scp_live` | status and endpoint follow Steward; at rest, nothing is left undone (`NothingLeftUndone`) | 2 endpoints, Ready and NotReady, no fault, kind skip |
| `scp_moves` | spec, status, kubeconfig and deletion follow a move; `NothingLeftUndone`, which includes a CA that the controller replicates | 1 target, every move, 2 generations, Steward's CA under CAPI's name, kind skip |
| `object` | lists of conditions stay aligned, tell how the later steps went and are right in the end; a finalizer that another controller sets again when it is lost is there in the end | every problem, 1 address, 1 change of problem, 1 fault |
| `sync` | the last spec and network reach the TCP, also after a pause, without taking annotations of others; the endpoint reaches the SCP and, with the resync, the infrastructure cluster; at rest, nothing that is watched has been left undone (`RestIsSettled`) | 14 edits, 2 networks, pauses, 2 reports, 2 changes, 1 write by others, 1 fault |
| `ecr_failed_stored`, `scp_orphan`, `scp_deletion`, `object_conditions` | statements the code does not keep, section 6 | as small as shows it |

Why these bounds are enough for the questions: one worker handles one key at a
time, so two entries show interference between keys; two SCPs can refer to both
of them for good, so that a malformed one is in the way of its neighbour in every
reconciliation, and the random order of the map is all that helps; two managers
let a failing and a new one, or a stopped one whose client is still held and its
successor, exist together;
a second write, generation or edit makes every cached copy stale once; one fault
puts a failed call or a restart between any two steps.  What the larger
instances of `ExternalClusterReference` would add to its invariants is covered
by their proofs, which bound nothing.  The liveness runs of
`StewardControlPlane` have no faults: a failed call or a restart puts the object
back in the queue, which is where their behaviours start anyway.  Two endpoints
are needed for an address that changes and changes back; what the infrastructure
cluster does to the status is in `scp_local` and `scp_remote`, what becomes of
the infrastructure cluster in `sync`, and the liveness runs of
`StewardControlPlane` leave it out (kind skip), since nothing they say depends on
it; two edits, for a value
that is set and removed, or for an Ingress replaced by a Gateway.  The edits
have one of each kind: setting and unsetting for every rule of the projection,
names the certificate cannot have, ports that are no numbers and ports too large
for their type.  `Int32Range` is scaled down from 2^32, so that 70000 stands for
a port that does not fit.  Manager identities are reused once a goroutine has ended and nothing
refers to it.

**Fairness.**  `ExternalClusterReference`: the worker and the goroutines keep
running (weak fairness); the work queue is first in, first out, so no Secret
waits for ever, and Go's random map order means no entry is always behind a
malformed one (strong fairness); the informers resync.  `RemoteControlPlane`
adds that the managers' informers and controllers run, and strong fairness of
`TakeClient`: the SCP goes back into the queue after every error, so that a
store which has the manager again and again is met in the end.  The other three
modules: the worker and the informers keep running (`CacheSync`,
`TenantCacheSync`, `InfraCacheSync`), nothing more: no resync, and nothing of
Steward, CAPI or users (`ReconciledObject`: the other controller
does set its finalizer).

The liveness properties therefore say what happens once others have settled
(`Provisioned`, `Workable`, `Connected`, a problem that is gone for good), and
some have a premise that is the point of the code:

* a Cluster that is never paused (`NeverPaused`), because unpausing it enqueues
  nothing;
* after a pause, and for the network of the Cluster, which is not watched, a
  resync (`TenantFollows`, `EndpointFollows`);
* for the infrastructure cluster, which is not watched either, resyncs that go on
  (`InfraFollows`); section 6 says what happens before the next one;
* for the conditions (`ConditionsFollow`), no failing calls, because a failed
  deferred update is only logged, and a cache that has the last write when
  `Reconcile` begins (`CacheKeepsUp`).  Without the latter the controller keeps
  itself busy: a stale copy's conditions are written over newer ones, and that
  write is the event that starts the next reconciliation.

Deadlock is not checked where the system may rest: an object that is gone, a
settled SCP without a resync, a remote cluster nobody refers to or reports on.

Every property of a passing run has a mutant in `PROJECT.json`: a plausible bug
in the modelled code under which TLC finds the property violated.

## 4. Proofs

All theorems hold for any Secrets, entries, managers, targets, endpoints,
values, host names, numbers of writes, generations, changes and faults, under
the named assumptions on constants.  `ECRAssumption`, `SCPAssumption`,
`RCPAssumption`, `ROAssumption` and `SyncAssumption` say that the null values are not ordinary
values and that bounds are numbers; `WritesAssumption`, that users, CAPI and
Steward write values of the types the API admits.  TLC evaluates them all in the
runs.  Each inductive invariant was checked by TLC on the bounds of its run
before it was proved.

* `ExternalClusterReferenceProofs`: `TypeCorrect`, `NoManagerLeaks`,
  `StoredManagersUsable`, `OneLiveManagerPerKey`.  The invariant `ECRInv` adds
  what makes them inductive: between `Store.Stop` and `Store.Add` the key in
  hand has no instance (only the one worker adds, and goroutines only remove),
  so `Add` cannot refuse the manager; no manager is stored under two keys; the
  manager just started is not stored and not cancelled.
* `RemoteControlPlaneProofs`:
  * `ComponentKept`: every step of the composition is a step of
    `ExternalClusterReference` on its own or leaves it alone, so that all of the
    above carries over: `NoManagerLeaksRemotely`, `RemoteTypeCorrect`;
  * `NoReportIsLost`: an SCP with a running manager that does not show what
    Steward has reported has something coming: a reconciliation that holds a
    client or is due, a change in the queue of the manager now in the store, or
    an event that manager has yet to see.  `NoReportLost` is not inductive: a
    reconciliation may read through the client of a manager that has been
    replaced.  `RemoteInv` adds that no cache is ahead of Steward
    (`NeverAhead`), and, for every live manager and not only the one in the
    store, that what it has seen is shown, under way, or about to be read with
    its own client (`ToldByLiveManagers`): a client of another manager counts
    for nothing.  `ECRInv` makes the manager in the store the live one.
* `StewardControlPlaneProofs`:
  * `TypeCorrect`;
  * `RemoteTCPsGuarded`, for references that do not change (`Moves = {}`).
    `GuardInv` says how far the cache can be wrong (it never shows a finalizer
    on an object not being deleted that the API server has not) and what
    `Reconcile` may rely on at each step: the finalizer is there before it
    creates, and no remote TCP is live when it removes the finalizer.  With
    moves the property is false, see `scp_orphan`;
  * `InitializedHasEndpoints` and `ReadyIsUsableAlways`, with moves too.
    `StatusInv` says that endpoints and Secrets stay while the object exists,
    and what each step of `Reconcile` leaves behind for the next;
  * `NothingStepsBack`, with moves too.  `FreshInv` says that every generation
    that can still be read or written, on the API server, in the cache and in
    the copy `Reconcile` works on until it has written the TCP, is at least as
    high as those of the TCPs at all locations, and that the copy is no newer
    than the cache and the cache no newer than the API server.
* `ControlPlaneRestProofs`: `NothingIsLeftUndone`, with moves, faults and remote
  clusters that go out of reach.  At rest, the current spec is in the TCP, the
  endpoint is the reported one, `Ready` is set exactly if Steward reports the
  control plane ready or upgrading, and kubeconfig and CA are from that location,
  unless Steward keeps the CA itself.  The infrastructure cluster is no part of
  it, see section 6.  `ServedInv` says, step by step, what
  `Reconcile` leaves behind as long as the queue is empty.  Its premise cannot be
  that the cache is current: an endpoint that is patched back to an older value
  makes it current without an event.  `Close` therefore leaves out the endpoint,
  the only part that a write can bring back, and only `CarriedInv`, after the
  patch, needs the rest; it also carries the version status and the Secrets to the
  last step.  `RestInv` speaks of a location out of reach, too, where
  reports go unnoticed until the manager is back, which is an event.  `LagInv`
  has what others can do to the cache meanwhile; `FreshInv` is reused.
* `ControlPlaneRefinementProofs`: `ContractKept`, again for `Moves = {}`: every
  step is a step of the contract or invisible in it.  There is one lemma for
  each group of actions (deletion, creation, status, Secrets, others, invisible
  ones).  `GuardInv` gives the remote half and `StatusInv` most of the other;
  `OrderInv` adds the two facts neither needs for itself: an object being
  deleted still has the finalizer (so that adding it is not a step of a
  deleted object), and a kubeconfig exists only for an object that is
  initialized (so that a CA which Steward issues later completes the Secrets of
  an initialized one).

* `ReconciledObjectProofs`: `TypeCorrect`; `ListsHaveNoGaps` (`InitialSegment`);
  `LaterConditionsAreTold`.  A list without gaps stays so only if a step tracks
  the next type and no other, so `SegmentInv` says which types are in `array` at
  each step of `Reconcile`; it is a fact about the order of fifteen calls and
  every early return between them.  `ToldInv` says that the conditions of the
  later steps are in the array as they were tracked, and that none has been
  tracked by the time the answer to the endpoint patch is decoded into it.
* `TenantControlPlaneSyncProofs`: `TypeCorrect`, for which `Reconcile` must go on
  only with an address and refuse what does not parse; `OthersAreKept`;
  `RestSettles` (`RestIsSettled`, without the infrastructure cluster).  The last
  speaks of the end of a
  reconciliation, so `RestInv` says what each of its steps leaves behind while
  the queue is empty: the copy is what is in the cache (`CopyIsView`); if the
  cache of the TCP is still current, the TCP is a fixed point of the projection
  of that copy (`TenantSettled`); and if the cache of the SCP is current after
  the merge patch, the patch has ended in the endpoint that was computed
  (`EndpointSettled`), also when it was computed against a stale endpoint that
  has meanwhile come back (`MergedToCopy`).  `NeverAhead` rules out that a write
  makes a cache current that was not.

Only model-checked, because liveness under fairness is out of the prover's
reach: `WantedManagerIsStored`, `UnusedManagerStopped`, `ReportShown`,
`SpecApplied`, `StatusFollows`, `RemoteTCPDeleted`,
`ConditionsFollow`, `OtherFinalizerStays`, `TenantFollows`, `EndpointFollows`,
`InfraFollows`.  `NoReportLost`,
`NothingLeftUndone` and `RestIsSettled` are the safety half of `ReportShown`, of
`SpecApplied` and `StatusFollows`, and of `TenantFollows` and `EndpointFollows`:
nothing is forgotten, so that fairness is all that is left to ask.  Every
invariant and every action property of a passing run is proved.

## 5. What is not modelled

* Messages and times of conditions; log messages; labels and types of Secrets;
  the fields of the TCP's spec one by one (one for each rule instead); the
  validation rules of the API types, except that Ingress and Gateway exclude
  each other.
* An SCP that is created again under the same name; the lag of the Cluster's
  cache behind the API server (`cluster` is what the cache holds).
* Progress after a Cluster is removed while the SCP has its finalizer, where the
  code does nothing by its early return, and after somebody else deletes a
  remote TCP, where it does nothing before the next unrelated event or the
  resync, ten hours later.
* Several workers: `MaxConcurrentReconciles` never lets two work on one object,
  and the models of `Reconcile` have one object.
* Flag parsing, the template type, generated deep copies.

## 6. Statements the code does not keep

Shown by a run:

1. `ecr_failed_stored`: a manager whose `Start` fails before `Store.Add` is
   stored after its own clean-up, and stays, not running.
2. `scp_orphan`: after a move, deletion leaves the TCP at the old location.
3. `scp_deletion`: if the finalizer could not be removed right after the remote
   TCP was deleted, the SCP is never deleted.
4. `object_conditions`: the answer to the endpoint patch overwrites what
   `FoundExternalReferenceClient`, `TenantControlPlaneCreated` and
   `TenantControlPlaneAddressReady` have just reported, if the list had these
   conditions already, and the deferred update saves the old state.
   `LaterConditionsTold` is what holds of the others.

Part of the models, without a run of its own:

* `Reconcile` comes to rest with a control plane that is not ready: the
  `ErrEnqueueBack` of `stewardcontrolplane_controller.go:331` ("TenantControlPlane
  in %s status, enqueue back") is returned to `TrackConditionType` and not
  assigned to `err`, so that the `RequeueAfter` of line 341 is not reached.  What
  helps is that the TCP is watched: `NothingLeftUndone` and `StatusFollows` hold
  all the same.
* The infrastructure cluster is read from a cache (`main.go:132`), and the patch
  helper sends the difference to what was read
  (`stewardcontrolplane_controller_cluster_patch.go:166`).  When the address
  changes and changes back while that cache lags, the second patch is empty, and
  `Reconcile` comes to rest with the wrong endpoint there, until the next event
  or the resync, where `docs/providers-nutanix.md:201` says that the provider
  "will take care of patching" it.  `InfraFollows` is what holds.
* A CA Secret that Steward keeps for the management cluster under the name CAPI
  expects stays after a move to a remote cluster, beside the kubeconfig of the
  new location (`stewardcontrolplane_controller_resources.go:83`).
  `NothingLeftUndone` allows it, and asks for a CA of the new location otherwise.
* A replaced manager that fails late stops its successor
  (`externalclusterreference_controller.go:130`); the resync brings it back,
  which is within `WantedManagerIsStored`.
* A manager is not stopped any more once its Secret or its entry is gone
  (`externalclusterreference_controller.go:55`); `UnusedManagerStopped` assumes
  that the entry is there.
* `handleFinalizer` drops a finalizer that another controller has set since the
  copy was read (`stewardcontrolplane_finalizer.go:21`); `OtherFinalizerStays`
  assumes that it is set again, and says that this ends.
* Labels of the TCP are replaced, also those of others
  (`stewardcontrolplane_controller_tcp.go:59`); `OthersKept` is about
  annotations.
* Source ranges and class of the load balancer stay on the TCP when they are
  removed from the SCP (`stewardcontrolplane_controller_tcp.go:213`), where
  `api/v1alpha1/stewardcontrolplane_types.go:84` says "If left empty, the
  service will allow traffic from all IP ranges".  `TenantFollows` asks for
  them only when they are set.
* A reported port above 32767 is refused, also when an Ingress or a Gateway
  replaces the address (`stewardcontrolplane_controller_cluster_patch.go:34`);
  `EndpointFollows` assumes one that fits.

## 7. Plan

Done: every component that changes state, the composition of the two
controllers, the contract and its refinement; a theorem for every invariant and
action property of the passing runs.  Left, in this order:

1. `RemoteTCPGuarded` with moves, restricted to the location that the reference
   names.
2. The safety half of `ConditionsFollow`: at rest, and if the deferred update was
   accepted, the conditions from the endpoint patch on are those of the last
   reconciliation.
3. An SCP created again under the same name in `StewardControlPlane`.
