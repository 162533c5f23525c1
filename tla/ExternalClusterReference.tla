---------------------- MODULE ExternalClusterReference ----------------------
(***************************************************************************)
(* The controller that keeps one controller-runtime manager running for    *)
(* every kubeconfig a StewardControlPlane refers to, and the store through *)
(* which the StewardControlPlane reconciler finds the managers' clients:   *)
(*   - externalclusterreference.Store (Get, Stop, Add), a map behind a     *)
(*     mutex;                                                              *)
(*   - ExternalClusterReferenceReconciler.Reconcile, run by one worker,    *)
(*     one step per call it makes on the store, on the cache or on a new   *)
(*     manager;                                                            *)
(*   - startManager, a goroutine per manager that stops the store's entry  *)
(*     when the manager's Start returns an error.                          *)
(* A store key "namespace/name/entry" is a pair <<Secret, data entry>>.    *)
(* `secret` and `ref` are the objects as the informer cache holds them:    *)
(* the controller reads Secrets and StewardControlPlanes from that cache   *)
(* only and writes neither, so the cached view is all it can observe.      *)
(***************************************************************************)
EXTENDS Naturals

CONSTANTS
    Secrets,        \* kubeconfig Secrets
    DataKeys,       \* entries a Secret's data may have
    SCPs,           \* StewardControlPlanes
    Managers,       \* identities for managers (reused once a manager is gone)
    NoManager,      \* no manager
    NoKey,          \* no ExternalClusterReference
    MaxRevision,    \* bound: how many times Secrets are written
    MaxFaults       \* bound: failed calls, failing managers and restarts

ASSUME ECRAssumption ==
    /\ NoManager \notin Managers
    /\ NoKey \notin Secrets \X DataKeys
    /\ MaxRevision \in Nat
    /\ MaxFaults \in Nat

Keys == Secrets \X DataKeys

(***************************************************************************)
(* What a data entry holds: nothing, a kubeconfig, or bytes from which     *)
(* clientcmd.RESTConfigFromKubeConfig makes no configuration.              *)
(***************************************************************************)
Content == {"absent", "valid", "malformed"}

SecretObject == [rv : Nat, data : [DataKeys -> Content]]

\* A Secret that is not in the cache; resource versions start at 1.
NoSecret == [rv |-> 0, data |-> [d \in DataKeys |-> "absent"]]

Instance == [rv : Nat, mgr : Managers \cup {NoManager}]

\* A store key with no instance.
NoInstance == [rv |-> 0, mgr |-> NoManager]

VARIABLES
    secret,     \* cached Secrets
    ref,        \* cached StewardControlPlanes: the key each refers to
    revision,   \* last resource version given to a Secret
    queue,      \* Secrets waiting in the controller's work queue
    store,      \* mapStore.store
    manager,    \* goroutine of each manager and whether its context is cancelled
    pc,         \* where the worker is in Reconcile
    req,        \* the Secret being reconciled
    snap,       \* the Secret as Reconcile read it
    todo,       \* keys of the first loop still to look at
    keys,       \* referenced keys still to look at in the second loop
    cur,        \* the key in hand
    fresh,      \* the manager that was started and not yet added
    faults      \* faults so far

world  == <<secret, ref, revision>>
worker == <<pc, req, snap, todo, keys, cur, fresh>>
vars   == <<world, queue, store, manager, worker, faults>>

ManagerRecord ==
    [state : {"none", "running", "failed"}, key : Keys \cup {NoKey}, cancelled : BOOLEAN]

NoGoroutine == [state |-> "none", key |-> NoKey, cancelled |-> FALSE]

TypeOK ==
    /\ secret \in [Secrets -> SecretObject]
    /\ ref \in [SCPs -> Keys \cup {NoKey}]
    /\ revision \in Nat
    /\ queue \subseteq Secrets
    /\ store \in [Keys -> Instance]
    /\ manager \in [Managers -> ManagerRecord]
    /\ pc \in {"idle", "loop", "stopUnused", "stopOutdated", "build", "add"}
    /\ req \in Secrets \cup {NoKey}
    /\ snap \in SecretObject
    /\ todo \subseteq Keys
    /\ keys \subseteq Keys
    /\ cur \in Keys \cup {NoKey}
    /\ fresh \in Managers \cup {NoManager}
    /\ faults \in Nat

Init ==
    /\ secret = [s \in Secrets |-> NoSecret]
    /\ ref = [p \in SCPs |-> NoKey]
    /\ revision = 0
    /\ queue = {}
    /\ store = [k \in Keys |-> NoInstance]
    /\ manager = [m \in Managers |-> NoGoroutine]
    /\ pc = "idle"
    /\ req = NoKey
    /\ snap = NoSecret
    /\ todo = {}
    /\ keys = {}
    /\ cur = NoKey
    /\ fresh = NoManager
    /\ faults = 0

-----------------------------------------------------------------------------
(***************************************************************************)
(* Key names and the two cache indexes built from them.                    *)
(***************************************************************************)

\* Mutant: the key is the entry alone, without the Secret's name.
UnqualifiedKeyNames(name, object) == {e \in DataKeys : object.data[e] # "absent"}

\* The entries of a Secret as store keys.
GenerateKeyNameFromSecret(name, object) ==
    {<<name, d>> : d \in {e \in DataKeys : object.data[e] # "absent"}}

\* StewardControlPlanes the index returns for a key.
ReferencingControlPlanes(k) == {p \in SCPs : ref[p] = k}

\* Mutant: a key counts as used for as long as it has a manager.
UnusedAndNotStored(k) == ReferencingControlPlanes(k) = {} /\ store[k] = NoInstance

\* Nobody refers to the key.
Unused(k) == ReferencingControlPlanes(k) = {}

\* Secrets the index returns for the key a StewardControlPlane refers to.
GetSecretFromReferences(k) ==
    {s \in Secrets : k \in GenerateKeyNameFromSecret(s, secret[s])}

-----------------------------------------------------------------------------
(***************************************************************************)
(* The store.  Each operation runs under the store's mutex.                *)
(***************************************************************************)

StoreHas(k) == store[k] # NoInstance

\* Get finds a manager only when it was added for this resource version.
StoreGet(k, rv) == StoreHas(k) /\ store[k].rv = rv

\* Mutant: Stop cancels the manager and forgets to delete the instance.
StoreStopKeepingInstance(k) == store

\* Stop calls the instance's StopFunc, which cancels its manager's context,
\* and deletes it; with no instance it does nothing.
StoreStop(k) == [store EXCEPT ![k] = NoInstance]

\* Mutant: Stop deletes the instance without calling its StopFunc.
CancelNothing(k) == manager

CancelStopped(k) ==
    [m \in Managers |->
        IF StoreHas(k) /\ store[k].mgr = m
          THEN [manager[m] EXCEPT !.cancelled = TRUE]
          ELSE manager[m]]

\* Mutant: the instance does not record the resource version.
StoreAddUnversioned(k, rv, m) ==
    IF StoreHas(k) THEN store ELSE [store EXCEPT ![k] = [rv |-> 0, mgr |-> m]]

\* Add leaves an existing instance alone.
StoreAdd(k, rv, m) ==
    IF StoreHas(k) THEN store ELSE [store EXCEPT ![k] = [rv |-> rv, mgr |-> m]]

-----------------------------------------------------------------------------
(***************************************************************************)
(* What arrives in the cache.  Every change enqueues the Secret it is      *)
(* about; a change of a StewardControlPlane enqueues the Secrets indexed   *)
(* under the key of its old and of its new version.                        *)
(***************************************************************************)

SecretWritten(s) ==
    /\ revision < MaxRevision
    /\ revision' = revision + 1
    /\ \E data \in [DataKeys -> Content] :
          secret' = [secret EXCEPT ![s] = [rv |-> revision + 1, data |-> data]]
    /\ queue' = queue \cup {s}
    /\ UNCHANGED <<ref, store, manager, worker, faults>>

SecretDeleted(s) ==
    /\ secret[s].rv # 0
    /\ secret' = [secret EXCEPT ![s] = NoSecret]
    /\ queue' = queue \cup {s}
    /\ UNCHANGED <<ref, revision, store, manager, worker, faults>>

ReferenceChanged(p, k) ==
    /\ ref[p] # k
    /\ ref' = [ref EXCEPT ![p] = k]
    /\ queue' = queue \cup GetSecretFromReferences(ref[p])
                      \cup GetSecretFromReferences(k)
    /\ UNCHANGED <<secret, revision, store, manager, worker, faults>>

\* The informers' periodic resync hands every cached object to the handlers.
Resync(s) ==
    /\ secret[s].rv # 0
    /\ s \notin queue
    /\ queue' = queue \cup {s}
    /\ UNCHANGED <<world, store, manager, worker, faults>>

-----------------------------------------------------------------------------
(***************************************************************************)
(* Reconcile.                                                              *)
(***************************************************************************)

WorkerReturns ==
    /\ pc' = "idle"
    /\ req' = NoKey
    /\ snap' = NoSecret
    /\ todo' = {}
    /\ keys' = {}
    /\ cur' = NoKey
    /\ fresh' = NoManager

\* A returned error puts the request back in the queue.
WorkerReturnsError == WorkerReturns /\ queue' = queue \cup {req}

\* The worker takes a Secret from the queue and reads it from the cache.
Begin(s) ==
    /\ pc = "idle"
    /\ s \in queue
    /\ queue' = queue \ {s}
    /\ IF secret[s].rv = 0
         THEN UNCHANGED worker
         ELSE /\ pc' = "loop"
              /\ req' = s
              /\ snap' = secret[s]
              /\ todo' = GenerateKeyNameFromSecret(s, secret[s])
              /\ UNCHANGED <<keys, cur, fresh>>
    /\ UNCHANGED <<world, store, manager, faults>>

\* First loop: list the StewardControlPlanes that refer to the key.
ListReferences(k) ==
    /\ pc = "loop"
    /\ k \in todo
    /\ todo' = todo \ {k}
    /\ IF Unused(k)
         THEN pc' = "stopUnused" /\ cur' = k /\ UNCHANGED keys
         ELSE keys' = keys \cup {k} /\ UNCHANGED <<pc, cur>>
    /\ UNCHANGED <<world, queue, store, manager, req, snap, fresh, faults>>

\* First loop: nobody refers to the key, stop its manager if there is one.
StopUnused ==
    /\ pc = "stopUnused"
    /\ store' = StoreStop(cur)
    /\ manager' = CancelStopped(cur)
    /\ pc' = "loop"
    /\ cur' = NoKey
    /\ UNCHANGED <<world, queue, req, snap, todo, keys, fresh, faults>>

\* Mutant: a manager for any version of the Secret is kept.
HasManager(k) == StoreHas(k)

\* The key has a manager for the version of the Secret in hand.
UpToDate(k) == StoreGet(k, snap.rv)

\* Mutant: the keys are walked in a fixed order.
GetManagerSorted(k) ==
    /\ pc = "loop"
    /\ todo = {}
    /\ k \in keys /\ k = CHOOSE first \in keys : TRUE
    /\ keys' = keys \ {k}
    /\ IF UpToDate(k)
         THEN UNCHANGED <<pc, cur>>
         ELSE pc' = "stopOutdated" /\ cur' = k
    /\ UNCHANGED <<world, queue, store, manager, req, snap, todo, fresh, faults>>

\* Second loop: a manager for this version of the Secret is kept as it is.
GetManager(k) ==
    /\ pc = "loop"
    /\ todo = {}
    /\ k \in keys
    /\ keys' = keys \ {k}
    /\ IF UpToDate(k)
         THEN UNCHANGED <<pc, cur>>
         ELSE pc' = "stopOutdated" /\ cur' = k
    /\ UNCHANGED <<world, queue, store, manager, req, snap, todo, fresh, faults>>

\* Mutant: the outdated manager is not stopped.
LeaveOutdated ==
    /\ pc = "stopOutdated"
    /\ pc' = "build"
    /\ UNCHANGED <<world, queue, store, manager, req, snap, todo, keys, cur, fresh, faults>>

\* Second loop: any other manager of the key is stopped first.
StopOutdated ==
    /\ pc = "stopOutdated"
    /\ store' = StoreStop(cur)
    /\ manager' = CancelStopped(cur)
    /\ pc' = "build"
    /\ UNCHANGED <<world, queue, req, snap, todo, keys, cur, fresh, faults>>

\* The entry holds no usable kubeconfig.
RejectKubeconfig ==
    /\ pc = "build"
    /\ snap.data[cur[2]] # "valid"
    /\ WorkerReturnsError
    /\ UNCHANGED <<world, store, manager, faults>>

\* Identities free for a new manager: no goroutine runs it, nothing holds it.
FreeManager(m) ==
    /\ manager[m].state = "none"
    /\ fresh # m
    /\ \A k \in Keys : store[k].mgr # m

\* ctrl.NewManager, then its goroutine is started, before the store knows it.
StartNewManager(m) ==
    /\ pc = "build"
    /\ snap.data[cur[2]] = "valid"
    /\ FreeManager(m)
    /\ manager' = [manager EXCEPT
                     ![m] = [state |-> "running", key |-> cur, cancelled |-> FALSE]]
    /\ fresh' = m
    /\ pc' = "add"
    /\ UNCHANGED <<world, queue, store, req, snap, todo, keys, cur, faults>>

AddManager ==
    /\ pc = "add"
    /\ store' = StoreAdd(cur, snap.rv, fresh)
    /\ pc' = "loop"
    /\ cur' = NoKey
    /\ fresh' = NoManager
    /\ UNCHANGED <<world, queue, manager, req, snap, todo, keys, faults>>

Finish ==
    /\ pc = "loop"
    /\ todo = {}
    /\ keys = {}
    /\ WorkerReturns
    /\ UNCHANGED <<world, queue, store, manager, faults>>

\* Listing through the index, ctrl.NewManager or the set-up of its controller fails.
CallFails ==
    /\ faults < MaxFaults
    /\ \/ pc = "loop" /\ todo # {}
       \/ pc = "build" /\ snap.data[cur[2]] = "valid"
    /\ WorkerReturnsError
    /\ faults' = faults + 1
    /\ UNCHANGED <<world, store, manager>>

-----------------------------------------------------------------------------
(***************************************************************************)
(* startManager: mgr.Start returns nil once its context is cancelled, and  *)
(* an error when the manager cannot start or run, or does not shut down in *)
(* time after the cancellation.                                            *)
(***************************************************************************)

StartReturnsNil(m) ==
    /\ manager[m].state = "running"
    /\ manager[m].cancelled
    /\ manager' = [manager EXCEPT ![m] = NoGoroutine]
    /\ UNCHANGED <<world, queue, store, worker, faults>>

StartReturnsError(m) ==
    /\ faults < MaxFaults
    /\ manager[m].state = "running"
    /\ manager' = [manager EXCEPT ![m].state = "failed"]
    /\ faults' = faults + 1
    /\ UNCHANGED <<world, queue, store, worker>>

\* The goroutine stops whatever the store holds under the manager's key.
StopAfterFailure(m) ==
    /\ manager[m].state = "failed"
    /\ store' = StoreStop(manager[m].key)
    /\ manager' = [CancelStopped(manager[m].key) EXCEPT ![m] = NoGoroutine]
    /\ UNCHANGED <<world, queue, worker, faults>>

-----------------------------------------------------------------------------
\* The process dies and starts again: its memory is gone, the new one's
\* informers list every Secret.
Restart ==
    /\ faults < MaxFaults
    /\ faults' = faults + 1
    /\ store' = [k \in Keys |-> NoInstance]
    /\ manager' = [m \in Managers |-> NoGoroutine]
    /\ WorkerReturns
    /\ queue' = {s \in Secrets : secret[s].rv # 0}
    /\ UNCHANGED world

Environment ==
    \/ \E s \in Secrets : SecretWritten(s) \/ SecretDeleted(s) \/ Resync(s)
    \/ \E p \in SCPs, k \in Keys \cup {NoKey} : ReferenceChanged(p, k)
    \/ Restart

Worker ==
    \/ \E s \in Secrets : Begin(s)
    \/ \E k \in Keys : ListReferences(k) \/ GetManager(k)
    \/ \E m \in Managers : StartNewManager(m)
    \/ StopUnused \/ StopOutdated \/ RejectKubeconfig \/ AddManager \/ Finish
    \/ CallFails

Goroutine(m) == StartReturnsNil(m) \/ StartReturnsError(m) \/ StopAfterFailure(m)

Next == Environment \/ Worker \/ \E m \in Managers : Goroutine(m)

Spec == Init /\ [][Next]_vars

(***************************************************************************)
(* Fairness.  The worker and the goroutines keep running; the work queue   *)
(* is first in, first out, so no Secret waits for ever (strong fairness of *)
(* Begin); Go walks a map in random order, so no key is always behind a    *)
(* key that makes Reconcile return (strong fairness of GetManager); the    *)
(* informers resync.  Nothing is assumed of Secrets, references or faults. *)
(***************************************************************************)
Fairness ==
    /\ \A s \in Secrets : SF_vars(Begin(s)) /\ WF_vars(Resync(s))
    /\ \A k \in Keys : SF_vars(GetManager(k))
    /\ WF_vars(\E k \in Keys : ListReferences(k) \/ GetManager(k))
    /\ WF_vars(StopUnused \/ StopOutdated \/ RejectKubeconfig \/ AddManager \/ Finish)
    /\ WF_vars(\E m \in Managers : StartNewManager(m))
    /\ \A m \in Managers : WF_vars(StartReturnsNil(m)) /\ WF_vars(StopAfterFailure(m))

FairSpec == Spec /\ Fairness

-----------------------------------------------------------------------------
(***************************************************************************)
(* Safety.                                                                 *)
(***************************************************************************)

\* A manager that runs and that nobody has told to stop.
Live(m) == manager[m].state = "running" /\ ~manager[m].cancelled

(***************************************************************************)
(* A live manager can still be stopped: the store holds it under its key,  *)
(* or Reconcile has started it and is about to call Store.Add (whose       *)
(* result Reconcile ignores).  Otherwise its cancel function is lost and   *)
(* it watches the remote cluster until the process ends.                   *)
(***************************************************************************)
NoLeakedManager ==
    \A m \in Managers :
        Live(m) => \/ store[manager[m].key].mgr = m
                   \/ pc = "add" /\ fresh = m

(***************************************************************************)
(* Two live managers never work on the same kubeconfig entry: Reconcile    *)
(* stops the outdated one before it starts its successor, whatever the     *)
(* goroutines of failed managers do to the store in between.               *)
(***************************************************************************)
OneManagerPerKey ==
    \A m, n \in Managers :
        Live(m) /\ Live(n) /\ manager[m].key = manager[n].key => m = n

(***************************************************************************)
(* Store.Get never hands out the client of a manager whose context is      *)
(* cancelled, nor of a manager that runs for another kubeconfig entry.     *)
(***************************************************************************)
StoredManagerUsable ==
    \A k \in Keys :
        LET m == store[k].mgr IN
        StoreHas(k) => /\ m \in Managers
                       /\ ~manager[m].cancelled
                       /\ manager[m].state # "none" => manager[m].key = k

-----------------------------------------------------------------------------
(***************************************************************************)
(* Liveness.                                                               *)
(***************************************************************************)

\* Somebody refers to the entry, and it holds a kubeconfig.
Wanted(k) ==
    /\ ReferencingControlPlanes(k) # {}
    /\ secret[k[1]].data[k[2]] = "valid"

\* extractRemoteClient finds a client: the store has a manager for the
\* resource version the cached Secret has now.
ExtractRemoteClient(k) ==
    /\ secret[k[1]].rv # 0
    /\ secret[k[1]].data[k[2]] # "absent"
    /\ StoreGet(k, secret[k[1]].rv)

(***************************************************************************)
(* A referenced kubeconfig gets a manager in the store, whatever the other *)
(* entries of its Secret hold, and however Secret updates, failing         *)
(* managers and restarts interleave with the reconciliation.               *)
(***************************************************************************)
WantedManagerIsStored ==
    \A k \in Keys : Wanted(k) ~> (ExtractRemoteClient(k) \/ ~Wanted(k))

(***************************************************************************)
(* While its Secret keeps the entry, a manager nobody refers to any more   *)
(* is stopped.  (Reconcile looks only at the entries the Secret has now:   *)
(* once the entry or the Secret is gone, the manager is never stopped.)    *)
(***************************************************************************)
UnusedManagerStopped ==
    \A k \in Keys :
        (StoreHas(k) /\ ReferencingControlPlanes(k) = {}) ~>
            \/ ~StoreHas(k)
            \/ ReferencingControlPlanes(k) # {}
            \/ secret[k[1]].data[k[2]] = "absent"

-----------------------------------------------------------------------------
(***************************************************************************)
(* A statement of the code that the model refutes.                         *)
(***************************************************************************)

(***************************************************************************)
(* startManager, on an error of mgr.Start: "manager cannot be started,     *)
(* external cluster reference could not work", and the store's instance is *)
(* stopped.  So a manager whose Start has returned is not in the store.    *)
(***************************************************************************)
FailedManagerLeavesStore ==
    \A k \in Keys : StoreHas(k) => manager[store[k].mgr].state # "none"
=============================================================================
