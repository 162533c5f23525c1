------------------- MODULE ExternalClusterReferenceProofs -------------------
(***************************************************************************)
(* Proofs about ExternalClusterReference, for every set of Secrets, data   *)
(* entries, StewardControlPlanes and managers.                             *)
(***************************************************************************)
EXTENDS ExternalClusterReference, TLAPS

(***************************************************************************)
(* The inductive invariant.  A goroutine knows its key; the store never    *)
(* holds a manager twice; the worker holds a key where Reconcile does, and *)
(* between Store.Stop and Store.Add that key has no instance, so that Add  *)
(* cannot refuse the manager; the manager just started is not in the store *)
(* and nobody has cancelled it.                                            *)
(***************************************************************************)
GoroutineInv ==
    \A m \in Managers : manager[m].state # "none" => manager[m].key \in Keys

StoreInv ==
    /\ \A k \in Keys : StoreHas(k) => store[k].mgr \in Managers
    /\ \A k, l \in Keys :
          store[k].mgr = store[l].mgr /\ store[k].mgr \in Managers => k = l

WorkerInv ==
    /\ pc # "idle" => req \in Secrets
    /\ pc \in {"stopUnused", "stopOutdated", "build", "add"} => cur \in Keys
    /\ pc \in {"build", "add"} => ~StoreHas(cur)
    /\ pc = "add" => /\ fresh \in Managers
                     /\ \A k \in Keys : store[k].mgr # fresh
                     /\ ~manager[fresh].cancelled
                     /\ manager[fresh].state # "none" => manager[fresh].key = cur

ECRInv ==
    /\ TypeOK
    /\ GoroutineInv
    /\ StoreInv
    /\ WorkerInv
    /\ StoredManagerUsable
    /\ NoLeakedManager

-----------------------------------------------------------------------------
(***************************************************************************)
(* Lemmas about the operators.                                             *)
(***************************************************************************)

\* The null values have their types, and the entries of a Secret are keys.
LEMMA NullValues ==
    /\ NoSecret \in SecretObject
    /\ NoInstance \in Instance
    /\ NoGoroutine \in ManagerRecord
  BY DEF NoSecret, SecretObject, Content, NoInstance, Instance, NoGoroutine,
         ManagerRecord

\* What GenerateKeyNameFromSecret returns are store keys.
LEMMA GeneratedKeys ==
    ASSUME NEW s \in Secrets, NEW object
    PROVE  GenerateKeyNameFromSecret(s, object) \subseteq Keys
  BY DEF GenerateKeyNameFromSecret, Keys

\* Stop empties the key, leaves the others, and cancels at most the manager
\* that was stored under it.
LEMMA StopEffect ==
    ASSUME ECRInv, NEW k \in Keys
    PROVE  /\ StoreStop(k) \in [Keys -> Instance]
           /\ StoreStop(k)[k] = NoInstance
           /\ \A l \in Keys \ {k} : StoreStop(k)[l] = store[l]
           /\ CancelStopped(k) \in [Managers -> ManagerRecord]
           /\ \A m \in Managers :
                 /\ CancelStopped(k)[m].state = manager[m].state
                 /\ CancelStopped(k)[m].key = manager[m].key
                 /\ store[k].mgr # m => CancelStopped(k)[m] = manager[m]
                 /\ store[k].mgr = m => CancelStopped(k)[m].cancelled
  BY NullValues, ECRAssumption
     DEF ECRInv, TypeOK, StoreInv, StoreStop, CancelStopped, StoreHas, NoInstance,
         Instance, ManagerRecord

-----------------------------------------------------------------------------
(***************************************************************************)
(* The invariant is inductive.                                             *)
(***************************************************************************)

\* The initial state, an empty store and no goroutine, satisfies ECRInv.
LEMMA InitInv == Init => ECRInv
  <1> SUFFICES ASSUME Init PROVE ECRInv
    OBVIOUS
  <1>1. TypeOK
    BY NullValues DEF Init, TypeOK
  <1>2. GoroutineInv /\ NoLeakedManager
    BY DEF Init, GoroutineInv, NoLeakedManager, Live, NoGoroutine
  <1>3. StoreInv /\ StoredManagerUsable
    BY ECRAssumption DEF Init, StoreInv, StoredManagerUsable, StoreHas, NoInstance
  <1>4. WorkerInv
    BY DEF Init, WorkerInv
  <1> QED
    BY <1>1, <1>2, <1>3, <1>4 DEF ECRInv

\* Changes of Secrets and references, and resyncs, touch neither the store,
\* nor the goroutines, nor the worker.
LEMMA EnvironmentInv ==
    ASSUME ECRInv,
           \/ \E s \in Secrets : SecretWritten(s) \/ SecretDeleted(s) \/ Resync(s)
           \/ \E p \in SCPs, k \in Keys \cup {NoKey} : ReferenceChanged(p, k)
    PROVE  ECRInv'
  <1>1. TypeOK'
    <2>1. CASE \E s \in Secrets : SecretWritten(s)
      BY <2>1 DEF ECRInv, TypeOK, SecretWritten, SecretObject, worker
    <2>2. CASE \E s \in Secrets : SecretDeleted(s)
      BY <2>2, NullValues DEF ECRInv, TypeOK, SecretDeleted, worker
    <2>3. CASE \E s \in Secrets : Resync(s)
      BY <2>3 DEF ECRInv, TypeOK, Resync, worker, world
    <2>4. CASE \E p \in SCPs, k \in Keys \cup {NoKey} : ReferenceChanged(p, k)
      BY <2>4 DEF ECRInv, TypeOK, ReferenceChanged, worker, GetSecretFromReferences
    <2> QED
      BY <2>1, <2>2, <2>3, <2>4
  <1>2. UNCHANGED <<store, manager, worker>>
    BY DEF SecretWritten, SecretDeleted, Resync, ReferenceChanged
  <1> QED
    BY <1>1, <1>2
       DEF ECRInv, GoroutineInv, StoreInv, WorkerInv, StoredManagerUsable,
           NoLeakedManager, StoreHas, Live, worker

\* Steps in which the worker moves on and leaves store and goroutines alone.
LEMMA WorkerMovesInv ==
    ASSUME ECRInv,
           \/ \E s \in Secrets : Begin(s)
           \/ \E k \in Keys : ListReferences(k) \/ GetManager(k)
           \/ RejectKubeconfig \/ Finish \/ CallFails
    PROVE  ECRInv'
  <1>1. TypeOK' /\ pc' # "add" /\ pc # "add" /\ UNCHANGED <<store, manager>>
        /\ (pc' \in {"stopUnused", "stopOutdated"} => cur' \in Keys)
        /\ pc' # "build"
        /\ (pc' # "idle" => req' \in Secrets)
    <2>1. CASE \E s \in Secrets : Begin(s)
      BY <2>1, GeneratedKeys DEF ECRInv, TypeOK, WorkerInv, Begin, worker, world
    <2>2. CASE \E k \in Keys : ListReferences(k)
      BY <2>2 DEF ECRInv, TypeOK, WorkerInv, ListReferences, Unused, world
    <2>3. CASE \E k \in Keys : GetManager(k)
      BY <2>3 DEF ECRInv, TypeOK, WorkerInv, GetManager, world
    <2>4. CASE RejectKubeconfig \/ Finish \/ CallFails
      BY <2>4, NullValues
         DEF ECRInv, TypeOK, WorkerInv, RejectKubeconfig, Finish, CallFails,
             WorkerReturnsError, WorkerReturns, world
    <2> QED
      BY <2>1, <2>2, <2>3, <2>4
  <1> QED
    BY <1>1
       DEF ECRInv, GoroutineInv, StoreInv, WorkerInv, StoredManagerUsable,
           NoLeakedManager, StoreHas, Live

\* Store.Stop, from either loop of Reconcile.
LEMMA StopInv ==
    ASSUME ECRInv, StopUnused \/ StopOutdated
    PROVE  ECRInv'
  <1>1. /\ cur \in Keys
        /\ store' = StoreStop(cur)
        /\ manager' = CancelStopped(cur)
        /\ pc # "add" /\ pc' # "add" /\ pc # "idle"
        /\ pc' = "build" => cur' = cur
        /\ pc' \in {"loop", "build"}
        /\ cur' \in Keys \cup {NoKey}
        /\ UNCHANGED <<world, queue, req, snap, todo, keys, fresh, faults>>
    BY DEF ECRInv, WorkerInv, StopUnused, StopOutdated
  <1>2. TypeOK'
    BY <1>1, StopEffect DEF ECRInv, TypeOK, world
  <1>3. GoroutineInv'
    BY <1>1, StopEffect DEF ECRInv, GoroutineInv
  <1>4. StoreInv'
    <2>1. NoInstance.mgr \notin Managers
      BY ECRAssumption DEF NoInstance
    <2>2. \A l \in Keys : store'[l] = IF l = cur THEN NoInstance ELSE store[l]
      BY <1>1, StopEffect
    <2> QED
      BY <2>1, <2>2 DEF ECRInv, StoreInv, StoreHas
  <1>5. WorkerInv'
    BY <1>1, StopEffect DEF ECRInv, WorkerInv, StoreHas
  <1>6. StoredManagerUsable'
    BY <1>1, StopEffect DEF ECRInv, StoreInv, StoredManagerUsable, StoreHas
  <1>7. NoLeakedManager'
    <2> SUFFICES ASSUME NEW m \in Managers, Live(m)'
                 PROVE  store'[manager'[m].key].mgr = m
      BY DEF NoLeakedManager
    <2>1. Live(m) /\ store[cur].mgr # m /\ manager'[m] = manager[m]
      BY <1>1, StopEffect DEF Live
    <2>2. store[manager[m].key].mgr = m /\ manager[m].key \in Keys
      BY <1>1, <2>1 DEF ECRInv, NoLeakedManager, GoroutineInv, Live
    <2> QED
      BY <1>1, <2>1, <2>2, StopEffect
  <1> QED
    BY <1>2, <1>3, <1>4, <1>5, <1>6, <1>7 DEF ECRInv

\* A new manager's goroutine: nothing else knows the identity yet.
LEMMA StartInv ==
    ASSUME ECRInv, NEW n \in Managers, StartNewManager(n)
    PROVE  ECRInv'
  <1>1. cur \in Keys /\ ~StoreHas(cur) /\ pc = "build" /\ pc' = "add"
        /\ fresh' = n /\ store' = store /\ cur' = cur
    BY DEF ECRInv, WorkerInv, StartNewManager
  <1>2. /\ manager'[n] = [state |-> "running", key |-> cur, cancelled |-> FALSE]
        /\ \A m \in Managers \ {n} : manager'[m] = manager[m]
        /\ manager' \in [Managers -> ManagerRecord]
    BY <1>1 DEF ECRInv, TypeOK, StartNewManager, ManagerRecord
  <1>3. TypeOK'
    BY <1>1, <1>2 DEF ECRInv, TypeOK, StartNewManager, world
  <1>4. GoroutineInv' /\ StoreInv'
    BY <1>1, <1>2 DEF ECRInv, GoroutineInv, StoreInv, StoreHas
  <1>5. WorkerInv'
    BY <1>1, <1>2 DEF ECRInv, WorkerInv, StartNewManager, FreeManager, StoreHas
  <1>6. StoredManagerUsable'
    BY <1>1, <1>2 DEF ECRInv, StoredManagerUsable, StartNewManager, FreeManager, StoreHas
  <1>7. NoLeakedManager'
    BY <1>1, <1>2 DEF ECRInv, NoLeakedManager, Live
  <1> QED
    BY <1>3, <1>4, <1>5, <1>6, <1>7 DEF ECRInv

\* Store.Add: the key is still free, so the manager is stored.
LEMMA AddInv ==
    ASSUME ECRInv, AddManager
    PROVE  ECRInv'
  <1>1. /\ cur \in Keys /\ fresh \in Managers
        /\ store[cur] = NoInstance
        /\ pc = "add" /\ pc' = "loop"
        /\ store' = [store EXCEPT ![cur] = [rv |-> snap.rv, mgr |-> fresh]]
        /\ UNCHANGED <<world, queue, manager, req, snap, todo, keys, faults>>
        /\ cur' = NoKey /\ fresh' = NoManager
    BY DEF ECRInv, WorkerInv, AddManager, StoreAdd, StoreHas
  <1>2. /\ store' \in [Keys -> Instance]
        /\ store'[cur].mgr = fresh
        /\ \A k \in Keys \ {cur} : store'[k] = store[k]
    BY <1>1 DEF ECRInv, TypeOK, Instance, SecretObject
  <1>3. TypeOK'
    BY <1>1, <1>2 DEF ECRInv, TypeOK, world
  <1>4. GoroutineInv'
    BY <1>1 DEF ECRInv, GoroutineInv
  <1>5. StoreInv'
    BY <1>1, <1>2 DEF ECRInv, StoreInv, WorkerInv, StoreHas
  <1>6. WorkerInv'
    BY <1>1 DEF ECRInv, WorkerInv
  <1>7. StoredManagerUsable'
    BY <1>1, <1>2 DEF ECRInv, StoredManagerUsable, WorkerInv, StoreHas
  <1>8. NoLeakedManager'
    <2> SUFFICES ASSUME NEW m \in Managers, Live(m)'
                 PROVE  store'[manager'[m].key].mgr = m
      BY DEF NoLeakedManager
    <2>1. Live(m) /\ manager'[m] = manager[m] /\ manager[m].key \in Keys
      BY <1>1 DEF ECRInv, GoroutineInv, Live
    <2>2. CASE m = fresh
      BY <1>1, <1>2, <2>1, <2>2 DEF ECRInv, WorkerInv, Live
    <2>3. CASE m # fresh
      BY <1>1, <1>2, <2>1, <2>3, ECRAssumption DEF ECRInv, NoLeakedManager, NoInstance
    <2> QED
      BY <2>2, <2>3
  <1> QED
    BY <1>3, <1>4, <1>5, <1>6, <1>7, <1>8 DEF ECRInv

\* mgr.Start returns: the store is not involved.
LEMMA StartReturnsInv ==
    ASSUME ECRInv, NEW n \in Managers, StartReturnsNil(n) \/ StartReturnsError(n)
    PROVE  ECRInv'
  <1>1. /\ UNCHANGED <<store, worker, world, queue>>
        /\ manager[n].state = "running"
        /\ \A m \in Managers \ {n} : manager'[m] = manager[m]
        /\ \/ manager[n].cancelled /\ manager'[n] = NoGoroutine
           \/ /\ manager'[n].state = "failed"
              /\ manager'[n].key = manager[n].key
              /\ manager'[n].cancelled = manager[n].cancelled
        /\ manager' \in [Managers -> ManagerRecord]
        /\ faults' \in Nat
    BY NullValues
       DEF ECRInv, TypeOK, ManagerRecord, StartReturnsNil, StartReturnsError
  <1>2. TypeOK'
    BY <1>1 DEF ECRInv, TypeOK, worker, world
  <1>3. GoroutineInv'
    BY <1>1 DEF ECRInv, GoroutineInv, NoGoroutine
  <1>4. StoreInv'
    BY <1>1 DEF ECRInv, StoreInv, StoreHas
  <1>5. WorkerInv'
    BY <1>1 DEF ECRInv, WorkerInv, StoreHas, NoGoroutine, worker
  <1>6. StoredManagerUsable'
    BY <1>1 DEF ECRInv, StoredManagerUsable, StoreHas, NoGoroutine
  <1>7. NoLeakedManager'
    BY <1>1 DEF ECRInv, NoLeakedManager, Live, NoGoroutine, worker
  <1> QED
    BY <1>2, <1>3, <1>4, <1>5, <1>6, <1>7 DEF ECRInv

\* startManager's error path stops what the store holds under the key, which
\* may be a successor of the manager that failed.
LEMMA StopAfterFailureInv ==
    ASSUME ECRInv, NEW n \in Managers, StopAfterFailure(n)
    PROVE  ECRInv'
  <1> DEFINE k == manager[n].key
  <1>1. /\ k \in Keys
        /\ manager[n].state = "failed"
        /\ store' = StoreStop(k)
        /\ UNCHANGED <<world, queue, worker, faults>>
    BY DEF ECRInv, GoroutineInv, StopAfterFailure
  <1>2. /\ manager' \in [Managers -> ManagerRecord]
        /\ manager'[n] = NoGoroutine
        /\ \A m \in Managers \ {n} : manager'[m] = CancelStopped(k)[m]
    <2>1. manager' = [CancelStopped(k) EXCEPT ![n] = NoGoroutine]
      BY DEF StopAfterFailure
    <2>2. CancelStopped(k) \in [Managers -> ManagerRecord]
      BY <1>1, StopEffect
    <2> QED
      BY <2>1, <2>2, NullValues
  <1>3. \A l \in Keys : store'[l] = IF l = k THEN NoInstance ELSE store[l]
    BY <1>1, StopEffect
  <1>4. \A m \in Managers \ {n} :
           /\ manager'[m].state = manager[m].state
           /\ manager'[m].key = manager[m].key
           /\ store[k].mgr # m => manager'[m] = manager[m]
           /\ store[k].mgr = m => manager'[m].cancelled
    BY <1>1, <1>2, StopEffect
  <1>5. NoInstance.mgr \notin Managers
    BY ECRAssumption DEF NoInstance
  <1> HIDE DEF k
  <1>6. TypeOK'
    <2>1. store' \in [Keys -> Instance]
      BY <1>1, StopEffect
    <2> QED
      BY <1>1, <1>2, <2>1 DEF ECRInv, TypeOK, worker, world
  <1>7. GoroutineInv'
    BY <1>2, <1>4 DEF ECRInv, GoroutineInv, NoGoroutine
  <1>8. StoreInv'
    BY <1>3, <1>5 DEF ECRInv, StoreInv, StoreHas
  <1>9. WorkerInv'
    <2>1. UNCHANGED <<pc, cur, fresh, req>>
      BY <1>1 DEF worker
    <2>2. CASE pc = "add"
      <3>1. \A l \in Keys : store'[l].mgr # fresh
        BY <1>3, <1>5, <2>2 DEF ECRInv, WorkerInv
      <3>2. ~manager'[fresh].cancelled
            /\ (manager'[fresh].state # "none" => manager'[fresh].key = cur)
        BY <1>1, <1>2, <1>4, <2>2 DEF ECRInv, WorkerInv, NoGoroutine
      <3> QED
        BY <1>3, <2>1, <2>2, <3>1, <3>2 DEF ECRInv, WorkerInv, StoreHas
    <2>3. CASE pc # "add"
      BY <1>3, <2>1, <2>3 DEF ECRInv, WorkerInv, StoreHas
    <2> QED
      BY <2>2, <2>3
  <1>10. StoredManagerUsable'
    <2> SUFFICES ASSUME NEW l \in Keys, StoreHas(l)'
                 PROVE  /\ store'[l].mgr \in Managers
                        /\ ~manager'[store'[l].mgr].cancelled
                        /\ manager'[store'[l].mgr].state # "none"
                              => manager'[store'[l].mgr].key = l
      BY DEF StoredManagerUsable
    <2>1. l # k /\ store'[l] = store[l] /\ StoreHas(l)
      BY <1>3 DEF StoreHas
    <2>2. store[l].mgr \in Managers /\ store[l].mgr # store[k].mgr
      BY <1>1, <2>1 DEF ECRInv, StoreInv
    <2>3. /\ ~manager[store[l].mgr].cancelled
          /\ manager[store[l].mgr].state # "none" => manager[store[l].mgr].key = l
      BY <2>1 DEF ECRInv, StoredManagerUsable
    <2> QED
      BY <1>2, <1>4, <2>1, <2>2, <2>3 DEF NoGoroutine
  <1>11. NoLeakedManager'
    <2> SUFFICES ASSUME NEW m \in Managers, Live(m)'
                 PROVE  \/ store'[manager'[m].key].mgr = m
                        \/ pc' = "add" /\ fresh' = m
      BY DEF NoLeakedManager
    <2>1. m # n /\ Live(m) /\ store[k].mgr # m /\ manager'[m] = manager[m]
      BY <1>2, <1>4 DEF Live, NoGoroutine
    <2>2. manager[m].key \in Keys
      BY <2>1 DEF ECRInv, GoroutineInv, Live
    <2>3. store[manager[m].key].mgr = m \/ (pc = "add" /\ fresh = m)
      BY <2>1 DEF ECRInv, NoLeakedManager
    <2> QED
      BY <1>1, <1>3, <2>1, <2>2, <2>3 DEF worker
  <1> QED
    BY <1>6, <1>7, <1>8, <1>9, <1>10, <1>11 DEF ECRInv

\* A restart leaves nothing of the old process.
LEMMA RestartInv ==
    ASSUME ECRInv, Restart
    PROVE  ECRInv'
  <1>1. TypeOK'
    BY NullValues DEF ECRInv, TypeOK, Restart, WorkerReturns, world
  <1>2. GoroutineInv' /\ NoLeakedManager'
    BY DEF Restart, GoroutineInv, NoLeakedManager, Live, NoGoroutine
  <1>3. StoreInv' /\ StoredManagerUsable'
    BY ECRAssumption DEF Restart, StoreInv, StoredManagerUsable, StoreHas, NoInstance
  <1>4. WorkerInv'
    BY DEF Restart, WorkerReturns, WorkerInv
  <1> QED
    BY <1>1, <1>2, <1>3, <1>4 DEF ECRInv

\* Every step of the controller, its goroutines and its environment preserves
\* the invariant.
LEMMA NextInv == ECRInv /\ [Next]_vars => ECRInv'
  <1> SUFFICES ASSUME ECRInv, [Next]_vars PROVE ECRInv'
    OBVIOUS
  <1>1. CASE Environment
    BY <1>1, EnvironmentInv, RestartInv DEF Environment
  <1>2. CASE Worker
    BY <1>2, WorkerMovesInv, StopInv, StartInv, AddInv DEF Worker
  <1>3. CASE \E m \in Managers : Goroutine(m)
    BY <1>3, StartReturnsInv, StopAfterFailureInv DEF Goroutine
  <1>4. CASE UNCHANGED vars
    BY <1>4
       DEF ECRInv, TypeOK, GoroutineInv, StoreInv, WorkerInv, StoredManagerUsable,
           NoLeakedManager, StoreHas, Live, vars, worker, world
  <1> QED
    BY <1>1, <1>2, <1>3, <1>4 DEF Next

-----------------------------------------------------------------------------
(***************************************************************************)
(* ECRInv holds in every reachable state.                                  *)
(***************************************************************************)
THEOREM Invariance == Spec => []ECRInv
  BY InitInv, NextInv, PTL DEF Spec

(***************************************************************************)
(* Type correctness of the store, the goroutines and the worker.           *)
(***************************************************************************)
THEOREM TypeCorrect == Spec => []TypeOK
  <1>1. ECRInv => TypeOK
    BY DEF ECRInv
  <1> QED
    BY <1>1, Invariance, PTL

(***************************************************************************)
(* The ignored result of Store.Add in Reconcile is harmless: no manager is *)
(* ever live without somebody holding its cancel function, however failing *)
(* managers, Secret updates and reconciliations interleave.                *)
(***************************************************************************)
THEOREM NoManagerLeaks == Spec => []NoLeakedManager
  <1>1. ECRInv => NoLeakedManager
    BY DEF ECRInv
  <1> QED
    BY <1>1, Invariance, PTL

(***************************************************************************)
(* Store.Get hands out no cancelled manager and none of another entry.     *)
(***************************************************************************)
THEOREM StoredManagersUsable == Spec => []StoredManagerUsable
  <1>1. ECRInv => StoredManagerUsable
    BY DEF ECRInv
  <1> QED
    BY <1>1, Invariance, PTL

(***************************************************************************)
(* At most one live manager per kubeconfig entry: two would both have to   *)
(* be stored under the key, or one stored while Reconcile adds the other,  *)
(* which it only does after Store.Stop.                                    *)
(***************************************************************************)
THEOREM OneLiveManagerPerKey == Spec => []OneManagerPerKey
  <1>1. ECRInv => OneManagerPerKey
    <2> SUFFICES ASSUME ECRInv, NEW m \in Managers, NEW n \in Managers,
                        Live(m), Live(n), manager[m].key = manager[n].key
                 PROVE  m = n
      BY DEF OneManagerPerKey
    <2>1. \A x \in Managers :
             Live(x) => store[manager[x].key].mgr = x \/ (pc = "add" /\ fresh = x)
      BY DEF ECRInv, NoLeakedManager
    <2>2. pc = "add" => store[cur] = NoInstance /\ fresh \in Managers
                        /\ (manager[fresh].state # "none" => manager[fresh].key = cur)
      BY DEF ECRInv, WorkerInv, StoreHas
    <2>3. NoInstance.mgr \notin Managers
      BY ECRAssumption DEF NoInstance
    <2> QED
      BY <2>1, <2>2, <2>3 DEF Live
  <1> QED
    BY <1>1, Invariance, PTL
=============================================================================
