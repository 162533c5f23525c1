---------------------- MODULE RemoteControlPlaneProofs ----------------------
(***************************************************************************)
(* Proofs about RemoteControlPlane: ExternalClusterReference keeps its     *)
(* guarantees when its managers are used, and no report of Steward is lost *)
(* between a manager and its successor, for every set of Secrets, entries, *)
(* StewardControlPlanes and managers and any number of reports and faults. *)
(***************************************************************************)
EXTENDS RemoteControlPlane, ExternalClusterReferenceProofs

(***************************************************************************)
(* Why no report is lost.  A manager that starts has an empty cache, so    *)
(* its first list differs from what was reported before; from then on the  *)
(* difference turns into a request, the request into a trigger.  A trigger *)
(* is only taken together with the client of the manager that is in the    *)
(* store; a reconciliation that holds another manager's client began       *)
(* before the present one started, so the trigger of the present one is    *)
(* still to come or still in the queue when it ends.                       *)
(***************************************************************************)
Underway(m, p) ==
    p \in triggered \/ p \in changed[m] \/ seen[m].tenant[p] # tenant[p]

Told(m, p) ==
    \/ tenant[p] = Absent
    \/ client[p] = m
    \/ client[p] = NoManager /\ shown[p] = tenant[p]
    \/ Underway(m, p)

\* No cache and no status is ahead of the TenantControlPlane.
NeverAhead ==
    /\ \A p \in SCPs : shown[p] <= tenant[p]
    /\ \A m \in Managers, p \in SCPs : seen[m].tenant[p] <= tenant[p]

\* What holds of every live manager and the StewardControlPlanes that refer to its key.
ToldByLiveManagers ==
    \A m \in Managers, p \in SCPs : Live(m) /\ manager[m].key = ref[p] => Told(m, p)

RemoteInv ==
    /\ ECRInv
    /\ OwnTypes
    /\ ref \in [SCPs -> Keys]
    /\ NeverAhead
    /\ ToldByLiveManagers

-----------------------------------------------------------------------------
(***************************************************************************)
(* The composition.                                                        *)
(***************************************************************************)

(***************************************************************************)
(* Every step of the composition is, for the variables of                  *)
(* ExternalClusterReference, one of its steps or none, and no step changes *)
(* a reference.                                                            *)
(***************************************************************************)
LEMMA ComponentStep == [RemoteNext]_allVars => [Next]_vars /\ ref' = ref
  <1> SUFFICES ASSUME [RemoteNext]_allVars PROVE [Next]_vars /\ ref' = ref
    OBVIOUS
  <1>1. CASE OwnStep
    <2>1. CASE \E s \in Secrets : SecretWritten(s) \/ SecretDeleted(s) \/ Resync(s)
      BY <2>1 DEF Next, Environment, SecretWritten, SecretDeleted, Resync, world
    <2>2. CASE \/ \E s \in Secrets : Begin(s)
               \/ \E k \in Keys : ListReferences(k) \/ GetManager(k)
               \/ StopUnused \/ StopOutdated \/ RejectKubeconfig \/ AddManager \/ Finish
               \/ CallFails
      <3>1. Worker
        BY <2>2 DEF Worker
      <3>2. UNCHANGED world
        BY <2>2 DEF Begin, ListReferences, GetManager, StopUnused, StopOutdated,
                    RejectKubeconfig, AddManager, Finish, CallFails
      <3> QED
        BY <3>1, <3>2 DEF Next, world
    <2>3. CASE \E m \in Managers : StopAfterFailure(m)
      BY <2>3 DEF Next, Goroutine, StopAfterFailure, world
    <2> QED
      BY <1>1, <2>1, <2>2, <2>3 DEF OwnStep
  <1>2. CASE \E m \in Managers : NewManager(m)
    BY <1>2 DEF NewManager, Next, Worker, StartNewManager, world
  <1>3. CASE \E m \in Managers : ManagerEnds(m)
    BY <1>3
       DEF ManagerEnds, Next, Goroutine, StartReturnsNil, StartReturnsError, world
  <1>4. CASE RestartAll
    BY <1>4 DEF RestartAll, Next, Environment, Restart, world
  <1>5. CASE UNCHANGED vars
    BY <1>5 DEF vars, world
  <1>6. CASE \/ \E m \in Managers : InformerSync(m)
             \/ \E m \in Managers, p \in SCPs : PushStewardChange(m, p)
             \/ \E p \in SCPs : TakeClient(p) \/ UseClient(p) \/ StewardReports(p)
    <2>1. UNCHANGED vars
      BY <1>6 DEF InformerSync, PushStewardChange, TakeClient, UseClient, StewardReports
    <2> QED
      BY <1>5, <2>1
  <1> QED
    BY <1>1, <1>2, <1>3, <1>4, <1>5, <1>6 DEF RemoteNext, allVars

(***************************************************************************)
(* Whatever its managers are used for, the controller only does what       *)
(* ExternalClusterReference says.                                          *)
(***************************************************************************)
THEOREM ComponentKept == RemoteSpec => [][Next]_vars
  BY ComponentStep, PTL DEF RemoteSpec

\* The initial states of the composition satisfy the invariant of the component.
LEMMA RemoteInitECR == RemoteInit => ECRInv
  <1> SUFFICES ASSUME RemoteInit PROVE ECRInv
    OBVIOUS
  <1>1. TypeOK
    <2>1. ref \in [SCPs -> Keys \cup {NoKey}]
      BY DEF RemoteInit
    <2> QED
      BY <2>1, NullValues DEF RemoteInit, TypeOK
  <1>2. GoroutineInv /\ NoLeakedManager
    BY DEF RemoteInit, GoroutineInv, NoLeakedManager, Live, NoGoroutine
  <1>3. StoreInv /\ StoredManagerUsable
    BY ECRAssumption DEF RemoteInit, StoreInv, StoredManagerUsable, StoreHas, NoInstance
  <1>4. WorkerInv
    BY DEF RemoteInit, WorkerInv
  <1> QED
    BY <1>1, <1>2, <1>3, <1>4 DEF ECRInv

\* The component's invariant holds throughout the composition.
LEMMA ComponentInvariance == RemoteSpec => []ECRInv
  <1>1. ECRInv /\ [RemoteNext]_allVars => ECRInv'
    BY ComponentStep, NextInv
  <1> QED
    BY <1>1, RemoteInitECR, PTL DEF RemoteSpec

(***************************************************************************)
(* A StewardControlPlane that holds a stopped manager's client, and the    *)
(* managers' own controllers, do not make the store lose a manager.        *)
(***************************************************************************)
THEOREM NoManagerLeaksRemotely == RemoteSpec => []NoLeakedManager
  <1>1. ECRInv => NoLeakedManager
    BY DEF ECRInv
  <1> QED
    BY <1>1, ComponentInvariance, PTL

-----------------------------------------------------------------------------
(***************************************************************************)
(* Types, and what the caches may show.                                    *)
(***************************************************************************)

\* An empty cache has its type.
LEMMA EmptyCache ==
    /\ Nothing \in Tenants
    /\ NoCache \in [synced : BOOLEAN, tenant : Tenants]
    /\ \A p \in SCPs : Nothing[p] = Absent /\ NoCache.tenant[p] = Absent
  BY DEF Nothing, NoCache, Tenants, Absent

\* The manager whose client extractRemoteClient hands out.
LEMMA StoredManager ==
    ASSUME ECRInv, NEW k \in Keys, ExtractRemoteClient(k)
    PROVE  store[k].mgr \in Managers /\ StoreHas(k)
  BY DEF ECRInv, StoreInv, ExtractRemoteClient, StoreGet

\* What the initial states have: nothing reported, nothing cached.
LEMMA RemoteInitTypes == RemoteInit => OwnTypes /\ NeverAhead /\ ref \in [SCPs -> Keys]
  <1> SUFFICES ASSUME RemoteInit PROVE OwnTypes /\ NeverAhead /\ ref \in [SCPs -> Keys]
    OBVIOUS
  <1>1. OwnTypes
    BY EmptyCache DEF RemoteInit, OwnTypes
  <1>2. NeverAhead
    BY EmptyCache DEF RemoteInit, NeverAhead, Absent
  <1> QED
    BY <1>1, <1>2 DEF RemoteInit

\* A step that leaves the TenantControlPlanes and the status alone, and whose caches
\* are old ones, empty ones or copies of what there is.
LEMMA CachesBehind ==
    ASSUME OwnTypes, NeverAhead, UNCHANGED <<tenant, shown>>,
           \A m \in Managers : \/ seen'[m] \in {seen[m], NoCache}
                               \/ seen'[m].tenant = tenant
    PROVE  NeverAhead'
  <1>1. \A p \in SCPs : tenant[p] \in Nat
    BY DEF OwnTypes, Tenants
  <1>2. ASSUME NEW m \in Managers, NEW p \in SCPs PROVE seen'[m].tenant[p] <= tenant[p]
    <2>1. CASE seen'[m] = seen[m]
      BY <2>1 DEF NeverAhead
    <2>2. CASE seen'[m] = NoCache
      BY <1>1, <2>2, EmptyCache DEF Absent
    <2>3. CASE seen'[m].tenant = tenant
      BY <1>1, <2>3
    <2> QED
      BY <2>1, <2>2, <2>3
  <1> QED
    BY <1>2 DEF NeverAhead

\* The managers' informers and controllers keep the types.
LEMMA ManagerStepsTypes ==
    ASSUME OwnTypes, NeverAhead, NEW m \in Managers,
           \/ InformerSync(m) \/ NewManager(m) \/ ManagerEnds(m)
           \/ \E p \in SCPs : PushStewardChange(m, p)
    PROVE  OwnTypes' /\ NeverAhead'
  <1>1. CASE InformerSync(m)
    <2>1. [synced |-> TRUE, tenant |-> tenant] \in [synced : BOOLEAN, tenant : Tenants]
      BY DEF OwnTypes
    <2>2. OwnTypes'
      BY <1>1, <2>1 DEF InformerSync, OwnTypes, Changed
    <2>3. \A n \in Managers : seen'[n] = seen[n] \/ seen'[n].tenant = tenant
      BY <1>1 DEF InformerSync, OwnTypes
    <2> QED
      BY <1>1, <2>2, <2>3, CachesBehind DEF InformerSync
  <1>2. CASE NewManager(m)
    <2>1. OwnTypes'
      BY <1>2, EmptyCache DEF NewManager, OwnTypes
    <2>2. \A n \in Managers : seen'[n] \in {seen[n], NoCache}
      BY <1>2 DEF NewManager, OwnTypes
    <2> QED
      BY <1>2, <2>1, <2>2, CachesBehind DEF NewManager
  <1>3. CASE ManagerEnds(m)
    <2>1. OwnTypes'
      BY <1>3, EmptyCache DEF ManagerEnds, OwnTypes
    <2>2. \A n \in Managers : seen'[n] \in {seen[n], NoCache}
      BY <1>3 DEF ManagerEnds, OwnTypes
    <2> QED
      BY <1>3, <2>1, <2>2, CachesBehind DEF ManagerEnds
  <1>4. ASSUME NEW p \in SCPs, PushStewardChange(m, p) PROVE OwnTypes' /\ NeverAhead'
    <2>1. OwnTypes'
      BY <1>4 DEF PushStewardChange, OwnTypes
    <2> QED
      BY <1>4, <2>1, CachesBehind DEF PushStewardChange
  <1> QED
    BY <1>1, <1>2, <1>3, <1>4

\* Reconciliations and Steward keep the types.
LEMMA ControlPlaneStepsTypes ==
    ASSUME ECRInv, OwnTypes, NeverAhead, ref \in [SCPs -> Keys], NEW p \in SCPs,
           TakeClient(p) \/ UseClient(p) \/ StewardReports(p)
    PROVE  OwnTypes' /\ NeverAhead'
  <1>1. CASE TakeClient(p)
    <2>1. store[ref[p]].mgr \in Managers
      BY <1>1, StoredManager DEF TakeClient
    <2>2. OwnTypes'
      BY <1>1, <2>1 DEF TakeClient, OwnTypes
    <2> QED
      BY <1>1, <2>2, CachesBehind DEF TakeClient
  <1>2. CASE UseClient(p)
    <2>1. client[p] \in Managers
      BY <1>2 DEF UseClient, OwnTypes
    <2>2. seen[client[p]].tenant[p] \in Nat /\ seen[client[p]].tenant[p] <= tenant[p]
      BY <2>1 DEF OwnTypes, Tenants, NeverAhead
    <2>3. OwnTypes'
      BY <1>2, <2>2 DEF UseClient, OwnTypes, Tenants
    <2>4. \A q \in SCPs : /\ tenant'[q] = tenant[q] \/ (tenant[q] = 0 /\ tenant'[q] = 1)
                          /\ \/ shown'[q] = shown[q]
                             \/ /\ q = p /\ shown'[q] = seen[client[p]].tenant[p]
                                /\ tenant'[q] = tenant[q]
      BY <1>2 DEF UseClient, OwnTypes, Tenants, Absent
    <2>5. /\ \A q \in SCPs : tenant[q] \in Nat /\ shown[q] \in Nat
          /\ \A n \in Managers, q \in SCPs : seen[n].tenant[q] \in Nat
      BY DEF OwnTypes, Tenants
    <2>6. seen' = seen
      BY <1>2 DEF UseClient
    <2> QED
      BY <2>2, <2>3, <2>4, <2>5, <2>6 DEF NeverAhead
  <1>3. CASE StewardReports(p)
    <2>1. OwnTypes'
      BY <1>3 DEF StewardReports, OwnTypes, Tenants
    <2>2. \A q \in SCPs : tenant'[q] = tenant[q] \/ tenant'[q] = tenant[q] + 1
      BY <1>3 DEF StewardReports, OwnTypes, Tenants
    <2>3. /\ \A q \in SCPs : tenant[q] \in Nat /\ shown[q] \in Nat
          /\ \A n \in Managers, q \in SCPs : seen[n].tenant[q] \in Nat
      BY DEF OwnTypes, Tenants
    <2>4. seen' = seen /\ shown' = shown
      BY <1>3 DEF StewardReports
    <2> QED
      BY <2>1, <2>2, <2>3, <2>4 DEF NeverAhead
  <1> QED
    BY <1>1, <1>2, <1>3

\* Every step keeps the types, and no cache gets ahead.
LEMMA RemoteNextTypes ==
    ASSUME ECRInv, OwnTypes, NeverAhead, ref \in [SCPs -> Keys], [RemoteNext]_allVars
    PROVE  OwnTypes' /\ NeverAhead'
  <1>1. CASE OwnStep \/ UNCHANGED allVars
    <2>1. UNCHANGED remoteVars
      BY <1>1 DEF OwnStep, allVars
    <2> QED
      BY <2>1 DEF remoteVars, OwnTypes, NeverAhead
  <1>2. CASE RestartAll
    <2>1. OwnTypes'
      BY <1>2, EmptyCache DEF RestartAll, OwnTypes
    <2> QED
      BY <1>2, <2>1, CachesBehind DEF RestartAll
  <1> QED
    BY <1>1, <1>2, ManagerStepsTypes, ControlPlaneStepsTypes DEF RemoteNext

-----------------------------------------------------------------------------
(***************************************************************************)
(* No report is lost.                                                      *)
(***************************************************************************)

\* A live manager whose key has an instance in the store is that instance's manager.
LEMMA LiveIsStored ==
    ASSUME ECRInv, NEW m \in Managers, Live(m), StoreHas(manager[m].key)
    PROVE  store[manager[m].key].mgr = m
  <1>1. store[manager[m].key].mgr = m \/ (pc = "add" /\ fresh = m)
    BY DEF ECRInv, NoLeakedManager
  <1>2. pc = "add" /\ fresh = m => manager[m].key = cur /\ ~StoreHas(cur)
    BY DEF ECRInv, WorkerInv, Live
  <1> QED
    BY <1>1, <1>2

\* Cancelling what a key holds makes no manager live and gives none another key.
LEMMA StoppingLives ==
    ASSUME ECRInv, NEW k \in Keys, NEW m \in Managers
    PROVE  /\ CancelStopped(k)[m].key = manager[m].key
           /\ CancelStopped(k)[m].state = manager[m].state
           /\ ~CancelStopped(k)[m].cancelled => CancelStopped(k)[m] = manager[m]
  <1>1. /\ CancelStopped(k)[m].state = manager[m].state
        /\ CancelStopped(k)[m].key = manager[m].key
        /\ store[k].mgr # m => CancelStopped(k)[m] = manager[m]
        /\ store[k].mgr = m => CancelStopped(k)[m].cancelled
    BY StopEffect
  <1> QED
    BY <1>1

\* Steps of the controller other than StartNewManager make no manager live.
LEMMA OwnStepLives ==
    ASSUME ECRInv, OwnStep, NEW m \in Managers, Live(m)'
    PROVE  Live(m) /\ manager'[m].key = manager[m].key
  <1>1. CASE \/ \E s \in Secrets : SecretWritten(s) \/ SecretDeleted(s) \/ Resync(s) \/ Begin(s)
             \/ \E k \in Keys : ListReferences(k) \/ GetManager(k)
             \/ RejectKubeconfig \/ AddManager \/ Finish \/ CallFails
    <2>1. manager' = manager
      BY <1>1 DEF SecretWritten, SecretDeleted, Resync, Begin, ListReferences, GetManager,
                  RejectKubeconfig, AddManager, Finish, CallFails
    <2> QED
      BY <2>1 DEF Live
  <1>2. CASE StopUnused \/ StopOutdated
    <2>1. cur \in Keys /\ manager' = CancelStopped(cur)
      BY <1>2 DEF StopUnused, StopOutdated, ECRInv, WorkerInv
    <2> QED
      BY <2>1, StoppingLives DEF Live
  <1>3. ASSUME NEW n \in Managers, StopAfterFailure(n)
        PROVE  Live(m) /\ manager'[m].key = manager[m].key
    <2>1. manager[n].key \in Keys
      BY <1>3 DEF StopAfterFailure, ECRInv, GoroutineInv
    <2>2. CancelStopped(manager[n].key) \in [Managers -> ManagerRecord]
      BY <2>1, StopEffect
    <2>3. manager'[m] = IF m = n THEN NoGoroutine ELSE CancelStopped(manager[n].key)[m]
      BY <1>3, <2>2 DEF StopAfterFailure
    <2>4. m # n
      BY <2>3 DEF Live, NoGoroutine
    <2> QED
      BY <2>1, <2>3, <2>4, StoppingLives DEF Live
  <1> QED
    BY <1>1, <1>2, <1>3 DEF OwnStep

\* A manager that ends is not live, and the others are as before.
LEMMA EndingLives ==
    ASSUME ECRInv, NEW n \in Managers, ManagerEnds(n), NEW m \in Managers, Live(m)'
    PROVE  m # n /\ Live(m) /\ manager'[m].key = manager[m].key
  <1>1. manager \in [Managers -> ManagerRecord]
    BY DEF ECRInv, TypeOK
  <1>2. \/ manager' = [manager EXCEPT ![n] = NoGoroutine]
        \/ manager' = [manager EXCEPT ![n].state = "failed"]
    BY DEF ManagerEnds, StartReturnsNil, StartReturnsError
  <1>3. m # n
    BY <1>1, <1>2 DEF Live, NoGoroutine, ManagerRecord
  <1> QED
    BY <1>1, <1>2, <1>3 DEF Live

\* The controller's steps, new managers and ended ones lose nothing.
LEMMA LifecycleTold ==
    ASSUME RemoteInv, ref' = ref,
           \/ OwnStep \/ RestartAll
           \/ \E m \in Managers : NewManager(m) \/ ManagerEnds(m)
    PROVE  ToldByLiveManagers'
  <1> SUFFICES ASSUME NEW m \in Managers, NEW p \in SCPs,
                      Live(m)', manager'[m].key = ref[p]
               PROVE  Told(m, p)'
    BY DEF ToldByLiveManagers
  <1>1. CASE OwnStep
    <2>1. Told(m, p)
      BY <1>1, OwnStepLives DEF RemoteInv, ToldByLiveManagers
    <2> QED
      BY <1>1, <2>1 DEF OwnStep, remoteVars, Told, Underway
  <1>2. CASE RestartAll
    BY <1>2 DEF RestartAll, Told, Underway
  <1>3. ASSUME NEW n \in Managers, NewManager(n) PROVE Told(m, p)'
    <2>1. CASE m = n
      <3>1. seen'[m] = NoCache /\ tenant' = tenant
        BY <1>3, <2>1 DEF NewManager, RemoteInv, OwnTypes
      <3> QED
        BY <3>1, EmptyCache DEF Told, Underway
    <2>2. CASE m # n
      <3>1. manager'[m] = manager[m] /\ seen'[m] = seen[m]
        BY <1>3, <2>2 DEF NewManager, StartNewManager, RemoteInv, ECRInv, TypeOK, OwnTypes
      <3>2. Told(m, p)
        BY <3>1 DEF Live, RemoteInv, ToldByLiveManagers
      <3> QED
        BY <1>3, <3>1, <3>2 DEF NewManager, Told, Underway
    <2> QED
      BY <2>1, <2>2
  <1>4. ASSUME NEW n \in Managers, ManagerEnds(n) PROVE Told(m, p)'
    <2>1. m # n /\ Live(m) /\ manager[m].key = ref[p]
      BY <1>4, EndingLives DEF RemoteInv
    <2>2. Told(m, p)
      BY <2>1 DEF RemoteInv, ToldByLiveManagers
    <2>3. seen'[m] = seen[m] /\ changed'[m] = changed[m]
      BY <1>4, <2>1 DEF ManagerEnds, RemoteInv, OwnTypes
    <2> QED
      BY <1>4, <2>2, <2>3 DEF ManagerEnds, Told, Underway
  <1> QED
    BY <1>1, <1>2, <1>3, <1>4

\* A report goes from the remote cluster to the cache, to the queue and to a trigger.
LEMMA DeliveryTold ==
    ASSUME RemoteInv, ref' = ref,
           \/ \E m \in Managers : InformerSync(m)
           \/ \E m \in Managers, p \in SCPs : PushStewardChange(m, p)
           \/ \E p \in SCPs : StewardReports(p)
    PROVE  ToldByLiveManagers'
  <1> SUFFICES ASSUME NEW m \in Managers, NEW p \in SCPs,
                      Live(m)', manager'[m].key = ref[p]
               PROVE  Told(m, p)'
    BY DEF ToldByLiveManagers
  <1>1. manager' = manager
    BY DEF InformerSync, PushStewardChange, StewardReports, vars
  <1>2. Told(m, p)
    BY <1>1 DEF Live, RemoteInv, ToldByLiveManagers
  <1>3. ASSUME NEW n \in Managers, InformerSync(n) PROVE Told(m, p)'
    <2>1. UNCHANGED <<tenant, triggered, client, shown>>
      BY <1>3 DEF InformerSync
    <2>2. CASE m = n
      <3>1. changed'[m] = changed[m] \cup Changed(m)
        BY <1>3, <2>2 DEF InformerSync, RemoteInv, OwnTypes
      <3>2. seen[m].tenant[p] # tenant[p] => p \in changed'[m]
        BY <3>1 DEF Changed
      <3>3. p \in changed[m] => p \in changed'[m]
        BY <3>1
      <3> QED
        BY <1>2, <2>1, <3>2, <3>3 DEF Told, Underway
    <2>3. CASE m # n
      <3>1. seen'[m] = seen[m] /\ changed'[m] = changed[m]
        BY <1>3, <2>3 DEF InformerSync, RemoteInv, OwnTypes
      <3> QED
        BY <1>2, <2>1, <3>1 DEF Told, Underway
    <2> QED
      BY <2>2, <2>3
  <1>4. ASSUME NEW n \in Managers, NEW q \in SCPs, PushStewardChange(n, q) PROVE Told(m, p)'
    <2>1. UNCHANGED <<tenant, seen, client, shown>> /\ triggered \subseteq triggered'
      BY <1>4 DEF PushStewardChange
    <2>2. p \in changed[m] =>
             p \in changed'[m] \/ p \in triggered' \/ seen[m].tenant[p] = Absent
      BY <1>4 DEF PushStewardChange, RemoteInv, OwnTypes
    <2> QED
      BY <1>2, <2>1, <2>2 DEF Told, Underway
  <1>5. ASSUME NEW q \in SCPs, StewardReports(q) PROVE Told(m, p)'
    <2>1. UNCHANGED <<seen, changed, triggered, client, shown>>
      BY <1>5 DEF StewardReports
    <2>2. tenant'[p] = IF p = q THEN tenant[p] + 1 ELSE tenant[p]
      BY <1>5 DEF StewardReports, RemoteInv, OwnTypes, Tenants
    <2>3. seen[m].tenant[p] \in Nat /\ tenant[p] \in Nat /\ seen[m].tenant[p] <= tenant[p]
      BY DEF RemoteInv, OwnTypes, Tenants, NeverAhead
    <2>4. p = q => seen[m].tenant[p] # tenant'[p]
      BY <2>2, <2>3
    <2> QED
      BY <1>2, <2>1, <2>2, <2>4 DEF Told, Underway
  <1> QED
    BY <1>3, <1>4, <1>5

\* A trigger is spent on the manager in the store, or stays for it.
LEMMA ReconciliationTold ==
    ASSUME RemoteInv, ref' = ref,
           \E p \in SCPs : TakeClient(p) \/ UseClient(p)
    PROVE  ToldByLiveManagers'
  <1> SUFFICES ASSUME NEW m \in Managers, NEW p \in SCPs,
                      Live(m)', manager'[m].key = ref[p]
               PROVE  Told(m, p)'
    BY DEF ToldByLiveManagers
  <1>1. manager' = manager
    BY DEF TakeClient, UseClient, vars
  <1>2. Live(m) /\ manager[m].key = ref[p]
    BY <1>1 DEF Live
  <1>3. Told(m, p)
    BY <1>2 DEF RemoteInv, ToldByLiveManagers
  <1>4. ASSUME NEW q \in SCPs, TakeClient(q) PROVE Told(m, p)'
    <2>1. UNCHANGED <<tenant, seen, changed, shown>>
      BY <1>4 DEF TakeClient
    <2>2. CASE p = q
      <3>1. StoreHas(ref[p])
        BY <1>4, <2>2, StoredManager DEF TakeClient, RemoteInv
      <3>2. store[ref[p]].mgr = m
        BY <1>2, <3>1, LiveIsStored DEF RemoteInv
      <3>3. client'[p] = m
        BY <1>4, <2>2, <3>2 DEF TakeClient, RemoteInv, OwnTypes
      <3> QED
        BY <3>3 DEF Told
    <2>3. CASE p # q
      <3>1. client'[p] = client[p] /\ (p \in triggered => p \in triggered')
        BY <1>4, <2>3 DEF TakeClient, RemoteInv, OwnTypes
      <3> QED
        BY <1>3, <2>1, <3>1 DEF Told, Underway
    <2> QED
      BY <2>2, <2>3
  <1>5. ASSUME NEW q \in SCPs, UseClient(q) PROVE Told(m, p)'
    <2>1. UNCHANGED <<seen, changed>> /\ triggered \subseteq triggered'
      BY <1>5 DEF UseClient
    <2>2. CASE p # q
      <3>1. client'[p] = client[p] /\ tenant'[p] = tenant[p] /\ shown'[p] = shown[p]
        BY <1>5, <2>2 DEF UseClient, RemoteInv, OwnTypes, Tenants
      <3> QED
        BY <1>3, <2>1, <3>1 DEF Told, Underway
    <2>3. CASE p = q
      <3>1. client[p] # NoManager /\ client'[p] = NoManager
        BY <1>5, <2>3 DEF UseClient, RemoteInv, OwnTypes
      <3>2. CASE p \in triggered'
        BY <3>2 DEF Told, Underway
      <3>3. CASE p \notin triggered'
        <4>1. tenant' = tenant /\ shown'[p] = seen[client[p]].tenant[p]
          BY <1>5, <2>3, <3>3 DEF UseClient, RemoteInv, OwnTypes, Tenants
        <4>2. CASE client[p] = m
          BY <2>1, <3>1, <4>1, <4>2 DEF Told, Underway
        <4>3. CASE client[p] # m
          BY <1>3, <2>1, <3>1, <3>3, <4>1, <4>3 DEF Told, Underway
        <4> QED
          BY <4>2, <4>3
      <3> QED
        BY <3>2, <3>3
    <2> QED
      BY <2>2, <2>3
  <1> QED
    BY <1>4, <1>5

\* The invariant behind NoReportLost.
LEMMA RemoteInvariance == RemoteSpec => []RemoteInv
  <1>1. RemoteInit => RemoteInv
    <2> SUFFICES ASSUME RemoteInit PROVE RemoteInv
      OBVIOUS
    <2>1. ToldByLiveManagers
      BY DEF RemoteInit, ToldByLiveManagers, Live, NoGoroutine
    <2> QED
      BY <2>1, RemoteInitECR, RemoteInitTypes DEF RemoteInv
  <1>2. RemoteInv /\ [RemoteNext]_allVars => RemoteInv'
    <2> SUFFICES ASSUME RemoteInv, [RemoteNext]_allVars PROVE RemoteInv'
      OBVIOUS
    <2>1. ECRInv' /\ ref' = ref
      BY ComponentStep, NextInv DEF RemoteInv
    <2>2. OwnTypes' /\ NeverAhead'
      BY RemoteNextTypes DEF RemoteInv
    <2>3. CASE UNCHANGED allVars
      <3>1. ToldByLiveManagers'
        BY <2>3 DEF RemoteInv, allVars, vars, world, remoteVars, ToldByLiveManagers, Live,
                    Told, Underway
      <3> QED
        BY <2>1, <2>2, <3>1 DEF RemoteInv
    <2>4. CASE RemoteNext
      <3>1. ToldByLiveManagers'
        BY <2>1, <2>4, LifecycleTold, DeliveryTold, ReconciliationTold DEF RemoteNext
      <3> QED
        BY <2>1, <2>2, <3>1 DEF RemoteInv
    <2> QED
      BY <2>3, <2>4
  <1> QED
    BY <1>1, <1>2, PTL DEF RemoteSpec

(***************************************************************************)
(* Every variable of the composition keeps its type.                       *)
(***************************************************************************)
THEOREM RemoteTypeCorrect == RemoteSpec => []RemoteTypeOK
  <1>1. RemoteInv => RemoteTypeOK
    BY DEF RemoteInv, RemoteTypeOK, ECRInv
  <1> QED
    BY <1>1, RemoteInvariance, PTL

(***************************************************************************)
(* A StewardControlPlane that does not show what Steward has reported is   *)
(* going to be reconciled, however managers are replaced, fail and are     *)
(* restarted while reconciliations hold their clients: the safety part of  *)
(* ReportShown.                                                            *)
(***************************************************************************)
THEOREM NoReportIsLost == RemoteSpec => []NoReportLost
  <1>1. RemoteInv => NoReportLost
    <2> SUFFICES ASSUME RemoteInv, NEW p \in SCPs, Connected(p), shown[p] # tenant[p]
                 PROVE  LET m == store[ref[p]].mgr
                        IN \/ client[p] # NoManager
                           \/ p \in triggered
                           \/ p \in changed[m]
                           \/ seen[m].tenant[p] # tenant[p]
      BY DEF NoReportLost
    <2> DEFINE m == store[ref[p]].mgr
    <2>1. ref[p] \in Keys /\ m \in Managers /\ StoreHas(ref[p]) /\ Live(m)
      BY StoredManager DEF RemoteInv, Connected
    <2>2. manager[m].key = ref[p]
      BY <2>1 DEF RemoteInv, ECRInv, StoredManagerUsable, Live
    <2>3. Told(m, p)
      BY <2>1, <2>2 DEF RemoteInv, ToldByLiveManagers
    <2>4. tenant[p] # Absent
      BY DEF RemoteInv, OwnTypes, Tenants, NeverAhead, Absent
    <2>5. m # NoManager
      BY <2>1, ECRAssumption
    <2> QED
      BY <2>3, <2>4, <2>5 DEF Told, Underway
  <1> QED
    BY <1>1, RemoteInvariance, PTL

=============================================================================
