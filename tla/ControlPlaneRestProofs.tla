----------------------- MODULE ControlPlaneRestProofs -----------------------
(***************************************************************************)
(* When Reconcile of a StewardControlPlane comes to rest, nothing is left  *)
(* undone, for every set of locations, endpoints, moves and kinds of       *)
(* infrastructure and any number of generations and faults.                *)
(***************************************************************************)
EXTENDS StewardControlPlaneProofs

(***************************************************************************)
(* How far things are from their end.  The object is gone or going; the    *)
(* cache has it except, possibly, for the endpoint, which is the only part *)
(* that a write can bring back to an older value, so that a cache which    *)
(* was behind becomes current without an event.                            *)
(***************************************************************************)
Gone == ~scp.exists \/ scp.del

Close == view.exists /\ view = [scp EXCEPT !.ep = view.ep]

LagInv ==
    /\ view.owned /\ scp.exists => scp.owned
    /\ view.del => Gone
    /\ pc \in {"deletion", "delete", "unfinalize"} => Gone
    /\ \A l \in Locations : tcp[l].state = "deleting" => Gone
    /\ pc \in {"idle", "deletion", "extract"} => remote = Local
    /\ pc # "idle" /\ ~queue => view.exists /\ view.owned
    /\ NeverPaused => ~cluster.paused

(***************************************************************************)
(* What each step of Reconcile leaves behind for the end, as long as       *)
(* nothing is in the queue and the cache is not behind.                    *)
(***************************************************************************)
Quiet == ~queue /\ Close /\ ~Gone

\* Reconcile works on what is in the cache.
CopyInv ==
    Quiet =>
       /\ pc \in {"extract", "finalizer", "tcp", "patch"} => me = Copy(view)
       /\ pc \in {"finalizer", "tcp", "patch"} => remote = scp.loc
       /\ pc = "finalizer" => ~me.fin

\* The steps after the TenantControlPlane, after the endpoint, after the infrastructure.
AfterInfra == {"init", "replicas", "initAgain", "kubeconfig", "ca", "ready"}
AfterEndpoint == {"cluster", "infra"} \cup AfterInfra
AfterTenant == {"patch"} \cup AfterEndpoint

\* The status in hand is the one on record, unless the remote cluster is out of reach.
TenantInv ==
    Quiet /\ pc \in AfterTenant =>
       /\ remote = scp.loc
       /\ tcp[scp.loc].state = "live"
       /\ tcp[scp.loc].gen = scp.gen
       /\ scp.loc \in reachable \cup {Local} => tcp[scp.loc].status = mine

CarriedInv ==
    ~queue /\ Current /\ ~Gone =>
       /\ pc \in AfterEndpoint => scp.ep = mine.ep
       /\ pc \in AfterInfra => mine.ver # "nil"
       /\ pc \in {"ca", "ready"} => secrets.kubeconfig = scp.loc
       /\ pc = "ready" => secrets.ca \in {scp.loc, Steward}

\* What the end leaves behind, also while the remote cluster is out of reach.
RestInv ==
    NeverPaused /\ AtRest /\ scp.owned /\ cluster.exists /\ ~Gone =>
       /\ tcp[scp.loc].state = "live"
       /\ tcp[scp.loc].gen = scp.gen
       /\ secrets.kubeconfig = scp.loc
       /\ secrets.ca \in {scp.loc, Steward}
       /\ scp.loc \in reachable \cup {Local} =>
             /\ tcp[scp.loc].status.ver # "nil"
             /\ scp.ready <=> tcp[scp.loc].status.ver \in {"Ready", "Upgrading"}
             /\ scp.ep = tcp[scp.loc].status.ep

ServedInv == CopyInv /\ TenantInv /\ CarriedInv /\ RestInv

-----------------------------------------------------------------------------
(***************************************************************************)
(* How far the cache lags.                                                 *)
(***************************************************************************)

\* A StewardControlPlane that is gone or going does not come back, and keeps its owner.
LEMMA ObjectStep ==
    ASSUME TypeOK, [Next]_vars
    PROVE  /\ scp'.exists => /\ scp.exists
                             /\ scp.owned => scp'.owned
                             /\ scp.del => scp'.del
           /\ Gone => Gone'
  <1>1. scp \in StewardObject
    BY DEF TypeOK
  <1>2. CASE RemoveFinalizer
    BY <1>1, <1>2 DEF RemoveFinalizer, WithoutFinalizer, NoSCP, StewardObject, Gone
  <1>3. CASE HandleFinalizer \/ PatchControlPlaneEndpoint \/ OwnerSet
    BY <1>1, <1>3 DEF HandleFinalizer, PatchControlPlaneEndpoint, OwnerSet, StewardObject, Gone
  <1>4. CASE SetInitialized \/ ReportReplicas \/ SetInitializedAgain \/ SetReady
    BY <1>1, <1>4 DEF SetInitialized, ReportReplicas, SetInitializedAgain, InitializedAgain,
                      SetReady, UpdateStatus, StewardObject, Gone
  <1>5. CASE UserDeletes
    BY <1>1, <1>5 DEF UserDeletes, NoSCP, StewardObject, Gone
  <1>6. CASE \E l \in Locations : UserEdits(l)
    BY <1>1, <1>6 DEF UserEdits, StewardObject, Gone
  <1>7. CASE UNCHANGED scp
    BY <1>7 DEF Gone
  <1>8. \/ RemoveFinalizer \/ HandleFinalizer \/ PatchControlPlaneEndpoint
        \/ SetInitialized \/ ReportReplicas \/ SetInitializedAgain \/ SetReady
        \/ OwnerSet \/ UserDeletes
        \/ \E l \in Locations : UserEdits(l)
        \/ UNCHANGED scp
    BY DEF Next, Step, Process, Others, Begin, HandleDeletion, DeleteRemote,
           ExtractRemoteClient, CreateOrUpdateTenantControlPlane, GetClusterAgain,
           PatchInfrastructure, CreateOrUpdateKubeconfig,
           CreateOrUpdateCertificateAuthority, CallFails, CacheSync, InfraCacheSync,
           Resync, Restart, ClusterChanges, InfrastructureChanges, ReachabilityChanges,
           StewardReports, StewardFinalizes, GarbageCollected, vars, world
  <1> QED
    BY <1>2, <1>3, <1>4, <1>5, <1>6, <1>7, <1>8

\* Nobody touches the cache but the informer and a restart.
LEMMA ViewStep ==
    ASSUME [Next]_vars
    PROVE  view' = view \/ ((CacheSync \/ Restart) /\ view' = scp /\ scp' = scp)
  BY DEF Next, Step, Process, Others, Begin, HandleDeletion, DeleteRemote, RemoveFinalizer,
         ExtractRemoteClient, HandleFinalizer, CreateOrUpdateTenantControlPlane,
         PatchControlPlaneEndpoint, GetClusterAgain, PatchInfrastructure, SetInitialized,
         ReportReplicas, SetInitializedAgain, CreateOrUpdateKubeconfig,
         CreateOrUpdateCertificateAuthority, SetReady, CallFails, CacheSync, InfraCacheSync,
         Resync, Restart, OwnerSet, UserDeletes, UserEdits, ClusterChanges,
         InfrastructureChanges, ReachabilityChanges, StewardReports, StewardFinalizes, GarbageCollected, vars, world

\* Where Reconcile is in its first and in its last steps, and with which client.
LEMMA WorkerStep ==
    ASSUME TypeOK, LagInv, [Next]_vars
    PROVE  /\ pc' \in {"deletion", "delete", "unfinalize"} =>
                 pc \in {"deletion", "delete", "unfinalize"} \/ view.del
           /\ pc' \in {"idle", "deletion", "extract"} => remote' = Local
           /\ \/ pc' = "idle"
              \/ queue'
              \/ view.exists /\ view.owned /\ UNCHANGED view
              \/ pc # "idle" /\ ~queue /\ CacheSync
  <1>1. CASE Begin
    BY <1>1 DEF Begin, Branch, LagInv, worker, world
  <1>2. CASE HandleDeletion \/ DeleteRemote \/ RemoveFinalizer
    BY <1>2 DEF HandleDeletion, DeleteRemote, RemoveFinalizer, Withdraw, EnqueueBack, Return,
                LagInv, world
  <1>3. CASE ExtractRemoteClient \/ HandleFinalizer
    BY <1>3 DEF ExtractRemoteClient, HandleFinalizer, EnqueueBack, Return, LagInv, world
  <1>4. CASE CreateOrUpdateTenantControlPlane
    BY <1>4 DEF CreateOrUpdateTenantControlPlane, EnqueueBack, Return, LagInv
  <1>5. CASE PatchControlPlaneEndpoint \/ GetClusterAgain
    BY <1>5 DEF PatchControlPlaneEndpoint, GetClusterAgain, Withdraw, EnqueueBack, Return,
                LagInv, world
  <1>6. CASE PatchInfrastructure
    BY <1>6 DEF PatchInfrastructure, WaitForCluster, EnqueueBack, Return, LagInv
  <1>7. CASE SetInitialized \/ ReportReplicas \/ SetInitializedAgain
    BY <1>7 DEF SetInitialized, ReportReplicas, SetInitializedAgain, EnqueueBack, Return,
                LagInv
  <1>8. CASE CreateOrUpdateKubeconfig \/ CreateOrUpdateCertificateAuthority
    BY <1>8 DEF CreateOrUpdateKubeconfig, CreateOrUpdateCertificateAuthority, EnqueueBack,
                Return, LagInv
  <1>9. CASE SetReady \/ CallFails
    BY <1>9 DEF SetReady, CallFails, Withdraw, EnqueueBack, Return
  <1>10. CASE CacheSync \/ InfraCacheSync \/ Resync \/ Restart
    BY <1>10 DEF CacheSync, InfraCacheSync, Resync, Restart, Return, LagInv, worker
  <1>11. CASE OwnerSet \/ UserDeletes \/ ClusterChanges \/ InfrastructureChanges \/ GarbageCollected
    BY <1>11 DEF OwnerSet, UserDeletes, ClusterChanges, InfrastructureChanges,
                 GarbageCollected, LagInv, worker
  <1>12. CASE \E l \in Locations : UserEdits(l) \/ StewardReports(l) \/ StewardFinalizes(l)
    <2>1. PICK l \in Locations : UserEdits(l) \/ StewardReports(l) \/ StewardFinalizes(l)
      BY <1>12
    <2>2. UNCHANGED worker /\ UNCHANGED view
      BY <2>1 DEF UserEdits, StewardReports, StewardFinalizes
    <2>3. queue => queue'
      BY <2>1, Zenon DEF UserEdits, StewardReports, StewardFinalizes
    <2> QED
      BY <2>2, <2>3 DEF LagInv, worker
  <1>13. CASE \E t \in Targets : ReachabilityChanges(t)
    <2>1. PICK t \in Targets : ReachabilityChanges(t)
      BY <1>13
    <2>2. UNCHANGED worker /\ UNCHANGED view
      BY <2>1 DEF ReachabilityChanges
    <2>3. queue => queue'
      BY <2>1, Zenon DEF ReachabilityChanges
    <2> QED
      BY <2>2, <2>3 DEF LagInv, worker
  <1>14. CASE UNCHANGED vars
    BY <1>14 DEF vars, world, worker, LagInv
  <1> QED
    BY <1>1, <1>2, <1>3, <1>4, <1>5, <1>6, <1>7, <1>8, <1>9, <1>10, <1>11, <1>12, <1>13,
       <1>14
    DEF Next, Step, Process, Others

\* Only Reconcile deletes a TenantControlPlane.
LEMMA DeletingStep ==
    ASSUME TypeOK, [Next]_vars, NEW l \in Locations, tcp'[l].state = "deleting"
    PROVE  tcp[l].state = "deleting" \/ pc = "delete"
  <1>1. tcp \in [Locations -> TenantObject] /\ remote \in Locations /\ Local \in Locations
    BY DEF TypeOK, Locations
  <1>2. CASE CreateOrUpdateTenantControlPlane
    <2>1. UNCHANGED tcp \/ tcp' = [tcp EXCEPT ![remote] = CreatedOrUpdated(tcp[remote])]
      BY <1>2 DEF CreateOrUpdateTenantControlPlane
    <2>2. tcp[remote] \in TenantObject
      BY <1>1
    <2>3. CreatedOrUpdated(tcp[remote]).state = "deleting" => tcp[remote].state = "deleting"
      BY <2>2 DEF CreatedOrUpdated, TenantObject
    <2> QED
      BY <1>1, <2>1, <2>3
  <1>3. CASE DeleteRemote
    BY <1>3 DEF DeleteRemote
  <1>4. ASSUME NEW k \in Locations, StewardReports(k)
        PROVE  tcp[l].state = "deleting"
    BY <1>1, <1>4 DEF StewardReports, TenantObject
  <1>5. ASSUME NEW k \in Locations, StewardFinalizes(k)
        PROVE  tcp[l].state = "deleting"
    BY <1>1, <1>5 DEF StewardFinalizes, NoTCP
  <1>6. CASE GarbageCollected
    BY <1>1, <1>6 DEF GarbageCollected, NoTCP
  <1>7. \/ CreateOrUpdateTenantControlPlane
        \/ UNCHANGED tcp
        \/ DeleteRemote
        \/ \E k \in Locations : StewardReports(k) \/ StewardFinalizes(k)
        \/ GarbageCollected
    BY DEF Next, Step, Process, Others, Begin, HandleDeletion, RemoveFinalizer,
           ExtractRemoteClient, HandleFinalizer, PatchControlPlaneEndpoint,
           GetClusterAgain, PatchInfrastructure, SetInitialized, ReportReplicas,
           SetInitializedAgain, CreateOrUpdateKubeconfig,
           CreateOrUpdateCertificateAuthority, SetReady, CallFails, CacheSync,
           InfraCacheSync, Resync, Restart, OwnerSet, UserDeletes, UserEdits, ClusterChanges,
           InfrastructureChanges, ReachabilityChanges, vars, world
  <1> QED
    BY <1>2, <1>3, <1>4, <1>5, <1>6, <1>7

LEMMA LagStep ==
    ASSUME TypeOK, LagInv, [Next]_vars
    PROVE  LagInv'
  <1>1. /\ view'.owned /\ scp'.exists => scp'.owned
        /\ view'.del => Gone'
    BY ViewStep, ObjectStep DEF LagInv, Gone
  <1>2. pc' \in {"deletion", "delete", "unfinalize"} => Gone'
    BY WorkerStep, ObjectStep DEF LagInv
  <1>3. \A l \in Locations : tcp'[l].state = "deleting" => Gone'
    BY DeletingStep, ObjectStep DEF LagInv
  <1>4. pc' # "idle" /\ ~queue' => view'.exists /\ view'.owned
    <2>1. CASE pc # "idle" /\ ~queue /\ CacheSync
      <3>1. view.owned
        BY <2>1 DEF LagInv
      <3>2. queue'
        BY <2>1, <3>1 DEF CacheSync, LagInv
      <3> QED
        BY <3>2
    <2> QED
      BY <2>1, WorkerStep
  <1>5. NeverPaused => ~cluster'.paused
    <2>1. CASE ClusterChanges
      BY <2>1 DEF ClusterChanges, NeverPaused, LagInv, TypeOK
    <2>2. CASE UNCHANGED cluster
      BY <2>2 DEF LagInv
    <2>3. ClusterChanges \/ UNCHANGED cluster
      BY DEF Next, Step, Process, Others, Begin, HandleDeletion, DeleteRemote,
             RemoveFinalizer, ExtractRemoteClient, HandleFinalizer,
             CreateOrUpdateTenantControlPlane, PatchControlPlaneEndpoint, GetClusterAgain,
             PatchInfrastructure, SetInitialized, ReportReplicas, SetInitializedAgain,
             CreateOrUpdateKubeconfig, CreateOrUpdateCertificateAuthority, SetReady,
             CallFails, CacheSync, InfraCacheSync, Resync, Restart, OwnerSet, UserDeletes,
             UserEdits, InfrastructureChanges, ReachabilityChanges, StewardReports, StewardFinalizes,
             GarbageCollected, vars, world
    <2> QED
      BY <2>1, <2>2, <2>3
  <1>6. pc' \in {"idle", "deletion", "extract"} => remote' = Local
    BY WorkerStep
  <1>7. NeverPaused' <=> NeverPaused
    BY DEF NeverPaused
  <1> QED
    BY <1>1, <1>2, <1>3, <1>4, <1>5, <1>6, <1>7 DEF LagInv

-----------------------------------------------------------------------------
(***************************************************************************)
(* What Reconcile leaves behind.                                           *)
(***************************************************************************)

\* A current cache is close; one that is close agrees on all that Reconcile works on.
LEMMA CurrentIsClose ==
    ASSUME TypeOK
    PROVE  /\ Current => Close
           /\ Close => /\ scp.exists
                       /\ view.gen = scp.gen /\ view.loc = scp.loc /\ view.fin = scp.fin
                       /\ view.owned = scp.owned /\ view.del = scp.del
                       /\ view.init = scp.init /\ view.ready = scp.ready
  <1>1. scp \in StewardObject
    BY DEF TypeOK
  <1>2. ASSUME Close
        PROVE  /\ scp.exists
               /\ view.gen = scp.gen /\ view.loc = scp.loc /\ view.fin = scp.fin
               /\ view.owned = scp.owned /\ view.del = scp.del
               /\ view.init = scp.init /\ view.ready = scp.ready
    <2>1. view.exists /\ view = [scp EXCEPT !.ep = view.ep]
      BY <1>2 DEF Close
    <2> DEFINE e == view.ep
    <2>2. view = [scp EXCEPT !.ep = e]
      BY <2>1
    <2> HIDE DEF e
    <2> QED
      BY <1>1, <2>1, <2>2 DEF StewardObject
  <1>3. ASSUME Current
        PROVE  Close
    <2>1. scp = [scp EXCEPT !.ep = scp.ep]
      BY <1>1 DEF StewardObject
    <2> QED
      BY <1>3, <2>1 DEF Current, Close
  <1> QED
    BY <1>2, <1>3

\* The same after a step.
LEMMA CurrentIsCloseAfter ==
    ASSUME TypeOK'
    PROVE  /\ Current' => Close'
           /\ Close' => /\ scp'.exists
                        /\ view'.gen = scp'.gen /\ view'.loc = scp'.loc
                        /\ view'.fin = scp'.fin /\ view'.owned = scp'.owned
                        /\ view'.del = scp'.del /\ view'.init = scp'.init
                        /\ view'.ready = scp'.ready
  <1>1. scp' \in StewardObject
    BY DEF TypeOK
  <1>2. ASSUME Close'
        PROVE  /\ scp'.exists
               /\ view'.gen = scp'.gen /\ view'.loc = scp'.loc
               /\ view'.fin = scp'.fin /\ view'.owned = scp'.owned
               /\ view'.del = scp'.del /\ view'.init = scp'.init
               /\ view'.ready = scp'.ready
    <2>1. view'.exists /\ view' = [scp' EXCEPT !.ep = view'.ep]
      BY <1>2 DEF Close
    <2> DEFINE e == view'.ep
    <2>2. view' = [scp' EXCEPT !.ep = e]
      BY <2>1
    <2> HIDE DEF e
    <2> QED
      BY <1>1, <2>1, <2>2 DEF StewardObject
  <1>3. ASSUME Current'
        PROVE  Close'
    <2>1. scp' = [scp' EXCEPT !.ep = scp'.ep]
      BY <1>1 DEF StewardObject
    <2> QED
      BY <1>3, <2>1 DEF Current, Close
  <1> QED
    BY <1>2, <1>3

\* Nothing is asked while there is an event to come or the object is going.
LEMMA NotQuietServed ==
    ASSUME TypeOK', ~Quiet'
    PROVE  ServedInv'
  <1>1. Current' => Close'
    BY CurrentIsCloseAfter
  <1>2. ~(~queue' /\ Current' /\ ~Gone')
    BY <1>1 DEF Quiet
  <1> QED
    BY <1>2 DEF ServedInv, CopyInv, TenantInv, CarriedInv, RestInv, AtRest

\* An update of the current object that leaves the cache close has changed nothing.
LEMMA CloseUpdate ==
    ASSUME TypeOK, TypeOK', Current, view' = view, Close', scp'.ep = scp.ep
    PROVE  scp' = scp
  <1>1. scp' \in StewardObject /\ scp \in StewardObject /\ view \in StewardObject
    BY DEF TypeOK
  <1>2. view = scp
    BY DEF Current
  <1>3. /\ scp.gen = scp'.gen /\ scp.loc = scp'.loc /\ scp.fin = scp'.fin
        /\ scp.owned = scp'.owned /\ scp.del = scp'.del /\ scp.init = scp'.init
        /\ scp.ready = scp'.ready /\ scp'.exists /\ scp.exists
    BY <1>2, CurrentIsCloseAfter DEF Current
  <1>4. scp'.exists \in BOOLEAN /\ scp.exists \in BOOLEAN
    BY <1>1 DEF StewardObject
  <1>5. scp'.exists = scp.exists
    BY <1>3, <1>4
  <1> QED
    BY <1>1, <1>3, <1>5 DEF StewardObject

(***************************************************************************)
(* A step of Reconcile from the endpoint patch on that changes nothing     *)
(* outside keeps what is there.                                            *)
(***************************************************************************)
LEMMA Advance ==
    ASSUME TypeOK', ServedInv, pc \in AfterEndpoint, pc' \in AfterEndpoint,
           UNCHANGED <<scp, view, tcp, reachable, queue, remote, mine>>,
           pc' \in AfterInfra => pc \in AfterInfra \/ mine.ver # "nil",
           pc' \in {"ca", "ready"} =>
              \/ pc \in {"ca", "ready"} /\ secrets'.kubeconfig = secrets.kubeconfig
              \/ secrets'.kubeconfig = remote,
           pc' = "ready" => secrets'.ca \in {remote, Steward}
    PROVE  ServedInv'
  <1> SUFFICES ASSUME Quiet' PROVE ServedInv'
    BY NotQuietServed
  <1>1. Quiet
    BY DEF Quiet, Close, Gone
  <1>2. /\ pc \in AfterTenant /\ pc' \in AfterTenant
        /\ pc' \notin {"idle", "extract", "finalizer", "tcp", "patch"}
    BY DEF AfterTenant, AfterEndpoint, AfterInfra
  <1>3. CopyInv' /\ RestInv'
    BY <1>2 DEF CopyInv, RestInv, AtRest
  <1>4. TenantInv'
    BY <1>1, <1>2 DEF ServedInv, TenantInv
  <1>5. CarriedInv'
    <2> SUFFICES ASSUME Current
                 PROVE  /\ pc' \in AfterEndpoint => scp.ep = mine.ep
                        /\ pc' \in AfterInfra => mine.ver # "nil"
                        /\ pc' \in {"ca", "ready"} => secrets'.kubeconfig = scp.loc
                        /\ pc' = "ready" => secrets'.ca \in {scp.loc, Steward}
      BY DEF CarriedInv, Current
    <2>1. ~queue /\ ~Gone
      BY <1>1 DEF Quiet
    <2>2. /\ scp.ep = mine.ep
          /\ pc \in AfterInfra => mine.ver # "nil"
          /\ pc \in {"ca", "ready"} => secrets.kubeconfig = scp.loc
      BY <2>1 DEF ServedInv, CarriedInv
    <2>3. remote = scp.loc
      BY <1>1, <1>2 DEF ServedInv, TenantInv
    <2> QED
      BY <2>2, <2>3
  <1> QED
    BY <1>3, <1>4, <1>5 DEF ServedInv

LEMMA BeginServed ==
    ASSUME TypeOK, TypeOK', LagInv, Begin
    PROVE  ServedInv'
  <1> SUFFICES ASSUME Quiet' PROVE ServedInv'
    BY NotQuietServed
  <1>1. UNCHANGED <<scp, view, cluster>> /\ pc = "idle" /\ remote = Local
    BY DEF Begin, world, LagInv
  <1>2. view.loc = scp.loc /\ view.owned = scp.owned /\ view.del = scp.del /\ ~Gone
    BY <1>1, CurrentIsCloseAfter DEF Quiet, Gone
  <1>3. CASE UNCHANGED worker
    <2>1. ~(view.exists /\ view.owned /\ cluster.exists /\ ~cluster.paused)
      BY <1>1, <1>3 DEF Begin, worker, Branch
    <2>2. pc' = "idle"
      BY <1>1, <1>3 DEF worker
    <2>3. RestInv'
      BY <1>1, <1>2, <2>1 DEF RestInv, AtRest, Current, LagInv, NeverPaused
    <2> QED
      BY <2>2, <2>3
      DEF ServedInv, CopyInv, TenantInv, CarriedInv, AfterTenant, AfterEndpoint, AfterInfra
  <1>4. CASE me' = Copy(view) /\ pc' = Branch(view) /\ UNCHANGED remote
    <2>1. pc' \in {"tcp", "extract"} /\ (pc' = "tcp" => view.loc = Local)
      BY <1>2, <1>4 DEF Branch, Gone
    <2>2. CopyInv'
      BY <1>1, <1>2, <1>4, <2>1 DEF CopyInv, Copy
    <2> QED
      BY <2>1, <2>2 DEF ServedInv, TenantInv, CarriedInv, RestInv, AtRest,
                        AfterTenant, AfterEndpoint, AfterInfra
  <1> QED
    BY <1>3, <1>4 DEF Begin

\* Reconcile before it writes the TenantControlPlane.
LEMMA FirstStepsServed ==
    ASSUME TypeOK, TypeOK', LagInv, ServedInv, Gone => Gone',
           ExtractRemoteClient \/ HandleFinalizer
    PROVE  ServedInv'
  <1> SUFFICES ASSUME Quiet' PROVE ServedInv'
    BY NotQuietServed
  <1>1. ~queue' /\ Close' /\ ~Gone' /\ ~Gone
    BY DEF Quiet
  <1>2. CASE ExtractRemoteClient
    <2>1. /\ pc = "extract" /\ UNCHANGED <<scp, view, queue, me>>
          /\ remote' = me.loc
          /\ pc' = IF me.fin THEN "tcp" ELSE "finalizer"
      BY <1>1, <1>2 DEF ExtractRemoteClient, HasFinalizer, EnqueueBack, world
    <2>2. Quiet
      BY <1>1, <2>1 DEF Quiet, Close
    <2>3. me = Copy(view) /\ view.loc = scp.loc
      BY <2>1, <2>2, CurrentIsClose DEF ServedInv, CopyInv, Quiet
    <2>4. me.loc = scp.loc
      BY <2>3 DEF Copy
    <2>5. CopyInv'
      BY <2>1, <2>3, <2>4 DEF CopyInv, Copy
    <2>6. pc' \in {"tcp", "finalizer"}
      BY <2>1
    <2> QED
      BY <2>5, <2>6 DEF ServedInv, TenantInv, CarriedInv, RestInv, AtRest,
                        AfterTenant, AfterEndpoint, AfterInfra
  <1>3. CASE HandleFinalizer
    <2>1. /\ pc = "finalizer" /\ Current /\ UNCHANGED <<view, queue>>
          /\ scp' = [scp EXCEPT !.fin = TRUE]
      BY <1>1, <1>3 DEF HandleFinalizer, EnqueueBack
    <2>2. Quiet
      BY <1>1, <2>1, CurrentIsClose DEF Quiet
    <2>3. me = Copy(view) /\ ~me.fin
      BY <2>1, <2>2 DEF ServedInv, CopyInv
    <2>4. ~view.fin
      BY <2>3 DEF Copy
    <2>5. scp'.fin
      BY <2>1 DEF TypeOK, StewardObject
    <2> QED
      BY <1>1, <2>1, <2>4, <2>5, CurrentIsCloseAfter
  <1> QED
    BY <1>2, <1>3

LEMMA CreateOrUpdateServed ==
    ASSUME TypeOK, TypeOK', LagInv, ServedInv, CreateOrUpdateTenantControlPlane
    PROVE  ServedInv'
  <1> SUFFICES ASSUME Quiet' PROVE ServedInv'
    BY NotQuietServed
  <1> DEFINE got == CreatedOrUpdated(tcp[remote])
  <1>1. /\ pc = "tcp" /\ pc' = "patch"
        /\ tcp' = [tcp EXCEPT ![remote] = got]
        /\ mine' = got.status
        /\ UNCHANGED <<scp, view, queue, me, remote>>
    BY DEF CreateOrUpdateTenantControlPlane, EnqueueBack, Quiet
  <1>2. Quiet
    BY <1>1 DEF Quiet, Close, Gone
  <1>3. me = Copy(view) /\ remote = scp.loc /\ view.gen = scp.gen
    BY <1>1, <1>2, CurrentIsClose DEF ServedInv, CopyInv, Quiet
  <1>4. tcp \in [Locations -> TenantObject] /\ remote \in Locations /\ tcp[remote] \in TenantObject
    BY DEF TypeOK
  <1>5. tcp[remote].state # "deleting"
    BY <1>2, <1>4 DEF LagInv, Quiet
  <1>6. got.state = "live" /\ got.gen = me.gen
    BY <1>4, <1>5 DEF CreatedOrUpdated, TenantObject
  <1>7. me.gen = scp.gen
    BY <1>3 DEF Copy
  <1>8. tcp'[scp.loc] = got
    BY <1>1, <1>3, <1>4
  <1> HIDE DEF got
  <1>9. CopyInv'
    BY <1>1, <1>3 DEF CopyInv, Copy
  <1>10. TenantInv'
    BY <1>1, <1>3, <1>6, <1>7, <1>8 DEF TenantInv
  <1> QED
    BY <1>1, <1>9, <1>10
    DEF ServedInv, CarriedInv, RestInv, AtRest, AfterEndpoint, AfterInfra

\* The merge patch is empty, or brings the endpoint to what was reported.
LEMMA PatchEndpointServed ==
    ASSUME TypeOK, TypeOK', ServedInv, PatchControlPlaneEndpoint
    PROVE  ServedInv'
  <1> SUFFICES ASSUME Quiet' PROVE ServedInv'
    BY NotQuietServed
  <1>1. /\ pc = "patch" /\ pc' = "cluster" /\ scp.exists
        /\ scp' = [scp EXCEPT !.ep = PatchedEndpoint(@)]
        /\ UNCHANGED <<view, queue, remote, mine, tcp, reachable>>
    BY DEF PatchControlPlaneEndpoint, EnqueueBack, Quiet
  <1>2. /\ scp'.loc = scp.loc /\ scp'.gen = scp.gen /\ scp'.del = scp.del
        /\ scp'.ep = PatchedEndpoint(scp.ep)
    BY <1>1 DEF TypeOK, StewardObject
  <1>3. Quiet
    <2>1. view = [scp' EXCEPT !.ep = view.ep] /\ view.exists
      BY <1>1 DEF Quiet, Close
    <2>2. \A e : [scp' EXCEPT !.ep = e] = [scp EXCEPT !.ep = e]
      BY <1>1 DEF TypeOK, StewardObject
    <2>3. Close
      BY <2>1, <2>2 DEF Close
    <2> QED
      BY <1>1, <1>2, <2>3 DEF Quiet, Gone
  <1>4. TenantInv'
    BY <1>1, <1>2, <1>3 DEF ServedInv, TenantInv, AfterTenant
  <1>5. CarriedInv'
    <2> SUFFICES ASSUME Current' PROVE scp'.ep = mine.ep
      BY <1>1 DEF CarriedInv, AfterInfra
    <2>1. view.ep = PatchedEndpoint(scp.ep)
      BY <1>1, <1>2 DEF Current
    <2>2. me.ep = view.ep
      BY <1>1, <1>3 DEF ServedInv, CopyInv, Copy
    <2> QED
      BY <1>2, <2>1, <2>2 DEF PatchedEndpoint
  <1> QED
    BY <1>1, <1>4, <1>5 DEF ServedInv, CopyInv, RestInv, AtRest

LEMMA GetClusterServed ==
    ASSUME TypeOK, TypeOK', ServedInv, GetClusterAgain \/ PatchInfrastructure
    PROVE  ServedInv'
  <1> SUFFICES ASSUME Quiet' PROVE ServedInv'
    BY NotQuietServed
  <1>1. CASE GetClusterAgain /\ cluster.exists
    <2>1. /\ pc = "cluster" /\ pc' = "infra"
          /\ UNCHANGED <<scp, view, tcp, reachable, queue, remote, mine>>
      BY <1>1 DEF GetClusterAgain, world
    <2> QED
      BY <2>1, Advance DEF AfterEndpoint, AfterInfra
  <1>2. CASE GetClusterAgain /\ ~cluster.exists
    <2>1. pc' = "idle" /\ ~cluster'.exists
      BY <1>2 DEF GetClusterAgain, Withdraw, Return, world
    <2> QED
      BY <2>1 DEF ServedInv, CopyInv, TenantInv, CarriedInv, RestInv,
                  AfterTenant, AfterEndpoint, AfterInfra
  <1>3. CASE PatchInfrastructure
    <2>1. /\ pc = "infra" /\ pc' \in {"init", "replicas"}
          /\ mine.ver # "nil"
          /\ UNCHANGED <<scp, view, tcp, reachable, queue, remote, mine>>
      BY <1>3 DEF PatchInfrastructure, ClusterReady, WaitForCluster, EnqueueBack, Quiet
    <2> QED
      BY <2>1, Advance DEF AfterEndpoint, AfterInfra
  <1> QED
    BY <1>1, <1>2, <1>3

\* An update of the status leaves the cache behind, unless it changes nothing.
LEMMA StatusStepsServed ==
    ASSUME TypeOK, TypeOK', ServedInv, SetInitialized \/ ReportReplicas \/ SetInitializedAgain
    PROVE  ServedInv'
  <1> SUFFICES ASSUME Quiet' PROVE ServedInv'
    BY NotQuietServed
  <1>1. /\ pc \in AfterInfra /\ pc' \in {"replicas", "initAgain", "kubeconfig"}
        /\ UNCHANGED <<view, tcp, reachable, queue, remote, mine>>
    BY DEF SetInitialized, ReportReplicas, SetInitializedAgain, EnqueueBack, Quiet, AfterInfra
  <1>2. scp' = scp \/ (Current /\ scp' = [scp EXCEPT !.init = TRUE])
    BY DEF SetInitialized, ReportReplicas, SetInitializedAgain, EnqueueBack, UpdateStatus,
           InitializedAgain
  <1>3. scp' = scp
    <2>1. scp'.ep = scp.ep
      BY <1>2 DEF TypeOK, StewardObject
    <2> QED
      BY <1>1, <1>2, <2>1, CloseUpdate DEF Quiet
  <1> QED
    BY <1>1, <1>3, Advance DEF AfterEndpoint, AfterInfra

LEMMA SecretsServed ==
    ASSUME TypeOK, TypeOK', ServedInv,
           CreateOrUpdateKubeconfig \/ CreateOrUpdateCertificateAuthority
    PROVE  ServedInv'
  <1> SUFFICES ASSUME Quiet' PROVE ServedInv'
    BY NotQuietServed
  <1>1. CASE CreateOrUpdateKubeconfig
    <2>1. /\ pc = "kubeconfig" /\ pc' = "ca"
          /\ secrets' = [secrets EXCEPT !.kubeconfig = ReplicatedKubeconfig(@)]
          /\ UNCHANGED <<scp, view, tcp, reachable, queue, remote, mine>>
      BY <1>1 DEF CreateOrUpdateKubeconfig, EnqueueBack, Quiet
    <2>2. secrets'.kubeconfig = remote
      BY <2>1 DEF TypeOK, ReplicatedKubeconfig
    <2> QED
      BY <2>1, <2>2, Advance DEF AfterEndpoint, AfterInfra
  <1>2. CASE CreateOrUpdateCertificateAuthority
    <2>1. /\ pc = "ca" /\ pc' = "ready"
          /\ secrets' = [secrets EXCEPT !.ca = ReplicatedCA(@)]
          /\ UNCHANGED <<scp, view, tcp, reachable, queue, remote, mine>>
      BY <1>2 DEF CreateOrUpdateCertificateAuthority, EnqueueBack, Quiet
    <2>2. secrets'.kubeconfig = secrets.kubeconfig /\ secrets'.ca \in {remote, Steward}
      BY <2>1 DEF TypeOK, ReplicatedCA
    <2> QED
      BY <2>1, <2>2, Advance DEF AfterEndpoint, AfterInfra
  <1> QED
    BY <1>1, <1>2

\* The end: the update of Ready has changed nothing, and everything else is done.
LEMMA SetReadyServed ==
    ASSUME TypeOK, TypeOK', ServedInv, SetReady
    PROVE  ServedInv'
  <1> SUFFICES ASSUME Quiet' PROVE ServedInv'
    BY NotQuietServed
  <1>1. /\ pc = "ready" /\ pc' = "idle" /\ Current
        /\ scp' = [scp EXCEPT !.ready = ReadyStatus]
        /\ UNCHANGED <<view, tcp, reachable, queue, secrets>>
    BY DEF SetReady, UpdateStatus, Withdraw, EnqueueBack, Return, Quiet
  <1>2. scp'.ep = scp.ep /\ scp'.ready = ReadyStatus
    BY <1>1 DEF TypeOK, StewardObject
  <1>3. scp' = scp
    BY <1>1, <1>2, CloseUpdate DEF Quiet
  <1>4. Quiet
    BY <1>1, <1>3 DEF Quiet, Close, Gone
  <1>5. scp.ready <=> mine.ver \in {"Ready", "Upgrading"}
    BY <1>2, <1>3 DEF ReadyStatus
  <1>6. /\ tcp[scp.loc].state = "live" /\ tcp[scp.loc].gen = scp.gen
        /\ scp.loc \in reachable \cup {Local} => tcp[scp.loc].status = mine
    BY <1>1, <1>4 DEF ServedInv, TenantInv, AfterTenant, AfterEndpoint, AfterInfra
  <1>7. /\ scp.ep = mine.ep
        /\ mine.ver # "nil"
        /\ secrets.kubeconfig = scp.loc
        /\ secrets.ca \in {scp.loc, Steward}
    BY <1>1, <1>4 DEF ServedInv, CarriedInv, Quiet, AfterEndpoint, AfterInfra
  <1>8. RestInv'
    BY <1>1, <1>3, <1>5, <1>6, <1>7 DEF RestInv
  <1> QED
    BY <1>1, <1>8
    DEF ServedInv, CopyInv, TenantInv, CarriedInv, AfterTenant, AfterEndpoint, AfterInfra

(***************************************************************************)
(* A step of others that leaves the StewardControlPlane alone: if the      *)
(* TenantControlPlane changes where it can be seen, there is an event.     *)
(***************************************************************************)
LEMMA SurroundingsServed ==
    ASSUME TypeOK', ServedInv,
           UNCHANGED <<scp, view, worker>>, ~queue' => ~queue,
           cluster'.exists => cluster.exists,
           secrets'.kubeconfig = secrets.kubeconfig,
           secrets'.ca \in {secrets.ca, Steward},
           ~queue' /\ ~Gone /\ tcp[scp.loc].state = "live" =>
              /\ tcp'[scp.loc].state = "live"
              /\ tcp'[scp.loc].gen = tcp[scp.loc].gen
              /\ scp.loc \in reachable' \cup {Local} =>
                    /\ scp.loc \in reachable \cup {Local}
                    /\ tcp'[scp.loc].status = tcp[scp.loc].status
    PROVE  ServedInv'
  <1> SUFFICES ASSUME Quiet' PROVE ServedInv'
    BY NotQuietServed
  <1>1. UNCHANGED <<scp, view, pc, me, remote, mine>>
    BY DEF worker
  <1>2. Quiet
    BY <1>1 DEF Quiet, Close, Gone
  <1>3. CopyInv'
    BY <1>1, <1>2 DEF ServedInv, CopyInv
  <1>4. ~queue /\ ~queue' /\ ~Gone
    BY <1>2 DEF Quiet
  <1>5. TenantInv'
    <2> SUFFICES ASSUME pc \in AfterTenant PROVE TenantInv'
      BY <1>1 DEF TenantInv
    <2>1. /\ remote = scp.loc
          /\ tcp[scp.loc].state = "live"
          /\ tcp[scp.loc].gen = scp.gen
          /\ scp.loc \in reachable \cup {Local} => tcp[scp.loc].status = mine
      BY <1>2 DEF ServedInv, TenantInv
    <2> QED
      BY <1>1, <1>4, <2>1 DEF TenantInv
  <1>6. CarriedInv'
    BY <1>1, <1>4 DEF ServedInv, CarriedInv, Current, Gone
  <1>7. RestInv'
    <2> SUFFICES ASSUME NeverPaused, AtRest, scp.owned, cluster.exists PROVE RestInv'
      BY <1>1, <1>4 DEF RestInv, AtRest, Current, NeverPaused
    <2>1. /\ tcp[scp.loc].state = "live"
          /\ tcp[scp.loc].gen = scp.gen
          /\ secrets.kubeconfig = scp.loc
          /\ secrets.ca \in {scp.loc, Steward}
          /\ scp.loc \in reachable \cup {Local} =>
                /\ tcp[scp.loc].status.ver # "nil"
                /\ scp.ready <=> tcp[scp.loc].status.ver \in {"Ready", "Upgrading"}
                /\ scp.ep = tcp[scp.loc].status.ep
      BY <1>4 DEF ServedInv, RestInv
    <2> QED
      BY <1>1, <1>4, <2>1 DEF RestInv
  <1> QED
    BY <1>3, <1>5, <1>6, <1>7 DEF ServedInv

\* The informer and a restart bring an event for every object that has an owner.
LEMMA ProcessServed ==
    ASSUME TypeOK, TypeOK', LagInv', ServedInv, Process
    PROVE  ServedInv'
  <1> SUFFICES ASSUME Quiet' PROVE ServedInv'
    BY NotQuietServed
  <1>1. CASE InfraCacheSync
    <2>1. UNCHANGED <<scp, view, worker, queue, tcp, reachable, secrets, cluster>>
      BY <1>1 DEF InfraCacheSync
    <2> QED
      BY <2>1, SurroundingsServed
  <1>2. CASE CacheSync \/ Restart
    <2>1. ~queue' /\ scp' = scp /\ view' = scp
      BY <1>2 DEF CacheSync, Restart, Quiet
    <2>2. scp.exists
      BY <2>1 DEF Quiet, Gone
    <2>3. ~scp.owned
      <3>1. CASE CacheSync
        BY <2>1, <2>2, <3>1, Zenon DEF CacheSync
      <3>2. CASE Restart
        BY <2>1, <2>2, <3>2, Zenon DEF Restart
      <3> QED
        BY <1>2, <3>1, <3>2
    <2>4. pc' = "idle"
      BY <2>1, <2>3 DEF LagInv
    <2> QED
      BY <2>1, <2>3, <2>4
      DEF ServedInv, CopyInv, TenantInv, CarriedInv, RestInv, AfterTenant, AfterEndpoint,
          AfterInfra
  <1>3. ~Resync
    BY DEF Resync, Quiet
  <1> QED
    BY <1>1, <1>2, <1>3 DEF Process

\* Users and the Cluster controller leave the cache behind.
LEMMA OwnerAndUsersServed ==
    ASSUME TypeOK, TypeOK', FreshInv, LagInv,
           OwnerSet \/ UserDeletes \/ \E l \in Locations : UserEdits(l)
    PROVE  ServedInv'
  <1> SUFFICES ASSUME Quiet' PROVE FALSE
    BY NotQuietServed
  <1>1. Close' /\ ~Gone'
    BY DEF Quiet
  <1>2. CASE OwnerSet
    <2>1. scp.exists /\ ~scp.owned /\ scp' = [scp EXCEPT !.owned = TRUE] /\ view' = view
      BY <1>2 DEF OwnerSet
    <2>2. scp'.owned
      BY <2>1 DEF TypeOK, StewardObject
    <2>3. view.owned
      BY <1>1, <2>1, <2>2, CurrentIsCloseAfter
    <2> QED
      BY <2>1, <2>3 DEF LagInv
  <1>3. CASE UserDeletes
    BY <1>1, <1>3 DEF UserDeletes, Gone, NoSCP, TypeOK, StewardObject
  <1>4. ASSUME NEW l \in Locations, UserEdits(l)
        PROVE  FALSE
    <2>1. scp.exists /\ scp' = [scp EXCEPT !.gen = @ + 1, !.loc = l] /\ view' = view
      BY <1>4 DEF UserEdits
    <2>2. scp'.gen = scp.gen + 1
      BY <2>1 DEF TypeOK, StewardObject
    <2>3. view.gen = scp'.gen /\ view.exists
      BY <1>1, <2>1, CurrentIsCloseAfter DEF Close
    <2>4. view.gen <= scp.gen
      BY <2>1, <2>3 DEF FreshInv
    <2> QED
      BY <2>2, <2>3, <2>4, Generations
  <1> QED
    BY <1>2, <1>3, <1>4

LEMMA OthersServed ==
    ASSUME TypeOK, TypeOK', FreshInv, LagInv, ServedInv, Others \/ UNCHANGED vars
    PROVE  ServedInv'
  <1>1. tcp \in [Locations -> TenantObject] /\ scp.loc \in Locations /\ Local \in Locations
    BY DEF TypeOK, StewardObject, Locations
  <1>2. CASE ClusterChanges \/ InfrastructureChanges
    <2>1. UNCHANGED <<scp, view, worker, queue, tcp, reachable, secrets>>
      BY <1>2 DEF ClusterChanges, InfrastructureChanges
    <2>2. cluster'.exists => cluster.exists
      BY <1>2 DEF ClusterChanges, InfrastructureChanges, TypeOK
    <2> QED
      BY <2>1, <2>2, SurroundingsServed
  <1>3. ASSUME NEW t \in Targets, ReachabilityChanges(t)
        PROVE  ServedInv'
    <2>1. UNCHANGED <<scp, view, worker, cluster, secrets, tcp>>
      BY <1>3 DEF ReachabilityChanges
    <2>2. ~queue' => ~queue
      BY <1>3, Zenon DEF ReachabilityChanges
    <2>3. \/ reachable' \subseteq reachable
          \/ /\ reachable' = reachable \cup {t}
             /\ queue' = (queue \/ (scp.exists /\ tcp[t].state # "none"))
      BY <1>3 DEF ReachabilityChanges
    <2>4. ASSUME ~queue', ~Gone, tcp[scp.loc].state = "live",
                 scp.loc \in reachable' \cup {Local}
          PROVE  scp.loc \in reachable \cup {Local}
      <3>1. CASE reachable' \subseteq reachable
        BY <2>4, <3>1
      <3>2. CASE /\ reachable' = reachable \cup {t}
                 /\ queue' = (queue \/ (scp.exists /\ tcp[t].state # "none"))
        <4>1. tcp[t].state = "none"
          BY <2>4, <3>2, Zenon DEF Gone
        <4> QED
          BY <2>4, <3>2, <4>1
      <3> QED
        BY <2>3, <3>1, <3>2
    <2> QED
      BY <2>1, <2>2, <2>4, SurroundingsServed
  <1>4. ASSUME NEW l \in Locations, StewardReports(l)
        PROVE  ServedInv'
    <2>1. UNCHANGED <<scp, view, worker, cluster, reachable>>
      BY <1>4 DEF StewardReports
    <2>2. ~queue' => ~queue
      BY <1>4, Zenon DEF StewardReports
    <2>3. PICK status \in TenantStatus : tcp' = [tcp EXCEPT ![l].status = status]
      BY <1>4 DEF StewardReports
    <2>4. secrets'.kubeconfig = secrets.kubeconfig /\ secrets'.ca \in {secrets.ca, Steward}
      BY <1>4 DEF StewardReports, TypeOK
    <2>5. /\ tcp'[scp.loc].state = tcp[scp.loc].state
          /\ tcp'[scp.loc].gen = tcp[scp.loc].gen
          /\ l # scp.loc => tcp'[scp.loc] = tcp[scp.loc]
      BY <1>1, <2>3 DEF TenantObject
    <2>6. ~queue' /\ ~Gone => l \notin reachable \cup {Local}
      BY <1>4, Zenon DEF StewardReports, Gone
    <2>7. ASSUME ~queue', ~Gone, scp.loc \in reachable' \cup {Local}
          PROVE  tcp'[scp.loc].status = tcp[scp.loc].status
      BY <2>1, <2>5, <2>6, <2>7
    <2> QED
      BY <2>1, <2>2, <2>4, <2>5, <2>7, SurroundingsServed
  <1>5. ASSUME NEW l \in Locations, StewardFinalizes(l)
        PROVE  ServedInv'
    <2>1. tcp[l].state = "deleting" /\ UNCHANGED scp
      BY <1>5 DEF StewardFinalizes
    <2>2. Gone'
      BY <2>1 DEF LagInv, Gone
    <2> QED
      BY <2>2, NotQuietServed DEF Quiet
  <1>6. CASE GarbageCollected
    <2>1. Gone'
      BY <1>6 DEF GarbageCollected, Gone
    <2> QED
      BY <2>1, NotQuietServed DEF Quiet
  <1>7. CASE UNCHANGED vars
    <2>1. UNCHANGED <<scp, view, worker, queue, tcp, reachable, secrets, cluster>>
      BY <1>7 DEF vars, world
    <2> QED
      BY <2>1, SurroundingsServed
  <1> QED
    BY <1>2, <1>3, <1>4, <1>5, <1>6, <1>7, OwnerAndUsersServed DEF Others

LEMMA NextServed ==
    ASSUME TypeOK, TypeOK', FreshInv, LagInv, ServedInv, [Next]_vars
    PROVE  LagInv' /\ ServedInv'
  <1>1. LagInv'
    BY LagStep
  <1>2. Gone => Gone'
    BY ObjectStep
  <1>3. CASE HandleDeletion \/ DeleteRemote \/ RemoveFinalizer
    <2>1. pc \in {"deletion", "delete", "unfinalize"}
      BY <1>3 DEF HandleDeletion, DeleteRemote, RemoveFinalizer
    <2>2. Gone'
      BY <1>2, <2>1 DEF LagInv
    <2> QED
      BY <1>1, <2>2, NotQuietServed DEF Quiet
  <1>4. CASE CallFails
    <2>1. queue'
      BY <1>4 DEF CallFails, EnqueueBack
    <2> QED
      BY <1>1, <2>1, NotQuietServed DEF Quiet
  <1> QED
    BY <1>1, <1>2, <1>3, <1>4, BeginServed, FirstStepsServed, CreateOrUpdateServed,
       PatchEndpointServed, GetClusterServed, StatusStepsServed, SecretsServed,
       SetReadyServed, ProcessServed, OthersServed
    DEF Next, Step

LEMMA InitServed == Init => LagInv /\ ServedInv
  <1> SUFFICES ASSUME Init PROVE LagInv /\ ServedInv
    OBVIOUS
  <1>1. ~view.exists /\ ~view.owned /\ ~view.del
    BY DEF Init, NoSCP
  <1>2. /\ pc = "idle" /\ remote = Local
        /\ \A l \in Locations : tcp[l].state = "none"
        /\ ~cluster.paused
    BY DEF Init, NoTCP
  <1>3. ~Close /\ ~Current
    BY <1>1 DEF Close, Current
  <1>4. LagInv
    BY <1>1, <1>2 DEF LagInv
  <1> QED
    BY <1>3, <1>4
    DEF ServedInv, CopyInv, TenantInv, CarriedInv, RestInv, AtRest, Quiet

(***************************************************************************)
(* NothingLeftUndone: Reconcile comes to rest only with the current spec   *)
(* in the TenantControlPlane, with the endpoint that Steward reports       *)
(* there, with Ready as long as Steward reports readiness and not longer,  *)
(* and with the kubeconfig and the CA of that place (or a CA that Steward  *)
(* keeps), wherever the reference moves and whatever was read late,        *)
(* refused, failed or out of reach on the way.                             *)
(***************************************************************************)
THEOREM NothingIsLeftUndone == Spec => []NothingLeftUndone
  <1>1. TypeOK /\ FreshInv /\ TypeOK' /\ LagInv /\ ServedInv /\ [Next]_vars
          => LagInv' /\ ServedInv'
    BY NextServed
  <1>2. RestInv => NothingLeftUndone
    BY DEF RestInv, NothingLeftUndone, Workable, Gone
  <1>3. ServedInv => NothingLeftUndone
    BY <1>2 DEF ServedInv
  <1> QED
    BY <1>1, <1>3, InitServed, FreshInvariance, PTL DEF Spec
=============================================================================
