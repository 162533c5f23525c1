--------------------- MODULE StewardControlPlaneProofs ---------------------
(***************************************************************************)
(* Proofs about StewardControlPlane, for every set of remote clusters and  *)
(* endpoints, any number of versions of the spec and any number of faults. *)
(***************************************************************************)
EXTENDS StewardControlPlane, TLAPS

(***************************************************************************)
(* Why a remote TenantControlPlane is always guarded, as long as the       *)
(* reference does not change.  The cache lags, but never so that it shows  *)
(* a finalizer, on an object that is not being deleted, which the API      *)
(* server has not; and what Reconcile has concluded from the cache stays   *)
(* true while it works, because only Reconcile itself takes the finalizer  *)
(* away, and only from an object that is being deleted.                    *)
(***************************************************************************)
CacheInv ==
    view.exists =>
        /\ scp.exists => view.loc = scp.loc
        /\ view.fin /\ ~view.del => scp.exists /\ scp.fin
        /\ view.del /\ scp.exists => scp.del

\* What Reconcile knows while it deletes.
DeletionInv ==
    /\ pc \in {"deletion", "delete", "unfinalize"} /\ scp.exists => scp.del
    /\ pc = "delete" /\ scp.exists => remote = scp.loc
    /\ pc = "unfinalize" => \A t \in Targets : tcp[t].state # "live"

\* What Reconcile knows before it creates the TenantControlPlane.
CreationInv ==
    /\ pc \in {"idle", "deletion", "extract"} => remote = Local
    /\ pc \in {"deletion", "extract", "finalizer"} /\ scp.exists => me.loc = scp.loc
    /\ pc = "extract" /\ me.fin => scp.exists /\ scp.fin
    /\ pc = "finalizer" => remote = me.loc
    /\ pc = "tcp" /\ remote \in Targets => scp.exists /\ scp.fin /\ scp.loc = remote

GuardInv == TypeOK /\ CacheInv /\ DeletionInv /\ CreationInv /\ RemoteTCPGuarded

(***************************************************************************)
(* Why Initialized and Ready can be relied upon.  An object that is gone   *)
(* has no status; while it is there, an endpoint or a Secret stays, and    *)
(* each step of Reconcile leaves behind what the next ones count on.       *)
(***************************************************************************)
EndpointInv ==
    /\ view.ep # None /\ scp.exists => scp.ep # None
    /\ me.ep # None /\ scp.exists => scp.ep # None
    /\ pc = "patch" => mine.ep # None
    /\ pc \in {"cluster", "infra", "init", "replicas", "initAgain"} /\ scp.exists
         => scp.ep # None
    /\ snap.ep # None => cluster.ep # None
    /\ pc \in {"init", "replicas", "initAgain"} => cluster.ep # None

ProgressInv ==
    /\ initialized /\ scp.exists => scp.init
    /\ pc = "initAgain" => initialized
    /\ pc \in {"kubeconfig", "ca", "ready"} /\ scp.exists => scp.init
    /\ pc \in {"ca", "ready"} /\ scp.exists => secrets.kubeconfig # None
    /\ pc = "ready" /\ scp.exists => secrets.ca # None

StatusInv ==
    /\ TypeOK
    /\ ~scp.exists => scp = NoSCP
    /\ EndpointInv
    /\ ProgressInv
    /\ InitializedHasEndpoint
    /\ ReadyIsUsable

(***************************************************************************)
(* Why the TenantControlPlane never goes back to an older spec, though     *)
(* Reconcile writes a spec it has read earlier from a cache that lags.     *)
(* Every generation Reconcile can still write is at least as high as the   *)
(* ones on record at every location: the cache never goes back, and what   *)
(* Reconcile holds before it writes is no older than what it wrote before. *)
(***************************************************************************)
Fresh(gen) == \A l \in Locations : tcp[l].gen <= gen

FreshInv ==
    /\ scp.exists => Fresh(scp.gen)
    /\ view.exists => Fresh(view.gen)
    /\ view.exists /\ scp.exists => view.gen <= scp.gen
    /\ pc \in {"extract", "finalizer", "tcp"} =>
          /\ Fresh(me.gen)
          /\ view.exists => me.gen <= view.gen
          /\ scp.exists => me.gen <= scp.gen

-----------------------------------------------------------------------------
(***************************************************************************)
(* Type correctness.                                                       *)
(***************************************************************************)

\* The null values have their types.
LEMMA NullObjects ==
    /\ NoSCP \in StewardObject
    /\ NoCopy \in Copied
    /\ NoStatus \in TenantStatus
    /\ NoTCP \in TenantObject
    /\ NoSnap \in [ep : Endpoint, ready : BOOLEAN]
  BY DEF NoSCP, StewardObject, NoCopy, Copied, Copy, NoStatus, TenantStatus, Versions,
         NoTCP, TenantObject, NoSnap, Endpoint, Locations

\* What Reconcile keeps of an object has its type.
LEMMA CopyType ==
    ASSUME NEW object \in StewardObject
    PROVE  Copy(object) \in Copied
  BY DEF StewardObject, Copy, Copied

\* When Reconcile returns, nothing of it is left.
LEMMA ReturnType ==
    ASSUME Return
    PROVE  /\ pc' = "idle"
           /\ me' \in Copied /\ me' = NoCopy
           /\ initialized' = FALSE
           /\ remote' = Local /\ remote' \in Locations
           /\ mine' \in TenantStatus
           /\ snap' \in [ep : Endpoint, ready : BOOLEAN] /\ snap' = NoSnap
  BY NullObjects DEF Return, Locations

\* The initial state has its types.
LEMMA InitType == Init => TypeOK
  <1> SUFFICES ASSUME Init PROVE TypeOK
    OBVIOUS
  <1>1. scp \in StewardObject
    <2>1. PICK l \in Locations : scp = [NoSCP EXCEPT !.exists = TRUE, !.gen = 1, !.loc = l]
      BY DEF Init
    <2> QED
      BY <2>1, NullObjects DEF StewardObject
  <1>2. cluster \in [exists : BOOLEAN, paused : BOOLEAN, ep : Endpoint]
    BY DEF Init, Endpoint
  <1>3. Local \in Locations /\ secrets \in [kubeconfig : Locations \cup {None},
                                           ca : Locations \cup {None, Steward}]
    BY DEF Init, Locations
  <1> QED
    BY <1>1, <1>2, <1>3, NullObjects DEF Init, TypeOK

\* Deletion and the steps up to the TenantControlPlane keep the types.
LEMMA FirstStepsType ==
    ASSUME TypeOK,
           \/ Begin \/ HandleDeletion \/ DeleteRemote \/ RemoveFinalizer
           \/ ExtractRemoteClient \/ HandleFinalizer \/ CreateOrUpdateTenantControlPlane
    PROVE  TypeOK'
  <1>1. CASE Begin
    BY <1>1, CopyType DEF Begin, Branch, TypeOK, world, worker
  <1>2. CASE HandleDeletion
    BY <1>2, ReturnType
       DEF HandleDeletion, Withdraw, EnqueueBack, TypeOK, world, Copied, Locations
  <1>3. CASE DeleteRemote
    <2>1. [tcp EXCEPT ![remote].state = "deleting"] \in [Locations -> TenantObject]
      BY DEF TypeOK, TenantObject
    <2> QED
      BY <1>3, <2>1, ReturnType DEF DeleteRemote, Withdraw, TypeOK
  <1>4. CASE RemoveFinalizer
    <2>1. scp' \in StewardObject
      BY <1>4, NullObjects DEF RemoveFinalizer, WithoutFinalizer, TypeOK, StewardObject
    <2> QED
      BY <1>4, <2>1, ReturnType DEF RemoveFinalizer, Withdraw, EnqueueBack, TypeOK
  <1>5. CASE ExtractRemoteClient
    BY <1>5, ReturnType
       DEF ExtractRemoteClient, EnqueueBack, TypeOK, world, Copied, Locations
  <1>6. CASE HandleFinalizer
    <2>1. scp' \in StewardObject
      BY <1>6 DEF HandleFinalizer, TypeOK, StewardObject
    <2>2. Copy(scp') \in Copied
      BY <2>1, CopyType
    <2> QED
      BY <1>6, <2>1, <2>2, ReturnType DEF HandleFinalizer, EnqueueBack, TypeOK
  <1>7. CASE CreateOrUpdateTenantControlPlane
    <2>1. CreatedOrUpdated(tcp[remote]) \in TenantObject
      <3>1. tcp[remote] \in TenantObject /\ me.gen \in Nat
        BY DEF TypeOK, Copied
      <3> QED
        BY <3>1 DEF CreatedOrUpdated, TenantObject
    <2>2. CreatedOrUpdated(tcp[remote]).status \in TenantStatus
      BY <2>1 DEF TenantObject
    <2> QED
      <3> DEFINE got == CreatedOrUpdated(tcp[remote])
      <3>1. [tcp EXCEPT ![remote] = got] \in [Locations -> TenantObject]
        BY <2>1 DEF TypeOK
      <3>2. got.status \in TenantStatus
        BY <2>2
      <3>3. /\ pc = "tcp"
            /\ IF remote \in Targets /\ me.loc = Local
                 THEN EnqueueBack /\ UNCHANGED tcp
                 ELSE /\ tcp' = [tcp EXCEPT ![remote] = got]
                      /\ IF got.status.ep = None
                           THEN EnqueueBack
                           ELSE /\ mine' = got.status
                                /\ pc' = "patch"
                                /\ UNCHANGED <<queue, me, initialized, remote, snap>>
            /\ UNCHANGED <<scp, view, cluster, infra, secrets, reachable, faults>>
        BY <1>7 DEF CreateOrUpdateTenantControlPlane
      <3> HIDE DEF got
      <3>4. tcp' \in [Locations -> TenantObject]
        BY <3>1, <3>3 DEF TypeOK
      <3>5. /\ queue' \in BOOLEAN
            /\ pc' \in {"idle", "patch"}
            /\ me' \in Copied
            /\ initialized' \in BOOLEAN
            /\ remote' \in Locations
            /\ mine' \in TenantStatus
            /\ snap' \in [ep : Endpoint, ready : BOOLEAN]
        BY <3>2, <3>3, ReturnType DEF EnqueueBack, TypeOK
      <3> QED
        BY <3>3, <3>4, <3>5 DEF TypeOK
  <1> QED
    BY <1>1, <1>2, <1>3, <1>4, <1>5, <1>6, <1>7

\* The informer's copy of the infrastructure cluster is one of its states.
LEMMA SeenType ==
    ASSUME TypeOK
    PROVE  Seen(infra) \in InfraObject
  <1>1. [ep |-> infra.ep, ready |-> infra.kind = "patchReady" /\ infra.ready]
          \in [ep : Endpoint, ready : BOOLEAN]
    BY DEF TypeOK, InfraObject
  <1> QED
    BY <1>1 DEF Seen, TypeOK, InfraObject

\* So do the endpoint, the status and the Secrets.
LEMMA LastStepsType ==
    ASSUME TypeOK,
           \/ PatchControlPlaneEndpoint \/ GetClusterAgain \/ PatchInfrastructure
           \/ SetInitialized \/ ReportReplicas \/ SetInitializedAgain
           \/ CreateOrUpdateKubeconfig \/ CreateOrUpdateCertificateAuthority
           \/ SetReady \/ CallFails
    PROVE  TypeOK'
  <1>1. CASE PatchControlPlaneEndpoint
    <2>1. scp' \in StewardObject /\ scp.init \in BOOLEAN
      BY <1>1
         DEF PatchControlPlaneEndpoint, PatchedEndpoint, TypeOK, StewardObject, TenantStatus
    <2> QED
      BY <1>1, <2>1, ReturnType, NullObjects
         DEF PatchControlPlaneEndpoint, EnqueueBack, TypeOK
  <1>2. CASE GetClusterAgain
    <2>1. [ep |-> cluster.ep, ready |-> infra.ready] \in [ep : Endpoint, ready : BOOLEAN]
      BY DEF TypeOK, InfraObject
    <2> QED
      BY <1>2, <2>1, ReturnType DEF GetClusterAgain, Withdraw, TypeOK, world
  <1>3. CASE PatchInfrastructure
    <2>1. \/ infra' = infra
          \/ \E e \in {infra.ep, mine.ep}, b \in BOOLEAN :
                infra' = [infra EXCEPT !.ep = e, !.ready = b]
      BY <1>3 DEF PatchInfrastructure, PatchCluster, TypeOK, InfraObject
    <2>2. infra' \in InfraObject
      BY <2>1 DEF TypeOK, TenantStatus, InfraObject
    <2> QED
      BY <1>3, <2>2, ReturnType, NullObjects
         DEF PatchInfrastructure, WaitForCluster, EnqueueBack, TypeOK
  <1>4. CASE SetInitialized
    <2>1. scp' \in StewardObject
      BY <1>4 DEF SetInitialized, UpdateStatus, TypeOK, StewardObject
    <2> QED
      BY <1>4, <2>1, ReturnType DEF SetInitialized, EnqueueBack, TypeOK
  <1>5. CASE ReportReplicas
    BY <1>5, ReturnType DEF ReportReplicas, UpdateStatus, EnqueueBack, TypeOK
  <1>6. CASE SetInitializedAgain
    <2>1. scp' \in StewardObject
      BY <1>6 DEF SetInitializedAgain, UpdateStatus, InitializedAgain, TypeOK, StewardObject
    <2> QED
      BY <1>6, <2>1 DEF SetInitializedAgain, TypeOK
  <1>7. CASE CreateOrUpdateKubeconfig
    BY <1>7, ReturnType
       DEF CreateOrUpdateKubeconfig, ReplicatedKubeconfig, EnqueueBack, TypeOK
  <1>8. CASE CreateOrUpdateCertificateAuthority
    BY <1>8, ReturnType
       DEF CreateOrUpdateCertificateAuthority, ReplicatedCA, EnqueueBack, TypeOK
  <1>9. CASE SetReady
    <2>1. scp' \in StewardObject
      <3>1. ReadyStatus \in BOOLEAN
        BY DEF ReadyStatus
      <3>2. scp' = scp \/ scp' = [scp EXCEPT !.ready = ReadyStatus]
        BY <1>9 DEF SetReady, UpdateStatus
      <3> QED
        BY <3>1, <3>2 DEF TypeOK, StewardObject
    <2> QED
      BY <1>9, <2>1, ReturnType DEF SetReady, Withdraw, EnqueueBack, TypeOK
  <1>10. CASE CallFails
    BY <1>10, ReturnType DEF CallFails, EnqueueBack, TypeOK, world
  <1> QED
    BY <1>1, <1>2, <1>3, <1>4, <1>5, <1>6, <1>7, <1>8, <1>9, <1>10

\* And so do the cache, restarts and everybody else.
LEMMA OthersType ==
    ASSUME TypeOK, Process \/ Others
    PROVE  TypeOK'
  <1>1. CASE CacheSync
    BY <1>1 DEF CacheSync, TypeOK, worker, StewardObject
  <1>2. CASE Resync \/ InfraCacheSync
    BY <1>2, SeenType DEF Resync, InfraCacheSync, TypeOK, worker, world
  <1>3. CASE Restart
    BY <1>3, ReturnType, SeenType DEF Restart, TypeOK, StewardObject
  <1>4. CASE OwnerSet \/ UserDeletes \/ \E l \in Locations : UserEdits(l)
    <2>1. scp' \in StewardObject
      <3>1. CASE OwnerSet
        BY <3>1 DEF OwnerSet, TypeOK, StewardObject
      <3>2. CASE UserDeletes
        BY <3>2, NullObjects DEF UserDeletes, TypeOK, StewardObject
      <3>3. CASE \E l \in Locations : UserEdits(l)
        <4>1. PICK l \in Locations : scp' = [scp EXCEPT !.gen = @ + 1, !.loc = l]
          BY <3>3 DEF UserEdits
        <4>2. scp.gen + 1 \in Nat
          BY DEF TypeOK, StewardObject
        <4> QED
          BY <4>1, <4>2 DEF TypeOK, StewardObject
      <3> QED
        BY <1>4, <3>1, <3>2, <3>3
    <2> QED
      BY <1>4, <2>1 DEF OwnerSet, UserDeletes, UserEdits, TypeOK, worker
  <1>5. CASE ClusterChanges
    <2>1. cluster' \in [exists : BOOLEAN, paused : BOOLEAN, ep : Endpoint]
      BY <1>5 DEF ClusterChanges, TypeOK, StewardObject, InfraObject
    <2> QED
      BY <1>5, <2>1 DEF ClusterChanges, TypeOK, worker
  <1>6. CASE InfrastructureChanges
    <2>1. \E b \in BOOLEAN : infra' = [infra EXCEPT !.ready = b]
      BY <1>6 DEF InfrastructureChanges
    <2>2. infra' \in InfraObject
      BY <2>1 DEF TypeOK, InfraObject
    <2> QED
      BY <1>6, <2>2 DEF InfrastructureChanges, TypeOK, worker
  <1>7. CASE \E t \in Targets : ReachabilityChanges(t)
    BY <1>7 DEF ReachabilityChanges, TypeOK, worker, StewardObject
  <1>8. CASE \E l \in Locations : StewardReports(l)
    <2>1. PICK l \in Locations : StewardReports(l)
      BY <1>8
    <2>2. tcp' \in [Locations -> TenantObject]
      BY <2>1 DEF StewardReports, TypeOK, TenantObject
    <2>3. secrets' \in [kubeconfig : Locations \cup {None},
                        ca : Locations \cup {None, Steward}]
      BY <2>1 DEF StewardReports, TypeOK
    <2> QED
      BY <2>1, <2>2, <2>3 DEF StewardReports, TypeOK, worker, StewardObject
  <1>9. CASE \E l \in Locations : StewardFinalizes(l)
    BY <1>9, NullObjects DEF StewardFinalizes, TypeOK, worker
  <1>10. CASE GarbageCollected
    BY <1>10, NullObjects DEF GarbageCollected, TypeOK, worker, Locations
  <1> QED
    BY <1>1, <1>2, <1>3, <1>4, <1>5, <1>6, <1>7, <1>8, <1>9, <1>10 DEF Process, Others

\* Every step keeps the types.
LEMMA NextType == TypeOK /\ [Next]_vars => TypeOK'
  <1> SUFFICES ASSUME TypeOK, [Next]_vars PROVE TypeOK'
    OBVIOUS
  <1>1. CASE Begin \/ Step \/ CallFails
    BY <1>1, FirstStepsType, LastStepsType DEF Step
  <1>2. CASE Process \/ Others
    BY <1>2, OthersType
  <1>3. CASE UNCHANGED vars
    BY <1>3 DEF TypeOK, vars, world, worker
  <1> QED
    BY <1>1, <1>2, <1>3 DEF Next

(***************************************************************************)
(* Type correctness of the objects, the caches and Reconcile's memory.     *)
(***************************************************************************)
THEOREM TypeCorrect == Spec => []TypeOK
  BY InitType, NextType, PTL DEF Spec

-----------------------------------------------------------------------------
(***************************************************************************)
(* Remote TenantControlPlanes are guarded.                                 *)
(***************************************************************************)

Guarding == CacheInv /\ DeletionInv /\ CreationInv /\ RemoteTCPGuarded

\* Steps that leave the finalizer, the deletion, the location, the cache and the
\* TenantControlPlanes alone and are not among those that prepare a creation or
\* a deletion.
LEMMA GuardingKept ==
    ASSUME GuardInv,
           UNCHANGED <<view, tcp>>,
           scp'.exists = scp.exists, scp'.fin = scp.fin,
           scp'.del = scp.del, scp'.loc = scp.loc,
           \/ pc' = "idle" /\ remote' = Local
           \/ UNCHANGED <<pc, me, remote>>
           \/ pc' \notin {"idle", "deletion", "delete", "unfinalize", "extract",
                         "finalizer", "tcp"}
    PROVE  Guarding'
  BY DEF GuardInv, Guarding, CacheInv, DeletionInv, CreationInv, RemoteTCPGuarded

\* From the endpoint on, Reconcile takes only such steps.
LEMMA LastStepsGuarding ==
    ASSUME GuardInv,
           \/ PatchControlPlaneEndpoint \/ GetClusterAgain \/ PatchInfrastructure
           \/ SetInitialized \/ ReportReplicas \/ SetInitializedAgain
           \/ CreateOrUpdateKubeconfig \/ CreateOrUpdateCertificateAuthority
           \/ SetReady \/ CallFails
    PROVE  Guarding'
  <1>1. TypeOK
    BY DEF GuardInv
  <1>2. UNCHANGED <<view, tcp>>
    BY DEF PatchControlPlaneEndpoint, GetClusterAgain, PatchInfrastructure, SetInitialized,
           ReportReplicas, SetInitializedAgain, CreateOrUpdateKubeconfig,
           CreateOrUpdateCertificateAuthority, SetReady, CallFails, world
  <1>3. /\ scp'.exists = scp.exists /\ scp'.fin = scp.fin
        /\ scp'.del = scp.del /\ scp'.loc = scp.loc
    BY <1>1
       DEF PatchControlPlaneEndpoint, GetClusterAgain, PatchInfrastructure, SetInitialized,
           ReportReplicas, SetInitializedAgain, CreateOrUpdateKubeconfig, InitializedAgain,
           CreateOrUpdateCertificateAuthority, SetReady, CallFails, world, UpdateStatus,
           TypeOK, StewardObject
  <1>4. \/ pc' = "idle" /\ remote' = Local
        \/ pc' \notin {"idle", "deletion", "delete", "unfinalize", "extract",
                      "finalizer", "tcp"}
    BY ReturnType
       DEF PatchControlPlaneEndpoint, GetClusterAgain, PatchInfrastructure, SetInitialized,
           ReportReplicas, SetInitializedAgain, CreateOrUpdateKubeconfig,
           CreateOrUpdateCertificateAuthority, SetReady, CallFails, WaitForCluster,
           EnqueueBack, Withdraw
  <1> QED
    BY <1>2, <1>3, <1>4, GuardingKept

\* Reconcile reads the cache, and deletes.
LEMMA DeletionGuarding ==
    ASSUME GuardInv, Begin \/ HandleDeletion \/ DeleteRemote \/ RemoveFinalizer
    PROVE  Guarding'
  <1>1. TypeOK /\ Guarding /\ Local \notin Targets
    BY SCPAssumption DEF GuardInv, Guarding
  <1>2. CASE Begin
    <2>1. UNCHANGED <<scp, view, tcp, remote>>
      BY <1>2 DEF Begin, world, worker
    <2>2. CASE UNCHANGED worker
      BY <2>1, <2>2, GuardingKept DEF worker
    <2>3. CASE pc' = Branch(view) /\ me' = Copy(view) /\ view.exists
      <3>1. remote' = Local
        BY <1>1, <1>2, <2>1 DEF Begin, Guarding, CreationInv
      <3>2. me'.loc = view.loc /\ me'.fin = view.fin
        BY <2>3 DEF Copy
      <3>3. /\ pc' \in {"deletion", "tcp", "extract"}
            /\ pc' = "deletion" => view.del
            /\ pc' = "extract" => ~view.del
        BY <2>3 DEF Branch
      <3> QED
        BY <1>1, <2>1, <2>3, <3>1, <3>2, <3>3
           DEF Guarding, CacheInv, DeletionInv, CreationInv, RemoteTCPGuarded
    <2> QED
      BY <1>2, <2>2, <2>3 DEF Begin
  <1>3. CASE HandleDeletion
    <2>1. UNCHANGED <<scp, view, tcp>>
      BY <1>3 DEF HandleDeletion, world
    <2>2. CASE Return
      BY <2>1, <2>2, ReturnType, GuardingKept
    <2>3. CASE pc' = "delete" /\ remote' = me.loc
      BY <1>1, <1>3, <2>1, <2>3
         DEF HandleDeletion, Guarding, CacheInv, DeletionInv, CreationInv, RemoteTCPGuarded
    <2> QED
      BY <1>3, <2>2, <2>3 DEF HandleDeletion, Withdraw, EnqueueBack
  <1>4. CASE DeleteRemote
    <2>1. UNCHANGED <<scp, view>>
      BY <1>4 DEF DeleteRemote
    <2>2. CASE Return /\ UNCHANGED tcp
      BY <2>1, <2>2, ReturnType, GuardingKept
    <2>3. CASE /\ tcp' = [tcp EXCEPT ![remote].state = "deleting"]
               /\ pc' = "unfinalize"
      <3>1. /\ tcp'[remote].state = "deleting"
            /\ \A t \in Targets \ {remote} : tcp'[t] = tcp[t]
        BY <1>1, <2>3 DEF TypeOK, Locations, TenantObject
      <3>2. \A t \in Targets : tcp[t].state = "live" => scp.exists /\ scp.loc = t
        BY <1>1 DEF Guarding, RemoteTCPGuarded
      <3>3. scp.exists => remote = scp.loc /\ scp.del
        BY <1>1, <1>4 DEF DeleteRemote, Guarding, DeletionInv
      <3>4. \A t \in Targets : tcp'[t].state # "live"
        BY <3>1, <3>2, <3>3
      <3> QED
        BY <1>1, <2>1, <2>3, <3>3, <3>4
           DEF Guarding, CacheInv, DeletionInv, CreationInv, RemoteTCPGuarded
    <2> QED
      BY <1>4, <2>2, <2>3 DEF DeleteRemote, Withdraw
  <1>5. CASE RemoveFinalizer
    <2>1. Return /\ UNCHANGED <<view, tcp>>
      BY <1>5 DEF RemoveFinalizer, Withdraw, EnqueueBack
    <2>2. CASE UNCHANGED scp
      BY <2>1, <2>2, ReturnType, GuardingKept
    <2>3. CASE Current /\ scp' = WithoutFinalizer(scp)
      <3>1. scp.exists /\ scp.del /\ view = scp
        BY <1>1, <1>5, <2>3 DEF RemoveFinalizer, Current, Guarding, DeletionInv
      <3>2. scp' = NoSCP
        BY <2>3, <3>1 DEF WithoutFinalizer
      <3>3. \A t \in Targets : tcp'[t].state # "live"
        BY <1>1, <1>5, <2>1 DEF RemoveFinalizer, Guarding, DeletionInv
      <3>4. pc' = "idle" /\ remote' = Local
        BY <2>1, ReturnType
      <3> QED
        BY <2>1, <3>1, <3>2, <3>3, <3>4
           DEF Guarding, CacheInv, DeletionInv, CreationInv, RemoteTCPGuarded, NoSCP
    <2> QED
      BY <1>5, <2>2, <2>3 DEF RemoveFinalizer
  <1> QED
    BY <1>2, <1>3, <1>4, <1>5

\* Reconcile gets the client, sets the finalizer, and only then creates.
LEMMA CreationGuarding ==
    ASSUME GuardInv,
           ExtractRemoteClient \/ HandleFinalizer \/ CreateOrUpdateTenantControlPlane
    PROVE  Guarding'
  <1>1. TypeOK /\ Guarding /\ Local \notin Targets
    BY SCPAssumption DEF GuardInv, Guarding
  <1>2. CASE ExtractRemoteClient
    <2>1. UNCHANGED <<scp, view, tcp>>
      BY <1>2 DEF ExtractRemoteClient, world
    <2>2. CASE Return
      BY <2>1, <2>2, ReturnType, GuardingKept
    <2>3. CASE /\ remote' = me.loc /\ UNCHANGED me
               /\ pc' = IF HasFinalizer THEN "tcp" ELSE "finalizer"
      BY <1>1, <1>2, <2>1, <2>3
         DEF ExtractRemoteClient, HasFinalizer, Guarding, CacheInv, DeletionInv,
             CreationInv, RemoteTCPGuarded
    <2> QED
      BY <1>2, <2>2, <2>3 DEF ExtractRemoteClient, EnqueueBack
  <1>3. CASE HandleFinalizer
    <2>1. UNCHANGED <<view, tcp>>
      BY <1>3 DEF HandleFinalizer
    <2>2. CASE Return /\ UNCHANGED scp
      BY <2>1, <2>2, ReturnType, GuardingKept
    <2>3. CASE /\ Current
               /\ scp' = [scp EXCEPT !.fin = TRUE]
               /\ pc' = "tcp" /\ UNCHANGED remote
      <3>1. /\ scp'.fin /\ scp'.exists /\ scp.exists /\ view = scp
            /\ scp'.loc = scp.loc /\ scp'.del = scp.del
        BY <1>1, <2>3 DEF Current, TypeOK, StewardObject
      <3>2. remote = scp.loc
        BY <1>1, <1>3, <3>1 DEF HandleFinalizer, Guarding, CreationInv
      <3> QED
        BY <1>1, <2>1, <2>3, <3>1, <3>2
           DEF Guarding, CacheInv, DeletionInv, CreationInv, RemoteTCPGuarded
    <2> QED
      BY <1>3, <2>2, <2>3 DEF HandleFinalizer, EnqueueBack
  <1>4. CASE CreateOrUpdateTenantControlPlane
    <2>1. /\ UNCHANGED <<scp, view>>
          /\ pc = "tcp"
          /\ \/ pc' = "idle" /\ remote' = Local
             \/ pc' = "patch"
      BY <1>4, ReturnType DEF CreateOrUpdateTenantControlPlane, EnqueueBack
    <2>2. \/ tcp' = tcp
          \/ \A t \in Targets \ {remote} : tcp'[t] = tcp[t]
      BY <1>1, <1>4 DEF CreateOrUpdateTenantControlPlane, TypeOK, Locations
    <2>3. remote \in Targets => scp.exists /\ scp.fin /\ scp.loc = remote
      BY <1>1, <2>1 DEF Guarding, CreationInv
    <2>4. RemoteTCPGuarded'
      BY <1>1, <2>1, <2>2, <2>3 DEF Guarding, RemoteTCPGuarded
    <2>5. CacheInv' /\ DeletionInv' /\ CreationInv'
      BY <1>1, <2>1 DEF Guarding, CacheInv, DeletionInv, CreationInv
    <2> QED
      BY <2>4, <2>5 DEF Guarding
  <1> QED
    BY <1>2, <1>3, <1>4

\* The cache catches up, the process restarts, and others change their objects.
LEMMA OthersGuarding ==
    ASSUME Moves = {}, GuardInv, Process \/ Others
    PROVE  Guarding'
  <1>1. TypeOK /\ Guarding /\ Local \notin Targets
    BY SCPAssumption DEF GuardInv, Guarding
  <1>2. CASE CacheSync
    BY <1>1, <1>2
       DEF CacheSync, worker, Guarding, CacheInv, DeletionInv, CreationInv, RemoteTCPGuarded
  <1>3. CASE Restart
    BY <1>1, <1>3, ReturnType
       DEF Restart, Guarding, CacheInv, DeletionInv, CreationInv, RemoteTCPGuarded
  <1>4. CASE Resync \/ InfraCacheSync \/ ClusterChanges \/ InfrastructureChanges
             \/ \E t \in Targets : ReachabilityChanges(t)
    BY <1>4, GuardingKept
       DEF Resync, InfraCacheSync, ClusterChanges, InfrastructureChanges, ReachabilityChanges, world, worker
  <1>5. CASE OwnerSet \/ \E l \in Locations : UserEdits(l)
    <2>1. /\ scp'.exists = scp.exists /\ scp'.fin = scp.fin
          /\ scp'.del = scp.del /\ scp'.loc = scp.loc
      <3>1. CASE OwnerSet
        BY <1>1, <3>1 DEF OwnerSet, TypeOK, StewardObject
      <3>2. CASE \E l \in Locations : UserEdits(l)
        BY <1>1, <3>2 DEF UserEdits, TypeOK, StewardObject
      <3> QED
        BY <1>5, <3>1, <3>2
    <2>2. UNCHANGED <<view, tcp, pc, me, remote>>
      BY <1>5 DEF OwnerSet, UserEdits, worker
    <2> QED
      BY <2>1, <2>2, GuardingKept
  <1>6. CASE UserDeletes
    <2>1. UNCHANGED <<view, tcp, pc, me, remote>>
      BY <1>6 DEF UserDeletes, worker
    <2>2. CASE scp.fin /\ scp' = [scp EXCEPT !.del = TRUE]
      <3>1. /\ scp'.exists = scp.exists /\ scp'.fin = scp.fin
            /\ scp'.del /\ scp'.loc = scp.loc
        BY <1>1, <2>2 DEF TypeOK, StewardObject
      <3> QED
        BY <1>1, <2>1, <3>1
           DEF Guarding, CacheInv, DeletionInv, CreationInv, RemoteTCPGuarded
    <2>3. CASE ~scp.fin /\ scp' = NoSCP
      BY <1>1, <2>1, <2>3
         DEF Guarding, CacheInv, DeletionInv, CreationInv, RemoteTCPGuarded, NoSCP
    <2> QED
      BY <1>6, <2>2, <2>3 DEF UserDeletes
  <1>7. CASE \/ \E l \in Locations : StewardReports(l) \/ StewardFinalizes(l)
             \/ GarbageCollected
    <2>1. UNCHANGED <<scp, view, pc, me, remote>>
      BY <1>7 DEF StewardReports, StewardFinalizes, GarbageCollected, worker
    <2>2. \A t \in Targets : tcp'[t].state = "live" => tcp[t].state = "live"
      <3>1. CASE \E l \in Locations : StewardReports(l)
        BY <1>1, <3>1 DEF StewardReports, TypeOK, Locations, TenantObject
      <3>2. CASE \E l \in Locations : StewardFinalizes(l)
        BY <1>1, <3>2 DEF StewardFinalizes, TypeOK, Locations, NoTCP
      <3>3. CASE GarbageCollected
        BY <1>1, <3>3 DEF GarbageCollected, TypeOK, Locations
      <3> QED
        BY <1>7, <3>1, <3>2, <3>3
    <2> QED
      BY <1>1, <2>1, <2>2
         DEF Guarding, CacheInv, DeletionInv, CreationInv, RemoteTCPGuarded
  <1> QED
    BY <1>2, <1>3, <1>4, <1>5, <1>6, <1>7 DEF Process, Others

\* The inductive invariant of a control plane that stays where it is.
LEMMA GuardInvariance ==
    ASSUME Moves = {}
    PROVE  Spec => []GuardInv
  <1>1. Init => GuardInv
    <2> SUFFICES ASSUME Init PROVE GuardInv
      OBVIOUS
    <2>1. TypeOK
      BY InitType
    <2>2. Guarding
      BY DEF Init, Guarding, CacheInv, DeletionInv, CreationInv, RemoteTCPGuarded,
             Locations, NoTCP, NoSCP
    <2> QED
      BY <2>1, <2>2 DEF GuardInv, Guarding
  <1>2. GuardInv /\ [Next]_vars => GuardInv'
    <2> SUFFICES ASSUME GuardInv, [Next]_vars PROVE GuardInv'
      OBVIOUS
    <2>1. TypeOK'
      BY NextType DEF GuardInv
    <2>2. CASE Begin \/ Step \/ CallFails
      BY <2>1, <2>2, DeletionGuarding, CreationGuarding, LastStepsGuarding
         DEF Step, GuardInv, Guarding
    <2>3. CASE Process \/ Others
      BY <2>1, <2>3, OthersGuarding DEF GuardInv, Guarding
    <2>4. CASE UNCHANGED vars
      BY <2>1, <2>4, GuardingKept DEF GuardInv, Guarding, vars, world, worker
    <2> QED
      BY <2>2, <2>3, <2>4 DEF Next
  <1> QED
    BY <1>1, <1>2, PTL DEF Spec

(***************************************************************************)
(* As long as nobody changes the reference, a remote TenantControlPlane    *)
(* that has not been deleted is the one that an existing                   *)
(* StewardControlPlane with the finalizer refers to: handleFinalizer runs  *)
(* before the creation and handleDeletion takes the finalizer away after   *)
(* the deletion, whatever stale reads, failed calls, restarts and user     *)
(* requests come in between.                                               *)
(***************************************************************************)
THEOREM RemoteTCPsGuarded ==
    ASSUME Moves = {}
    PROVE  Spec => []RemoteTCPGuarded
  <1>1. GuardInv => RemoteTCPGuarded
    BY DEF GuardInv
  <1> QED
    BY <1>1, GuardInvariance, PTL

-----------------------------------------------------------------------------
(***************************************************************************)
(* Initialized and Ready can be relied upon.                               *)
(***************************************************************************)

Relying ==
    /\ ~scp.exists => scp = NoSCP
    /\ EndpointInv
    /\ ProgressInv
    /\ InitializedHasEndpoint
    /\ ReadyIsUsable

\* Steps that take no endpoint and no Secret from an existing object, leave its
\* status alone, and either end Reconcile or are not its own.
LEMMA StatusKept ==
    ASSUME StatusInv,
           ~scp'.exists => scp' = NoSCP,
           scp'.exists =>
              /\ scp.exists
              /\ scp.ep # None => scp'.ep # None
              /\ scp'.init = scp.init
              /\ scp'.ready = scp.ready
              /\ secrets.kubeconfig # None => secrets'.kubeconfig # None
              /\ secrets.ca # None => secrets'.ca # None,
           view' \in {view, scp},
           cluster.ep # None => cluster'.ep # None,
           \/ UNCHANGED <<pc, me, initialized, mine, snap>>
           \/ Return
    PROVE  Relying'
  <1>1. Relying
    BY DEF StatusInv, Relying
  <1>2. NoSCP.init = FALSE /\ NoSCP.ready = FALSE
    BY DEF NoSCP
  <1>3. CASE UNCHANGED <<pc, me, initialized, mine, snap>>
    BY <1>1, <1>2, <1>3
       DEF Relying, EndpointInv, ProgressInv, InitializedHasEndpoint, ReadyIsUsable
  <1>4. CASE Return
    <2>1. pc' = "idle" /\ me'.ep = None /\ initialized' = FALSE /\ snap'.ep = None
      BY <1>4 DEF Return, NoCopy, Copy, NoSCP, NoSnap
    <2> QED
      BY <1>1, <1>2, <2>1
         DEF Relying, EndpointInv, ProgressInv, InitializedHasEndpoint, ReadyIsUsable
  <1> QED
    BY <1>3, <1>4

\* Deletion, and the steps up to the TenantControlPlane.
LEMMA FirstStepsStatus ==
    ASSUME StatusInv,
           \/ Begin \/ HandleDeletion \/ DeleteRemote \/ RemoveFinalizer
           \/ ExtractRemoteClient \/ HandleFinalizer \/ CreateOrUpdateTenantControlPlane
    PROVE  Relying'
  <1>1. TypeOK /\ Relying
    BY DEF StatusInv, Relying
  <1>2. CASE Begin
    <2>1. UNCHANGED <<scp, view, cluster, secrets, initialized, mine, snap>>
      BY <1>2 DEF Begin, world, worker
    <2>2. CASE UNCHANGED worker
      BY <1>1, <2>1, <2>2, StatusKept DEF worker, Relying
    <2>3. CASE me' = Copy(view) /\ pc' = Branch(view)
      <3>1. me'.ep = view.ep /\ pc' \in {"deletion", "tcp", "extract"}
        BY <2>3 DEF Copy, Branch
      <3> QED
        BY <1>1, <2>1, <3>1
           DEF Relying, EndpointInv, ProgressInv, InitializedHasEndpoint, ReadyIsUsable
    <2> QED
      BY <1>2, <2>2, <2>3 DEF Begin
  <1>3. CASE HandleDeletion \/ DeleteRemote \/ ExtractRemoteClient
    <2>1. UNCHANGED <<scp, view, cluster, secrets>>
      BY <1>3 DEF HandleDeletion, DeleteRemote, ExtractRemoteClient, world
    <2>2. CASE Return
      BY <1>1, <2>1, <2>2, StatusKept DEF Relying
    <2>3. CASE /\ pc' \in {"delete", "unfinalize", "tcp", "finalizer"}
               /\ UNCHANGED <<me, initialized, mine, snap>>
      BY <1>1, <2>1, <2>3
         DEF Relying, EndpointInv, ProgressInv, InitializedHasEndpoint, ReadyIsUsable
    <2> QED
      BY <1>3, <2>2, <2>3
         DEF HandleDeletion, DeleteRemote, ExtractRemoteClient, Withdraw, EnqueueBack
  <1>4. CASE RemoveFinalizer
    <2>1. Return /\ UNCHANGED <<view, cluster, secrets>>
      BY <1>4 DEF RemoveFinalizer, Withdraw, EnqueueBack
    <2>2. CASE UNCHANGED scp
      BY <1>1, <2>1, <2>2, StatusKept DEF Relying
    <2>3. CASE Current /\ scp' = WithoutFinalizer(scp)
      <3>1. scp.exists
        BY <2>3 DEF Current
      <3>2. scp' = NoSCP \/ scp' = [scp EXCEPT !.fin = FALSE]
        BY <2>3 DEF WithoutFinalizer
      <3>3. CASE scp' = NoSCP
        BY <2>1, <3>3, StatusKept DEF NoSCP
      <3>4. CASE scp' = [scp EXCEPT !.fin = FALSE]
        <4>1. /\ scp'.exists = scp.exists /\ scp'.ep = scp.ep
              /\ scp'.init = scp.init /\ scp'.ready = scp.ready
          BY <1>1, <3>4 DEF TypeOK, StewardObject
        <4> QED
          BY <2>1, <3>1, <4>1, StatusKept
      <3> QED
        BY <3>2, <3>3, <3>4
    <2> QED
      BY <1>4, <2>2, <2>3 DEF RemoveFinalizer
  <1>5. CASE HandleFinalizer
    <2>1. UNCHANGED <<view, cluster, secrets>>
      BY <1>5 DEF HandleFinalizer
    <2>2. CASE Return /\ UNCHANGED scp
      BY <1>1, <2>1, <2>2, StatusKept DEF Relying
    <2>3. CASE /\ Current
               /\ scp' = [scp EXCEPT !.fin = TRUE]
               /\ me' = Copy(scp')
               /\ pc' = "tcp" /\ UNCHANGED <<initialized, mine, snap>>
      <3>1. /\ scp.exists /\ scp'.exists /\ scp'.ep = scp.ep
            /\ scp'.init = scp.init /\ scp'.ready = scp.ready
        BY <1>1, <2>3 DEF Current, TypeOK, StewardObject
      <3>2. me'.ep = scp.ep
        BY <2>3, <3>1 DEF Copy
      <3> QED
        BY <1>1, <2>1, <2>3, <3>1, <3>2
           DEF Relying, EndpointInv, ProgressInv, InitializedHasEndpoint, ReadyIsUsable
    <2> QED
      BY <1>5, <2>2, <2>3 DEF HandleFinalizer, EnqueueBack
  <1>6. CASE CreateOrUpdateTenantControlPlane
    <2>1. UNCHANGED <<scp, view, cluster, secrets>>
      BY <1>6 DEF CreateOrUpdateTenantControlPlane
    <2>2. CASE Return
      BY <1>1, <2>1, <2>2, StatusKept DEF Relying
    <2>3. CASE /\ mine'.ep # None /\ pc' = "patch"
               /\ UNCHANGED <<me, initialized, snap>>
      BY <1>1, <2>1, <2>3
         DEF Relying, EndpointInv, ProgressInv, InitializedHasEndpoint, ReadyIsUsable
    <2> QED
      BY <1>6, <2>2, <2>3 DEF CreateOrUpdateTenantControlPlane, EnqueueBack
  <1> QED
    BY <1>2, <1>3, <1>4, <1>5, <1>6

\* The endpoint: on the StewardControlPlane, then on the Cluster.
LEMMA EndpointStatus ==
    ASSUME StatusInv, PatchControlPlaneEndpoint \/ GetClusterAgain \/ PatchInfrastructure
    PROVE  Relying'
  <1>1. TypeOK /\ Relying
    BY DEF StatusInv, Relying
  <1>2. CASE PatchControlPlaneEndpoint
    <2>1. UNCHANGED <<view, cluster, secrets>>
      BY <1>2 DEF PatchControlPlaneEndpoint
    <2>2. CASE Return /\ UNCHANGED scp
      BY <1>1, <2>1, <2>2, StatusKept DEF Relying
    <2>3. CASE /\ scp.exists
               /\ scp' = [scp EXCEPT !.ep = PatchedEndpoint(@)]
               /\ me' = NoCopy /\ initialized' = scp.init
               /\ pc' = "cluster" /\ UNCHANGED <<mine, snap>>
      <3>1. mine.ep # None /\ (me.ep # None => scp.ep # None)
        BY <1>1, <1>2, <2>3 DEF PatchControlPlaneEndpoint, Relying, EndpointInv
      <3>2. /\ scp'.exists /\ scp'.ep # None
            /\ scp'.init = scp.init /\ scp'.ready = scp.ready
        BY <1>1, <2>3, <3>1 DEF PatchedEndpoint, TypeOK, StewardObject
      <3>3. me'.ep = None
        BY <2>3 DEF NoCopy, Copy, NoSCP
      <3> QED
        BY <1>1, <2>1, <2>3, <3>2, <3>3
           DEF Relying, EndpointInv, ProgressInv, InitializedHasEndpoint, ReadyIsUsable
    <2> QED
      BY <1>2, <2>2, <2>3 DEF PatchControlPlaneEndpoint, EnqueueBack
  <1>3. CASE GetClusterAgain
    <2>1. UNCHANGED <<scp, view, cluster, secrets>> /\ pc = "cluster"
      BY <1>3 DEF GetClusterAgain, world
    <2>2. CASE Return
      BY <1>1, <2>1, <2>2, StatusKept DEF Relying
    <2>3. CASE /\ snap' = [ep |-> cluster.ep, ready |-> infra.ready]
               /\ pc' = "infra" /\ UNCHANGED <<me, initialized, mine>>
      BY <1>1, <2>1, <2>3
         DEF Relying, EndpointInv, ProgressInv, InitializedHasEndpoint, ReadyIsUsable
    <2> QED
      BY <1>3, <2>2, <2>3 DEF GetClusterAgain, Withdraw
  <1>4. CASE PatchInfrastructure
    <2>1. UNCHANGED <<scp, view, cluster, secrets>> /\ pc = "infra"
      BY <1>4 DEF PatchInfrastructure
    <2>2. CASE Return
      BY <1>1, <2>1, <2>2, StatusKept DEF Relying
    <2>3. CASE /\ ClusterReady
               /\ pc' \in {"init", "replicas"}
               /\ snap' = NoSnap /\ UNCHANGED <<me, initialized, mine>>
      <3>1. cluster.ep # None /\ snap'.ep = None
        BY <1>1, <2>3 DEF ClusterReady, Relying, EndpointInv, NoSnap
      <3> QED
        BY <1>1, <2>1, <2>3, <3>1
           DEF Relying, EndpointInv, ProgressInv, InitializedHasEndpoint, ReadyIsUsable
    <2> QED
      BY <1>4, <2>2, <2>3 DEF PatchInfrastructure, WaitForCluster, EnqueueBack
  <1> QED
    BY <1>2, <1>3, <1>4

\* The status updates, the Secrets, and a call that fails.
LEMMA LastStepsStatus ==
    ASSUME StatusInv,
           \/ SetInitialized \/ ReportReplicas \/ SetInitializedAgain
           \/ CreateOrUpdateKubeconfig \/ CreateOrUpdateCertificateAuthority
           \/ SetReady \/ CallFails
    PROVE  Relying'
  <1>1. TypeOK /\ Relying
    BY DEF StatusInv, Relying
  <1>2. UNCHANGED <<view, cluster>>
    BY DEF SetInitialized, ReportReplicas, SetInitializedAgain, CreateOrUpdateKubeconfig,
           CreateOrUpdateCertificateAuthority, SetReady, CallFails, world
  <1>3. CASE Return /\ UNCHANGED <<scp, secrets>>
    BY <1>1, <1>2, <1>3, StatusKept DEF Relying
  <1>4. CASE SetInitialized
    <2>1. CASE /\ Current /\ scp' = [scp EXCEPT !.init = TRUE]
               /\ initialized' = TRUE /\ pc' = "replicas"
               /\ UNCHANGED <<secrets, me, mine, snap>>
      <3>1. /\ scp.exists /\ scp'.exists /\ scp'.init
            /\ scp'.ep = scp.ep /\ scp'.ready = scp.ready
        BY <1>1, <2>1 DEF Current, TypeOK, StewardObject
      <3> QED
        BY <1>1, <1>2, <1>4, <2>1, <3>1
           DEF SetInitialized, Relying, EndpointInv, ProgressInv, InitializedHasEndpoint,
               ReadyIsUsable
    <2> QED
      BY <1>3, <1>4, <2>1 DEF SetInitialized, UpdateStatus, EnqueueBack
  <1>5. CASE ReportReplicas
    <2>1. CASE /\ initialized /\ pc' = "initAgain"
               /\ UNCHANGED <<scp, secrets, me, initialized, mine, snap>>
      BY <1>1, <1>2, <1>5, <2>1
         DEF ReportReplicas, Relying, EndpointInv, ProgressInv, InitializedHasEndpoint,
             ReadyIsUsable
    <2> QED
      BY <1>3, <1>5, <2>1 DEF ReportReplicas, UpdateStatus, EnqueueBack
  <1>6. CASE SetInitializedAgain
    <2>1. /\ scp'.exists = scp.exists /\ scp'.ep = scp.ep /\ scp'.ready = scp.ready
          /\ scp.exists => scp'.init
          /\ ~scp.exists => scp' = scp
      <3>1. CASE Current /\ scp' = [scp EXCEPT !.init = TRUE]
        BY <1>1, <3>1 DEF Current, TypeOK, StewardObject
      <3>2. CASE UNCHANGED scp
        BY <1>1, <1>6, <3>2 DEF SetInitializedAgain, Relying, ProgressInv
      <3> QED
        BY <1>6, <3>1, <3>2 DEF SetInitializedAgain, UpdateStatus, InitializedAgain
    <2>2. /\ pc = "initAgain" /\ pc' = "kubeconfig" /\ initialized' = FALSE
          /\ UNCHANGED <<secrets, me, mine, snap>>
      BY <1>6 DEF SetInitializedAgain
    <2> QED
      BY <1>1, <1>2, <2>1, <2>2
         DEF Relying, EndpointInv, ProgressInv, InitializedHasEndpoint, ReadyIsUsable
  <1>7. CASE CreateOrUpdateKubeconfig
    <2>1. CASE /\ secrets' = [secrets EXCEPT !.kubeconfig = ReplicatedKubeconfig(@)]
               /\ pc' = "ca" /\ UNCHANGED <<scp, me, initialized, mine, snap>>
      <3>1. secrets'.kubeconfig # None /\ secrets'.ca = secrets.ca
        BY <1>1, <2>1, SCPAssumption DEF ReplicatedKubeconfig, TypeOK
      <3> QED
        BY <1>1, <1>2, <1>7, <2>1, <3>1
           DEF CreateOrUpdateKubeconfig, Relying, EndpointInv, ProgressInv,
               InitializedHasEndpoint, ReadyIsUsable
    <2> QED
      BY <1>3, <1>7, <2>1 DEF CreateOrUpdateKubeconfig, EnqueueBack
  <1>8. CASE CreateOrUpdateCertificateAuthority
    <2>1. CASE /\ secrets' = [secrets EXCEPT !.ca = ReplicatedCA(@)]
               /\ pc' = "ready" /\ UNCHANGED <<scp, me, initialized, mine, snap>>
      <3>1. secrets'.ca # None /\ secrets'.kubeconfig = secrets.kubeconfig
        BY <1>1, <2>1, SCPAssumption DEF ReplicatedCA, TypeOK
      <3> QED
        BY <1>1, <1>2, <1>8, <2>1, <3>1
           DEF CreateOrUpdateCertificateAuthority, Relying, EndpointInv, ProgressInv,
               InitializedHasEndpoint, ReadyIsUsable
    <2> QED
      BY <1>3, <1>8, <2>1 DEF CreateOrUpdateCertificateAuthority, EnqueueBack
  <1>9. CASE SetReady
    <2>1. Return /\ UNCHANGED secrets /\ pc = "ready"
      BY <1>9 DEF SetReady, Withdraw, EnqueueBack
    <2>2. CASE Current /\ scp' = [scp EXCEPT !.ready = ReadyStatus]
      <3>1. /\ scp.exists /\ scp'.exists
            /\ scp'.ep = scp.ep /\ scp'.init = scp.init
        BY <1>1, <2>2 DEF Current, TypeOK, StewardObject
      <3>2. pc' = "idle" /\ me'.ep = None /\ initialized' = FALSE /\ snap'.ep = None
        BY <2>1 DEF Return, NoCopy, Copy, NoSCP, NoSnap
      <3> QED
        BY <1>1, <1>2, <2>1, <3>1, <3>2
           DEF Relying, EndpointInv, ProgressInv, InitializedHasEndpoint, ReadyIsUsable
    <2> QED
      BY <1>3, <1>9, <2>1, <2>2 DEF SetReady, UpdateStatus
  <1>10. CASE CallFails
    BY <1>3, <1>10 DEF CallFails, EnqueueBack, world
  <1> QED
    BY <1>4, <1>5, <1>6, <1>7, <1>8, <1>9, <1>10

\* The cache, restarts, and everybody else.
LEMMA OthersStatus ==
    ASSUME StatusInv, Process \/ Others
    PROVE  Relying'
  <1>1. TypeOK /\ Relying
    BY DEF StatusInv, Relying
  <1>2. CASE Process
    BY <1>1, <1>2, StatusKept
       DEF Process, CacheSync, InfraCacheSync, Resync, Restart, world, worker, Relying
  <1>3. CASE OwnerSet \/ UserDeletes \/ \E l \in Locations : UserEdits(l)
    <2>1. UNCHANGED <<view, cluster, secrets, pc, me, initialized, mine, snap>>
      BY <1>3 DEF OwnerSet, UserDeletes, UserEdits, worker
    <2>2. CASE scp' = NoSCP
      BY <2>1, <2>2, StatusKept DEF NoSCP
    <2>3. CASE /\ scp.exists /\ scp'.exists /\ scp'.ep = scp.ep
               /\ scp'.init = scp.init /\ scp'.ready = scp.ready
      BY <2>1, <2>3, StatusKept
    <2>4. OwnerSet => <2>3!1
      BY <1>1 DEF OwnerSet, TypeOK, StewardObject
    <2>5. UserDeletes => scp' = NoSCP \/ <2>3!1
      BY <1>1 DEF UserDeletes, TypeOK, StewardObject
    <2>6. (\E l \in Locations : UserEdits(l)) => <2>3!1
      BY <1>1 DEF UserEdits, TypeOK, StewardObject
    <2> QED
      BY <1>3, <2>2, <2>3, <2>4, <2>5, <2>6
  <1>4. CASE ClusterChanges
    <2>1. UNCHANGED <<scp, view, secrets, pc, me, initialized, mine, snap>>
      BY <1>4 DEF ClusterChanges, worker
    <2>2. cluster.ep # None => cluster'.ep # None
      BY <1>1, <1>4 DEF ClusterChanges, TypeOK
    <2> QED
      BY <1>1, <2>1, <2>2, StatusKept DEF Relying
  <1>5. CASE \/ InfrastructureChanges
             \/ \E t \in Targets : ReachabilityChanges(t)
             \/ \E l \in Locations : StewardFinalizes(l)
    BY <1>1, <1>5, StatusKept
       DEF InfrastructureChanges, ReachabilityChanges, StewardFinalizes, worker, Relying
  <1>6. CASE \E l \in Locations : StewardReports(l)
    <2>1. UNCHANGED <<scp, view, cluster, pc, me, initialized, mine, snap>>
      BY <1>6 DEF StewardReports, worker
    <2>2. \/ secrets' = secrets
          \/ secrets.ca = None /\ secrets' = [secrets EXCEPT !.ca = Steward]
      BY <1>6 DEF StewardReports
    <2>3. /\ secrets.kubeconfig # None => secrets'.kubeconfig # None
          /\ secrets.ca # None => secrets'.ca # None
      BY <1>1, <2>2 DEF TypeOK
    <2> QED
      BY <1>1, <2>1, <2>3, StatusKept DEF Relying
  <1>7. CASE GarbageCollected
    BY <1>1, <1>7, StatusKept DEF GarbageCollected, worker, Relying
  <1> QED
    BY <1>2, <1>3, <1>4, <1>5, <1>6, <1>7 DEF Process, Others

\* StatusInv is an invariant.
LEMMA StatusInvariance == Spec => []StatusInv
  <1>1. Init => StatusInv
    <2> SUFFICES ASSUME Init PROVE StatusInv
      OBVIOUS
    <2>1. TypeOK
      BY InitType
    <2>2. PICK l \in Locations : scp = [NoSCP EXCEPT !.exists = TRUE, !.gen = 1, !.loc = l]
      BY DEF Init
    <2>3. scp.exists /\ ~scp.init /\ ~scp.ready
      BY <2>2 DEF NoSCP
    <2>4. view.ep = None /\ me.ep = None /\ snap.ep = None
      BY DEF Init, NoCopy, Copy, NoSCP, NoSnap
    <2> QED
      BY <2>1, <2>3, <2>4
         DEF Init, StatusInv, EndpointInv, ProgressInv, InitializedHasEndpoint, ReadyIsUsable
  <1>2. StatusInv /\ [Next]_vars => StatusInv'
    <2> SUFFICES ASSUME StatusInv, [Next]_vars PROVE StatusInv'
      OBVIOUS
    <2>1. TypeOK'
      BY NextType DEF StatusInv
    <2>2. CASE Begin \/ Step \/ CallFails
      BY <2>1, <2>2, FirstStepsStatus, EndpointStatus, LastStepsStatus
         DEF Step, StatusInv, Relying
    <2>3. CASE Process \/ Others
      BY <2>1, <2>3, OthersStatus DEF StatusInv, Relying
    <2>4. CASE UNCHANGED vars
      BY <2>1, <2>4, StatusKept DEF StatusInv, Relying, vars, world, worker
    <2> QED
      BY <2>2, <2>3, <2>4 DEF Next
  <1> QED
    BY <1>1, <1>2, PTL DEF Spec

(***************************************************************************)
(* Status.Initialized implies an endpoint on the StewardControlPlane and   *)
(* on its Cluster, although Reconcile decides from a Cluster it has read   *)
(* before, and from its own copy of the StewardControlPlane.               *)
(***************************************************************************)
THEOREM InitializedHasEndpoints == Spec => []InitializedHasEndpoint
  <1>1. StatusInv => InitializedHasEndpoint
    BY DEF StatusInv
  <1> QED
    BY <1>1, StatusInvariance, PTL

(***************************************************************************)
(* Status.Ready implies an initialized control plane with its kubeconfig   *)
(* and CA in place, wherever the control plane is moved.                   *)
(***************************************************************************)
THEOREM ReadyIsUsableAlways == Spec => []ReadyIsUsable
  <1>1. StatusInv => ReadyIsUsable
    BY DEF StatusInv
  <1> QED
    BY <1>1, StatusInvariance, PTL

-----------------------------------------------------------------------------
(***************************************************************************)
(* Nothing steps back.                                                     *)
(***************************************************************************)

\* The generations are numbers.
LEMMA Generations ==
    ASSUME TypeOK
    PROVE  /\ scp.gen \in Nat /\ view.gen \in Nat /\ me.gen \in Nat
           /\ \A l \in Locations : tcp[l].gen \in Nat
  BY DEF TypeOK, StewardObject, Copied, TenantObject

\* A step that writes no spec: the TenantControlPlanes keep their generation or go.
LEMMA TenantsKept ==
    ASSUME TypeOK,
           \/ UNCHANGED tcp
           \/ DeleteRemote
           \/ \E l \in Locations : StewardReports(l) \/ StewardFinalizes(l)
           \/ GarbageCollected
    PROVE  \A k \in Locations : tcp'[k].gen = tcp[k].gen \/ tcp'[k] = NoTCP
  <1>1. tcp \in [Locations -> TenantObject] /\ remote \in Locations /\ Local \in Locations
    BY DEF TypeOK, Locations
  <1>2. CASE DeleteRemote
    BY <1>1, <1>2 DEF DeleteRemote, TenantObject
  <1>3. ASSUME NEW l \in Locations, StewardReports(l)
        PROVE  \A k \in Locations : tcp'[k].gen = tcp[k].gen
    BY <1>1, <1>3 DEF StewardReports, TenantObject
  <1>4. ASSUME NEW l \in Locations, StewardFinalizes(l)
        PROVE  \A k \in Locations : tcp'[k] = tcp[k] \/ tcp'[k] = NoTCP
    BY <1>1, <1>4 DEF StewardFinalizes
  <1>5. CASE GarbageCollected
    BY <1>1, <1>5 DEF GarbageCollected
  <1> QED
    BY <1>2, <1>3, <1>4, <1>5

\* The StewardControlPlane keeps its generation, or goes; or a user edits it.
LEMMA GenerationKept ==
    ASSUME TypeOK,
           \/ RemoveFinalizer \/ HandleFinalizer \/ PatchControlPlaneEndpoint
           \/ SetInitialized \/ ReportReplicas \/ SetInitializedAgain \/ SetReady
           \/ OwnerSet \/ UserDeletes
           \/ \E l \in Locations : UserEdits(l)
           \/ UNCHANGED scp
    PROVE  scp'.exists => scp.exists /\ scp'.gen >= scp.gen /\ (scp.init => scp'.init)
  <1>1. scp \in StewardObject /\ scp.gen \in Nat
    BY Generations DEF TypeOK
  <1>2. CASE RemoveFinalizer
    BY <1>1, <1>2 DEF RemoveFinalizer, WithoutFinalizer, NoSCP, StewardObject
  <1>3. CASE HandleFinalizer \/ PatchControlPlaneEndpoint \/ OwnerSet
    BY <1>1, <1>3 DEF HandleFinalizer, PatchControlPlaneEndpoint, OwnerSet, StewardObject
  <1>4. CASE SetInitialized \/ ReportReplicas \/ SetInitializedAgain \/ SetReady
    BY <1>1, <1>4 DEF SetInitialized, ReportReplicas, SetInitializedAgain, InitializedAgain,
                      SetReady, UpdateStatus, StewardObject
  <1>5. CASE UserDeletes
    BY <1>1, <1>5 DEF UserDeletes, NoSCP, StewardObject
  <1>6. ASSUME NEW l \in Locations, UserEdits(l)
        PROVE  scp'.exists => scp.exists /\ scp'.gen >= scp.gen /\ (scp.init => scp'.init)
    <2>1. scp.exists /\ scp' = [scp EXCEPT !.gen = @ + 1, !.loc = l]
      BY <1>6 DEF UserEdits
    <2>2. scp'.gen = scp.gen + 1 /\ scp'.init = scp.init
      BY <1>1, <2>1 DEF StewardObject
    <2> QED
      BY <1>1, <2>1, <2>2
  <1> QED
    BY <1>1, <1>2, <1>3, <1>4, <1>5, <1>6

\* The generations are numbers after a step, too.
LEMMA GenerationsAfter ==
    ASSUME TypeOK'
    PROVE  /\ scp'.gen \in Nat /\ view'.gen \in Nat /\ me'.gen \in Nat
           /\ \A l \in Locations : tcp'[l].gen \in Nat
  BY DEF TypeOK, StewardObject, Copied, TenantObject

\* The informer catches up, or a step leaves the cache; Reconcile keeps what it holds.
LEMMA HeldKept ==
    ASSUME TypeOK, TypeOK', FreshInv,
           view' = view \/ (view' = scp /\ scp' = scp),
           scp'.exists => scp.exists /\ scp'.gen >= scp.gen,
           \A k \in Locations : tcp'[k].gen = tcp[k].gen \/ tcp'[k] = NoTCP,
           \/ pc' \notin {"extract", "finalizer", "tcp"}
           \/ pc \in {"extract", "finalizer", "tcp"} /\ me' = me
    PROVE  FreshInv'
  <1>1. NoTCP.gen = 0
    BY DEF NoTCP
  <1>2. \A l \in Locations : tcp'[l].gen <= tcp[l].gen
    BY <1>1, Generations, GenerationsAfter
  <1>3. scp'.exists => \A l \in Locations : tcp'[l].gen <= scp'.gen
    <2> SUFFICES ASSUME scp'.exists, NEW l \in Locations PROVE tcp'[l].gen <= scp'.gen
      OBVIOUS
    <2>1. tcp[l].gen <= scp.gen
      BY DEF FreshInv, Fresh
    <2> QED
      BY <1>2, <2>1, Generations, GenerationsAfter
  <1>4. view'.exists => \A l \in Locations : tcp'[l].gen <= view'.gen
    <2> SUFFICES ASSUME view'.exists, NEW l \in Locations PROVE tcp'[l].gen <= view'.gen
      OBVIOUS
    <2>1. tcp[l].gen <= view'.gen
      BY DEF FreshInv, Fresh
    <2> QED
      BY <1>2, <2>1, Generations, GenerationsAfter
  <1>5. view'.exists /\ scp'.exists => view'.gen <= scp'.gen
    BY Generations, GenerationsAfter DEF FreshInv
  <1>6. CASE pc' \notin {"extract", "finalizer", "tcp"}
    BY <1>3, <1>4, <1>5, <1>6 DEF FreshInv, Fresh
  <1>7. CASE pc \in {"extract", "finalizer", "tcp"} /\ me' = me
    <2>1. \A l \in Locations : tcp'[l].gen <= me.gen
      BY <1>2, <1>7, Generations, GenerationsAfter DEF FreshInv, Fresh
    <2>2. view'.exists => me.gen <= view'.gen
      BY <1>7 DEF FreshInv
    <2>3. scp'.exists => me.gen <= scp'.gen
      BY <1>7, Generations, GenerationsAfter DEF FreshInv
    <2> QED
      BY <1>3, <1>4, <1>5, <1>7, <2>1, <2>2, <2>3 DEF FreshInv, Fresh
  <1> QED
    BY <1>6, <1>7

\* Reconcile reads an object, or gets the one it has just updated.
LEMMA ReadFresh ==
    ASSUME TypeOK, TypeOK', FreshInv, Begin \/ HandleFinalizer
    PROVE  FreshInv'
  <1>1. CASE Begin
    <2>1. UNCHANGED world
      BY <1>1 DEF Begin
    <2>2. CASE UNCHANGED worker
      BY <2>1, <2>2, HeldKept, Generations DEF world, worker
    <2>3. CASE view.exists /\ me' = Copy(view)
      <3>1. me'.gen = view.gen
        BY <2>3 DEF Copy
      <3> QED
        BY <2>1, <2>3, <3>1, Generations DEF world, FreshInv, Fresh
    <2> QED
      BY <1>1, <2>2, <2>3 DEF Begin
  <1>2. CASE HandleFinalizer
    <2>1. UNCHANGED <<view, tcp>>
      BY <1>2 DEF HandleFinalizer
    <2>2. CASE Current /\ scp' = [scp EXCEPT !.fin = TRUE] /\ me' = Copy(scp') /\ pc' = "tcp"
      <3>1. scp'.gen = scp.gen /\ scp'.exists = scp.exists /\ view = scp /\ view.exists
        BY <2>2 DEF Current, TypeOK, StewardObject
      <3>2. me'.gen = scp.gen
        BY <2>2, <3>1 DEF Copy
      <3> QED
        BY <2>1, <3>1, <3>2, Generations DEF FreshInv, Fresh
    <2>3. CASE UNCHANGED scp /\ pc' = "idle"
      BY <2>1, <2>3, HeldKept, Generations
    <2> QED
      BY <1>2, <2>2, <2>3 DEF HandleFinalizer, EnqueueBack, Return
  <1> QED
    BY <1>1, <1>2

\* The spec of Reconcile's copy is written: what it replaces is no newer, and what
\* anybody may still read is no older.
LEMMA WriteFresh ==
    ASSUME TypeOK, TypeOK', FreshInv, CreateOrUpdateTenantControlPlane
    PROVE  FreshInv' /\ \A l \in Locations : tcp'[l].gen >= tcp[l].gen
  <1>1. pc = "tcp" /\ pc' \in {"idle", "patch"} /\ UNCHANGED <<scp, view>>
    BY DEF CreateOrUpdateTenantControlPlane, EnqueueBack, Return
  <1>2. \A l \in Locations : tcp'[l].gen = tcp[l].gen \/ tcp'[l].gen = me.gen
    <2>1. CASE UNCHANGED tcp
      BY <2>1
    <2>2. CASE tcp' = [tcp EXCEPT ![remote] = CreatedOrUpdated(tcp[remote])]
      <3>1. tcp[remote] \in TenantObject /\ tcp \in [Locations -> TenantObject]
        BY DEF TypeOK
      <3>2. CreatedOrUpdated(tcp[remote]).gen = me.gen
        BY <3>1 DEF CreatedOrUpdated, TenantObject
      <3>3. \A l \in Locations :
               tcp'[l] = IF l = remote THEN CreatedOrUpdated(tcp[remote]) ELSE tcp[l]
        BY <2>2, <3>1
      <3> QED
        BY <3>2, <3>3
    <2> QED
      BY <2>1, <2>2 DEF CreateOrUpdateTenantControlPlane
  <1>3. /\ \A l \in Locations : tcp[l].gen <= me.gen
        /\ view.exists => me.gen <= view.gen
        /\ scp.exists => me.gen <= scp.gen
    BY <1>1 DEF FreshInv, Fresh
  <1>4. \A l \in Locations : tcp'[l].gen <= me.gen /\ tcp'[l].gen >= tcp[l].gen
    BY <1>2, <1>3, Generations
  <1>5. scp.exists => \A l \in Locations : tcp'[l].gen <= scp.gen
    BY <1>3, <1>4, Generations, GenerationsAfter
  <1>6. view.exists => \A l \in Locations : tcp'[l].gen <= view.gen
    BY <1>3, <1>4, Generations, GenerationsAfter
  <1> QED
    BY <1>1, <1>4, <1>5, <1>6 DEF FreshInv, Fresh

\* The other steps of Reconcile write no spec and read none.
LEMMA StepsFresh ==
    ASSUME TypeOK, TypeOK', FreshInv,
           \/ HandleDeletion \/ DeleteRemote \/ RemoveFinalizer \/ ExtractRemoteClient
           \/ PatchControlPlaneEndpoint \/ GetClusterAgain \/ PatchInfrastructure
           \/ SetInitialized \/ ReportReplicas \/ SetInitializedAgain
           \/ CreateOrUpdateKubeconfig \/ CreateOrUpdateCertificateAuthority \/ SetReady
           \/ CallFails
    PROVE  FreshInv'
  <1>1. view' = view
    BY DEF HandleDeletion, DeleteRemote, RemoveFinalizer, ExtractRemoteClient,
           PatchControlPlaneEndpoint, GetClusterAgain, PatchInfrastructure, SetInitialized,
           ReportReplicas, SetInitializedAgain, CreateOrUpdateKubeconfig,
           CreateOrUpdateCertificateAuthority, SetReady, CallFails, world
  <1>2. UNCHANGED tcp \/ DeleteRemote
    BY DEF HandleDeletion, RemoveFinalizer, ExtractRemoteClient,
           PatchControlPlaneEndpoint, GetClusterAgain, PatchInfrastructure, SetInitialized,
           ReportReplicas, SetInitializedAgain, CreateOrUpdateKubeconfig,
           CreateOrUpdateCertificateAuthority, SetReady, CallFails, world
  <1>3. scp'.exists => scp.exists /\ scp'.gen >= scp.gen
    <2>1. \/ RemoveFinalizer \/ PatchControlPlaneEndpoint
          \/ SetInitialized \/ ReportReplicas \/ SetInitializedAgain \/ SetReady
          \/ UNCHANGED scp
      BY DEF HandleDeletion, DeleteRemote, ExtractRemoteClient, GetClusterAgain,
             PatchInfrastructure, CreateOrUpdateKubeconfig,
             CreateOrUpdateCertificateAuthority, CallFails, world
    <2> QED
      BY <2>1, GenerationKept
  <1>4. \/ pc' \notin {"extract", "finalizer", "tcp"}
        \/ pc \in {"extract", "finalizer", "tcp"} /\ me' = me
    <2>1. CASE HandleDeletion \/ DeleteRemote \/ RemoveFinalizer \/ ExtractRemoteClient
      BY <2>1 DEF HandleDeletion, DeleteRemote, RemoveFinalizer, ExtractRemoteClient,
                  Withdraw, EnqueueBack, Return
    <2>2. CASE PatchControlPlaneEndpoint \/ GetClusterAgain \/ PatchInfrastructure
      BY <2>2 DEF PatchControlPlaneEndpoint, GetClusterAgain, PatchInfrastructure,
                  WaitForCluster, Withdraw, EnqueueBack, Return
    <2>3. CASE SetInitialized \/ ReportReplicas \/ SetInitializedAgain
      BY <2>3 DEF SetInitialized, ReportReplicas, SetInitializedAgain, EnqueueBack, Return
    <2>4. CASE \/ CreateOrUpdateKubeconfig \/ CreateOrUpdateCertificateAuthority
               \/ SetReady \/ CallFails
      BY <2>4 DEF CreateOrUpdateKubeconfig, CreateOrUpdateCertificateAuthority, SetReady,
                  CallFails, Withdraw, EnqueueBack, Return
    <2> QED
      BY <2>1, <2>2, <2>3, <2>4
  <1>5. \A k \in Locations : tcp'[k].gen = tcp[k].gen \/ tcp'[k] = NoTCP
    BY <1>2, TenantsKept
  <1> QED
    BY <1>1, <1>3, <1>4, <1>5, HeldKept

\* The cache only moves forward, and nobody else writes a spec.
LEMMA OthersFresh ==
    ASSUME TypeOK, TypeOK', FreshInv, Process \/ Others \/ UNCHANGED vars
    PROVE  FreshInv'
  <1>1. CASE Process \/ UNCHANGED vars
    <2>1. /\ UNCHANGED <<scp, tcp>>
          /\ view' = view \/ view' = scp
          /\ pc' = "idle" \/ UNCHANGED <<pc, me>>
      BY <1>1 DEF Process, CacheSync, InfraCacheSync, Resync, Restart, Return, vars,
                  world, worker
    <2> QED
      BY <2>1, HeldKept, Generations
  <1>2. CASE Others
    <2>1. UNCHANGED view /\ UNCHANGED <<pc, me>>
      BY <1>2 DEF Others, OwnerSet, UserDeletes, UserEdits, ClusterChanges,
             InfrastructureChanges, ReachabilityChanges, StewardReports, StewardFinalizes,
             GarbageCollected, worker
    <2>2. \/ UNCHANGED tcp
          \/ \E l \in Locations : StewardReports(l) \/ StewardFinalizes(l)
          \/ GarbageCollected
      BY <1>2 DEF Others, OwnerSet, UserDeletes, UserEdits, ClusterChanges,
             InfrastructureChanges, ReachabilityChanges
    <2>3. \A k \in Locations : tcp'[k].gen = tcp[k].gen \/ tcp'[k] = NoTCP
      BY <2>2, TenantsKept
    <2>4. OwnerSet \/ UserDeletes \/ (\E l \in Locations : UserEdits(l)) \/ UNCHANGED scp
      BY <1>2 DEF Others, ClusterChanges, InfrastructureChanges, ReachabilityChanges,
             StewardReports, StewardFinalizes, GarbageCollected
    <2>5. scp'.exists => scp.exists /\ scp'.gen >= scp.gen
      BY <2>4, GenerationKept
    <2> QED
      BY <2>1, <2>3, <2>5, HeldKept
  <1> QED
    BY <1>1, <1>2

\* FreshInv holds in every reachable state, wherever the control plane moves.
LEMMA FreshInvariance == Spec => [](TypeOK /\ FreshInv)
  <1>1. Init => TypeOK /\ FreshInv
    <2> SUFFICES ASSUME Init PROVE FreshInv
      BY InitType
    <2>1. PICK l \in Locations : scp = [NoSCP EXCEPT !.exists = TRUE, !.gen = 1, !.loc = l]
      BY DEF Init
    <2>2. scp.gen = 1 /\ ~view.exists /\ \A k \in Locations : tcp[k].gen = 0
      BY <2>1 DEF Init, NoSCP, NoTCP
    <2> QED
      BY <2>2 DEF Init, FreshInv, Fresh
  <1>2. TypeOK /\ FreshInv /\ [Next]_vars => TypeOK' /\ FreshInv'
    <2> SUFFICES ASSUME TypeOK, FreshInv, [Next]_vars PROVE TypeOK' /\ FreshInv'
      OBVIOUS
    <2>1. TypeOK'
      BY NextType
    <2> QED
      BY <2>1, ReadFresh, WriteFresh, StepsFresh, OthersFresh DEF Next, Step
  <1> QED
    BY <1>1, <1>2, PTL DEF Spec

\* Every step keeps Initialized and every spec that is on record.
LEMMA StepForward ==
    ASSUME TypeOK, TypeOK', FreshInv, [Next]_vars
    PROVE  /\ scp.init /\ scp'.exists => scp'.init
           /\ \A l \in Locations : tcp'[l].state # "none" => tcp'[l].gen >= tcp[l].gen
  <1>1. scp.init /\ scp'.exists => scp'.init
    <2>1. \/ RemoveFinalizer \/ HandleFinalizer \/ PatchControlPlaneEndpoint
          \/ SetInitialized \/ ReportReplicas \/ SetInitializedAgain \/ SetReady
          \/ OwnerSet \/ UserDeletes
          \/ \E l \in Locations : UserEdits(l)
          \/ UNCHANGED scp
      BY DEF Next, Step, Process, Others, Begin, HandleDeletion, DeleteRemote,
             ExtractRemoteClient, CreateOrUpdateTenantControlPlane, GetClusterAgain,
             PatchInfrastructure, CreateOrUpdateKubeconfig,
             CreateOrUpdateCertificateAuthority, CallFails, CacheSync, InfraCacheSync,
             Resync, Restart, ClusterChanges, InfrastructureChanges, ReachabilityChanges,
             StewardReports, StewardFinalizes, GarbageCollected, vars, world
    <2> QED
      BY <2>1, GenerationKept
  <1>2. \A l \in Locations : tcp'[l].state # "none" => tcp'[l].gen >= tcp[l].gen
    <2>1. \/ CreateOrUpdateTenantControlPlane
          \/ UNCHANGED tcp
          \/ DeleteRemote
          \/ \E l \in Locations : StewardReports(l) \/ StewardFinalizes(l)
          \/ GarbageCollected
      BY DEF Next, Step, Process, Others, Begin, HandleDeletion, RemoveFinalizer,
             ExtractRemoteClient, HandleFinalizer, PatchControlPlaneEndpoint,
             GetClusterAgain, PatchInfrastructure, SetInitialized, ReportReplicas,
             SetInitializedAgain, CreateOrUpdateKubeconfig,
             CreateOrUpdateCertificateAuthority, SetReady, CallFails, CacheSync,
             InfraCacheSync, Resync, Restart, OwnerSet, UserDeletes, UserEdits, ClusterChanges,
             InfrastructureChanges, ReachabilityChanges, vars, world
    <2>2. NoTCP.state = "none"
      BY DEF NoTCP
    <2> QED
      BY <2>1, <2>2, WriteFresh, TenantsKept, Generations
  <1> QED
    BY <1>1, <1>2

(***************************************************************************)
(* A reconciliation writes what it has read earlier, from a cache that     *)
(* lags, and yet Initialized is never taken back and a TenantControlPlane  *)
(* never returns to an older spec, wherever the reference moves.           *)
(***************************************************************************)
THEOREM NothingStepsBack == Spec => NoStepBack
  <1> DEFINE Forward ==
               /\ scp.init /\ scp'.exists => scp'.init
               /\ \A l \in Locations : tcp'[l].state # "none" => tcp'[l].gen >= tcp[l].gen
  <1>1. TypeOK /\ FreshInv /\ TypeOK' /\ [Next]_vars => [Forward]_vars
    BY StepForward
  <1> HIDE DEF Forward
  <1>2. Spec => [][Forward]_vars
    BY <1>1, FreshInvariance, PTL DEF Spec
  <1> QED
    BY <1>2 DEF Forward, NoStepBack
=============================================================================
