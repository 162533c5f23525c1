-------------------- MODULE ControlPlaneRefinementProofs --------------------
(***************************************************************************)
(* StewardControlPlane implements ControlPlaneContract, for every set of   *)
(* remote clusters and endpoints, as long as the reference does not change.*)
(***************************************************************************)
EXTENDS ControlPlaneRefinement, StewardControlPlaneProofs

(***************************************************************************)
(* What the contract needs beyond GuardInv and StatusInv: an object that   *)
(* is being deleted is there because of the finalizer, and a kubeconfig is *)
(* only written for an object that is initialized.                         *)
(***************************************************************************)
OrderInv ==
    /\ scp.del => scp.fin
    /\ secrets.kubeconfig # None /\ scp.exists => scp.init

\* OrderInv holds in the beginning, and every step keeps it.
LEMMA OrderInvariance == Spec => []OrderInv
  <1>1. Init => OrderInv
    BY DEF Init, OrderInv, NoSCP, StewardObject
  <1>2. OrderInv /\ StatusInv /\ StatusInv' /\ [Next]_vars => OrderInv'
    <2> SUFFICES ASSUME OrderInv, StatusInv, StatusInv', [Next]_vars PROVE OrderInv'
      OBVIOUS
    <2> USE DEF OrderInv
    <2>1. scp \in StewardObject /\ scp' \in StewardObject
      BY DEF StatusInv, TypeOK
    <2>2. CASE UNCHANGED <<scp, secrets>>
      BY <2>2
    <2>3. CASE RemoveFinalizer
      BY <2>1, <2>3 DEF RemoveFinalizer, WithoutFinalizer, NoSCP, StewardObject
    <2>4. CASE HandleFinalizer \/ PatchControlPlaneEndpoint
      BY <2>1, <2>4 DEF HandleFinalizer, PatchControlPlaneEndpoint, StewardObject
    <2>5. CASE SetInitialized \/ ReportReplicas \/ SetInitializedAgain \/ SetReady
      BY <2>1, <2>5 DEF SetInitialized, ReportReplicas, SetInitializedAgain, InitializedAgain,
                        SetReady, UpdateStatus, StewardObject
    <2>6. CASE CreateOrUpdateKubeconfig
      BY <2>6 DEF CreateOrUpdateKubeconfig, StatusInv, ProgressInv
    <2>7. CASE CreateOrUpdateCertificateAuthority
      BY <2>7 DEF CreateOrUpdateCertificateAuthority, StatusInv, ProgressInv
    <2>8. CASE OwnerSet \/ UserDeletes
      BY <2>1, <2>8 DEF OwnerSet, UserDeletes, NoSCP, StewardObject
    <2>9. ASSUME NEW l \in Locations, UserEdits(l) PROVE OrderInv'
      BY <2>1, <2>9 DEF UserEdits, StewardObject
    <2>10. CASE \E l \in Locations : StewardReports(l)
      BY <2>10 DEF StewardReports, StatusInv, TypeOK
    <2>11. CASE GarbageCollected
      BY <2>11 DEF GarbageCollected
    <2>12. CASE Begin \/ HandleDeletion \/ DeleteRemote \/ ExtractRemoteClient
                \/ CreateOrUpdateTenantControlPlane \/ GetClusterAgain
                \/ PatchInfrastructure \/ CallFails \/ Process
      BY <2>2, <2>12 DEF Begin, HandleDeletion, DeleteRemote, ExtractRemoteClient,
             CreateOrUpdateTenantControlPlane, GetClusterAgain, PatchInfrastructure,
             CallFails, Process, CacheSync, InfraCacheSync, Resync,
             Restart, world
    <2>13. CASE \/ ClusterChanges \/ InfrastructureChanges
                \/ \E t \in Targets : ReachabilityChanges(t)
                \/ \E l \in Locations : StewardFinalizes(l)
      BY <2>2, <2>13 DEF ClusterChanges, InfrastructureChanges, ReachabilityChanges,
             StewardFinalizes
    <2>14. CASE UNCHANGED vars
      BY <2>2, <2>14 DEF vars, world
    <2> QED
      BY <2>3, <2>4, <2>5, <2>6, <2>7, <2>8, <2>9, <2>10, <2>11, <2>12, <2>13, <2>14
         DEF Next, Step, Others
  <1> QED
    BY <1>1, <1>2, StatusInvariance, PTL DEF Spec

-----------------------------------------------------------------------------
(***************************************************************************)
(* Steps of Reconcile and of others as steps of the contract.              *)
(***************************************************************************)

tenant == [t \in Targets |-> tcp[t].state]

\* Nothing of what changes is visible.
LEMMA Invisible ==
    ASSUME UNCHANGED <<scp, secrets>>, UNCHANGED tenant
    PROVE  UNCHANGED Contract!vars
  BY DEF Contract!vars, Contract!object, Phase, tenant

\* A TenantControlPlane that stays as it is at every remote cluster.
LEMMA SameTenants ==
    ASSUME TypeOK, \A t \in Targets : tcp'[t].state = tcp[t].state
    PROVE  UNCHANGED tenant
  BY DEF tenant

\* One TenantControlPlane changes.
LEMMA OneTenant ==
    ASSUME TypeOK, NEW l \in Locations, NEW new, tcp' = [tcp EXCEPT ![l] = new]
    PROVE  /\ l \in Targets => tenant' = [tenant EXCEPT ![l] = new.state]
           /\ l \notin Targets => UNCHANGED tenant
  BY DEF TypeOK, tenant, Locations

\* Deleting: the remote TenantControlPlane is retired, then the object released.
LEMMA DeletionKeeps ==
    ASSUME GuardInv, StatusInv, DeleteRemote \/ RemoveFinalizer
    PROVE  [Contract!Next]_Contract!vars
  <1> USE DEF GuardInv
  <1>1. CASE DeleteRemote
    <2>1. CASE tcp' = tcp
      BY <1>1, <2>1, Invisible, SameTenants DEF DeleteRemote
    <2>2. CASE tcp' # tcp
      <3> DEFINE new == [tcp[remote] EXCEPT !.state = "deleting"]
      <3>1. /\ pc = "delete" /\ tcp[remote].state # "none" /\ UNCHANGED <<scp, secrets>>
            /\ tcp' = [tcp EXCEPT ![remote] = new]
        BY <1>1, <2>2 DEF DeleteRemote
      <3>2. remote \in Locations /\ tcp[remote] \in TenantObject
        BY DEF TypeOK
      <3>3. new.state = "deleting"
        BY <3>2 DEF TenantObject
      <3>4. CASE remote \notin Targets \/ tcp[remote].state = "deleting"
        <4>1. \A t \in Targets : tcp'[t].state = tcp[t].state
          BY <3>1, <3>2, <3>3, <3>4 DEF TypeOK, Locations
        <4> QED
          BY <3>1, <4>1, SameTenants, Invisible
      <3>5. CASE remote \in Targets /\ tcp[remote].state = "live"
        <4>1. tenant' = [tenant EXCEPT ![remote] = "deleting"]
          BY <3>1, <3>2, <3>3, <3>5, OneTenant
        <4>2. Phase = "deleting"
          BY <3>1, <3>5 DEF Phase, DeletionInv, RemoteTCPGuarded
        <4> PICK t \in Targets : t = remote
          BY <3>5
        <4>3. Contract!Retire(t)
          BY <3>1, <3>5, <4>1, <4>2 DEF Contract!Retire, Contract!object, Phase, tenant
        <4> QED
          BY <4>3 DEF Contract!Next
      <3> QED
        BY <3>1, <3>2, <3>4, <3>5 DEF TenantObject
    <2> QED
      BY <2>1, <2>2
  <1>2. CASE RemoveFinalizer
    <2>1. UNCHANGED <<tcp, secrets>> /\ pc = "unfinalize"
      BY <1>2 DEF RemoveFinalizer
    <2>2. CASE UNCHANGED scp
      BY <2>1, <2>2, Invisible, SameTenants
    <2>3. CASE scp' # scp
      <3>1. scp.exists /\ scp' = WithoutFinalizer(scp)
        BY <1>2, <2>3 DEF RemoveFinalizer, Current
      <3>2. scp.del /\ scp' = NoSCP
        BY <2>1, <3>1 DEF DeletionInv, WithoutFinalizer
      <3>3. Contract!Release
        BY <2>1, <3>1, <3>2
           DEF Contract!Release, Contract!Gone, Phase, NoSCP, DeletionInv
      <3> QED
        BY <3>3 DEF Contract!Next
    <2> QED
      BY <2>2, <2>3
  <1> QED
    BY <1>1, <1>2

\* Creating: first the finalizer, then the TenantControlPlane.
LEMMA CreationKeeps ==
    ASSUME GuardInv, StatusInv, OrderInv, HandleFinalizer \/ CreateOrUpdateTenantControlPlane
    PROVE  [Contract!Next]_Contract!vars
  <1> USE DEF GuardInv
  <1>1. CASE HandleFinalizer
    <2>1. UNCHANGED <<tcp, secrets>>
      BY <1>1 DEF HandleFinalizer
    <2>2. CASE scp' = scp
      BY <2>1, <2>2, Invisible, SameTenants
    <2>3. CASE scp' # scp
      <3>1. scp.exists /\ scp' = [scp EXCEPT !.fin = TRUE]
        BY <1>1, <2>3 DEF HandleFinalizer, Current
      <3>2. scp \in StewardObject
        BY DEF TypeOK
      <3>3. ~scp.fin
        BY <2>3, <3>1, <3>2 DEF StewardObject
      <3>4. Contract!Guard
        BY <2>1, <3>1, <3>2, <3>3 DEF Contract!Guard, Phase, OrderInv, StewardObject
      <3> QED
        BY <3>4 DEF Contract!Next
    <2> QED
      BY <2>2, <2>3
  <1>2. CASE CreateOrUpdateTenantControlPlane
    <2> DEFINE new == CreatedOrUpdated(tcp[remote])
    <2>1. /\ pc = "tcp" /\ UNCHANGED <<scp, secrets>>
          /\ tcp' = tcp \/ tcp' = [tcp EXCEPT ![remote] = new]
      BY <1>2 DEF CreateOrUpdateTenantControlPlane
    <2>2. remote \in Locations /\ tcp[remote] \in TenantObject
      BY DEF TypeOK
    <2>3. new.state = IF tcp[remote].state = "none" THEN "live" ELSE tcp[remote].state
      BY <2>2 DEF CreatedOrUpdated, TenantObject
    <2>4. CASE tcp' = tcp
      BY <2>1, <2>4, Invisible, SameTenants
    <2>5. CASE tcp' = [tcp EXCEPT ![remote] = new]
      <3>1. CASE remote \notin Targets \/ tcp[remote].state # "none"
        <4>1. \A t \in Targets : tcp'[t].state = tcp[t].state
          BY <2>2, <2>3, <2>5, <3>1 DEF TypeOK, Locations
        <4> QED
          BY <2>1, <4>1, SameTenants, Invisible
      <3>2. CASE remote \in Targets /\ tcp[remote].state = "none"
        <4>1. tenant' = [tenant EXCEPT ![remote] = "live"]
          BY <2>2, <2>3, <2>5, <3>2, OneTenant
        <4>2. scp.fin
          BY <2>1, <3>2 DEF CreationInv
        <4> PICK t \in Targets : t = remote
          BY <3>2
        <4>3. Contract!Provision(t)
          BY <2>1, <3>2, <4>1, <4>2 DEF Contract!Provision, Contract!object, Phase, tenant
        <4> QED
          BY <4>3 DEF Contract!Next
      <3> QED
        BY <3>1, <3>2
    <2> QED
      BY <2>1, <2>4, <2>5
  <1> QED
    BY <1>1, <1>2

\* Towards Cluster API: the endpoint, Initialized, the Secrets, Ready.
LEMMA StatusKeeps ==
    ASSUME GuardInv, StatusInv,
           \/ PatchControlPlaneEndpoint \/ SetInitialized \/ ReportReplicas
           \/ SetInitializedAgain \/ SetReady
    PROVE  [Contract!Next]_Contract!vars
  <1>1. scp \in StewardObject /\ UNCHANGED <<tcp, secrets>>
    BY DEF GuardInv, TypeOK, PatchControlPlaneEndpoint, SetInitialized, ReportReplicas,
           SetInitializedAgain, SetReady
  <1>2. CASE scp' = scp
    BY <1>1, <1>2, Invisible, SameTenants DEF GuardInv
  <1>3. CASE PatchControlPlaneEndpoint /\ scp' # scp
    <2>1. /\ pc = "patch" /\ scp.exists /\ mine.ep \in Endpoints
          /\ scp' = [scp EXCEPT !.ep = mine.ep]
      BY <1>1, <1>3 DEF PatchControlPlaneEndpoint, PatchedEndpoint, StatusInv, EndpointInv,
                        TypeOK, TenantStatus, Endpoint, StewardObject
    <2> PICK e \in Endpoints : e = mine.ep
      BY <2>1
    <2>2. Contract!Announce(e)
      BY <1>1, <2>1 DEF Contract!Announce, Phase, StewardObject
    <2> QED
      BY <2>2 DEF Contract!Next
  <1>4. CASE (SetInitialized \/ SetInitializedAgain) /\ scp' # scp
    <2>1. pc \in {"init", "initAgain"} /\ scp.exists /\ scp' = [scp EXCEPT !.init = TRUE]
      BY <1>4 DEF SetInitialized, SetInitializedAgain, InitializedAgain, UpdateStatus, Current
    <2>2. scp.ep # None
      BY <2>1 DEF StatusInv, EndpointInv
    <2>3. Contract!Initialize
      BY <1>1, <2>1, <2>2 DEF Contract!Initialize, Phase, StewardObject
    <2> QED
      BY <2>3 DEF Contract!Next
  <1>5. CASE SetReady /\ scp' # scp
    <2>1. pc = "ready" /\ scp.exists /\ scp' = [scp EXCEPT !.ready = ReadyStatus]
      BY <1>5 DEF SetReady, UpdateStatus, Current
    <2>2. scp.init /\ secrets.kubeconfig # None /\ secrets.ca # None
      BY <2>1 DEF StatusInv, ProgressInv
    <2>3. ReadyStatus = ~scp.ready
      BY <1>1, <1>5, <2>1 DEF ReadyStatus, StewardObject
    <2>4. Contract!ChangeReady
      BY <1>1, <2>1, <2>2, <2>3 DEF Contract!ChangeReady, Phase, StewardObject
    <2> QED
      BY <2>4 DEF Contract!Next
  <1>6. CASE ReportReplicas
    BY <1>2, <1>6 DEF ReportReplicas, UpdateStatus
  <1> QED
    BY <1>2, <1>3, <1>4, <1>5, <1>6

\* The Secrets appear when the second of them does.
LEMMA SecretsKeep ==
    ASSUME GuardInv, StatusInv, OrderInv,
           \/ CreateOrUpdateKubeconfig \/ CreateOrUpdateCertificateAuthority
           \/ \E l \in Locations : StewardReports(l)
           \/ GarbageCollected
    PROVE  [Contract!Next]_Contract!vars
  <1> DEFINE usable == secrets.kubeconfig # None /\ secrets.ca # None
  <1>1. UNCHANGED scp /\ UNCHANGED tenant
    <2>1. CASE CreateOrUpdateKubeconfig \/ CreateOrUpdateCertificateAuthority
      BY <2>1, SameTenants
         DEF GuardInv, CreateOrUpdateKubeconfig, CreateOrUpdateCertificateAuthority
    <2>2. ASSUME NEW l \in Locations, StewardReports(l)
          PROVE  UNCHANGED scp /\ UNCHANGED tenant
      <3>1. \A t \in Targets : tcp'[t].state = tcp[t].state
        BY <2>2 DEF GuardInv, TypeOK, TenantObject, StewardReports, Locations
      <3> QED
        BY <2>2, <3>1, SameTenants DEF GuardInv, StewardReports
    <2>3. CASE GarbageCollected
      <3>1. \A t \in Targets : tcp'[t].state = tcp[t].state
        BY <2>3, SCPAssumption DEF GuardInv, TypeOK, GarbageCollected, Locations
      <3> QED
        BY <2>3, <3>1, SameTenants DEF GuardInv, GarbageCollected
    <2> QED
      BY <2>1, <2>2, <2>3
  <1>2. CASE UNCHANGED usable
    BY <1>1, <1>2 DEF Contract!vars, Contract!object, Phase, tenant
  <1>3. CASE ~usable /\ usable'
    <2>1. scp.exists => scp.init
      <3>1. CASE CreateOrUpdateKubeconfig \/ CreateOrUpdateCertificateAuthority
        BY <3>1 DEF CreateOrUpdateKubeconfig, CreateOrUpdateCertificateAuthority,
                    StatusInv, ProgressInv
      <3>2. CASE \E l \in Locations : StewardReports(l)
        <4>1. secrets'.kubeconfig = secrets.kubeconfig
          BY <3>2 DEF StewardReports, GuardInv, TypeOK
        <4> QED
          BY <1>3, <4>1 DEF OrderInv
      <3>3. CASE GarbageCollected
        BY <1>3, <3>3 DEF GarbageCollected
      <3> QED
        BY <3>1, <3>2, <3>3
    <2>2. Contract!Publish
      BY <1>1, <1>3, <2>1 DEF Contract!Publish, Contract!object, Phase, tenant
    <2> QED
      BY <2>2 DEF Contract!Next
  <1>4. CASE usable /\ ~usable'
    <2>1. GarbageCollected
      BY <1>4, SCPAssumption
         DEF CreateOrUpdateKubeconfig, CreateOrUpdateCertificateAuthority, StewardReports,
             ReplicatedKubeconfig, ReplicatedCA, GuardInv, TypeOK
    <2>2. Contract!Collect
      BY <1>1, <1>4, <2>1
         DEF GarbageCollected, Contract!Collect, Contract!object, Phase, tenant
    <2> QED
      BY <2>2 DEF Contract!Next
  <1> QED
    BY <1>2, <1>3, <1>4

\* The user creates and deletes, Steward finishes what is being deleted.
LEMMA OthersKeep ==
    ASSUME GuardInv, StatusInv,
           \/ OwnerSet \/ UserDeletes \/ \E l \in Locations : UserEdits(l)
           \/ \E l \in Locations : StewardFinalizes(l)
    PROVE  [Contract!Next]_Contract!vars
  <1> USE DEF GuardInv
  <1>1. scp \in StewardObject
    BY DEF TypeOK
  <1>2. ASSUME NEW l \in Locations, OwnerSet \/ UserEdits(l)
        PROVE  UNCHANGED Contract!vars
    <2>1. /\ UNCHANGED <<tcp, secrets>>
          /\ scp'.exists = scp.exists /\ scp'.del = scp.del /\ scp'.fin = scp.fin
          /\ scp'.ep = scp.ep /\ scp'.init = scp.init /\ scp'.ready = scp.ready
      BY <1>1, <1>2 DEF OwnerSet, UserEdits, StewardObject
    <2> QED
      BY <2>1 DEF Contract!vars, Contract!object, Phase
  <1>3. CASE UserDeletes
    <2>1. /\ UNCHANGED <<tcp, secrets>> /\ scp.exists /\ ~scp.del
          /\ scp' = IF scp.fin THEN [scp EXCEPT !.del = TRUE] ELSE NoSCP
      BY <1>3 DEF UserDeletes
    <2>2. Contract!Delete
      BY <1>1, <2>1 DEF Contract!Delete, Contract!Gone, Phase, NoSCP, StewardObject
    <2> QED
      BY <2>2 DEF Contract!Next
  <1>4. ASSUME NEW l \in Locations, StewardFinalizes(l)
        PROVE  [Contract!Next]_Contract!vars
    <2>1. /\ UNCHANGED <<scp, secrets>> /\ tcp[l].state = "deleting"
          /\ tcp' = [tcp EXCEPT ![l] = NoTCP]
      BY <1>4 DEF StewardFinalizes
    <2>2. CASE l \notin Targets
      BY <2>1, <2>2, OneTenant, Invisible
    <2>3. CASE l \in Targets
      <3> DEFINE new == NoTCP
      <3>1. new.state = "none"
        BY DEF NoTCP
      <3> HIDE DEF new
      <3>2. tenant' = [tenant EXCEPT ![l] = "none"]
        <4>1. tcp' = [tcp EXCEPT ![l] = new]
          BY <2>1 DEF new
        <4> QED
          BY <2>3, <3>1, <4>1, OneTenant
      <3>3. Contract!Finished(l)
        BY <2>1, <2>3, <3>2 DEF Contract!Finished, Contract!object, Phase, tenant
      <3> QED
        BY <2>3, <3>3 DEF Contract!Next
    <2> QED
      BY <2>2, <2>3
  <1> QED
    BY <1>2, <1>3, <1>4, SCPAssumption DEF Locations

\* Reads, patches of the infrastructure, the cache, the process and the Cluster.
LEMMA HiddenSteps ==
    ASSUME TypeOK,
           \/ Begin \/ HandleDeletion \/ ExtractRemoteClient \/ GetClusterAgain
           \/ PatchInfrastructure \/ CallFails \/ Process
           \/ ClusterChanges \/ InfrastructureChanges
           \/ \E t \in Targets : ReachabilityChanges(t)
           \/ UNCHANGED vars
    PROVE  UNCHANGED Contract!vars
  <1>1. UNCHANGED <<scp, secrets, tcp>>
    BY DEF Begin, HandleDeletion, ExtractRemoteClient, GetClusterAgain, PatchInfrastructure,
           CallFails, Process, CacheSync, InfraCacheSync, Resync, Restart, ClusterChanges,
           InfrastructureChanges, ReachabilityChanges, vars, world
  <1> QED
    BY <1>1, SameTenants, Invisible

-----------------------------------------------------------------------------
(***************************************************************************)
(* For every set of remote clusters, endpoints and kinds of infrastructure *)
(* and any number of generations and faults: while the reference does not  *)
(* change, what Reconcile does to the StewardControlPlane, its Secrets and *)
(* the remote TenantControlPlanes is what the contract allows.             *)
(***************************************************************************)
THEOREM ContractKept ==
    ASSUME Moves = {}
    PROVE  Spec => KeepsContract
  <1>1. Init => Contract!Init
    BY DEF Init, Contract!Init, Phase, NoSCP, NoTCP, StewardObject, Locations
  <1>2. GuardInv /\ StatusInv /\ OrderInv /\ [Next]_vars => [Contract!Next]_Contract!vars
    <2> SUFFICES ASSUME GuardInv, StatusInv, OrderInv, [Next]_vars
                 PROVE  [Contract!Next]_Contract!vars
      OBVIOUS
    <2>1. CASE DeleteRemote \/ RemoveFinalizer
      BY <2>1, DeletionKeeps
    <2>2. CASE HandleFinalizer \/ CreateOrUpdateTenantControlPlane
      BY <2>2, CreationKeeps
    <2>3. CASE \/ PatchControlPlaneEndpoint \/ SetInitialized \/ ReportReplicas
               \/ SetInitializedAgain \/ SetReady
      BY <2>3, StatusKeeps
    <2>4. CASE \/ CreateOrUpdateKubeconfig \/ CreateOrUpdateCertificateAuthority
               \/ \E l \in Locations : StewardReports(l)
               \/ GarbageCollected
      BY <2>4, SecretsKeep
    <2>5. CASE \/ OwnerSet \/ UserDeletes \/ \E l \in Locations : UserEdits(l)
               \/ \E l \in Locations : StewardFinalizes(l)
      BY <2>5, OthersKeep
    <2>6. CASE \/ Begin \/ HandleDeletion \/ ExtractRemoteClient \/ GetClusterAgain
               \/ PatchInfrastructure \/ CallFails \/ Process
               \/ ClusterChanges \/ InfrastructureChanges
               \/ \E t \in Targets : ReachabilityChanges(t)
               \/ UNCHANGED vars
      BY <2>6, HiddenSteps DEF GuardInv
    <2> QED
      BY <2>1, <2>2, <2>3, <2>4, <2>5, <2>6 DEF Next, Step, Others
  <1> QED
    BY <1>1, <1>2, GuardInvariance, StatusInvariance, OrderInvariance, PTL
       DEF Spec, KeepsContract, Contract!Spec
=============================================================================
