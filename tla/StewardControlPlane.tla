------------------------ MODULE StewardControlPlane ------------------------
(***************************************************************************)
(* StewardControlPlaneReconciler.Reconcile for one StewardControlPlane,    *)
(* one step per call it makes on an API server or on a cache, together     *)
(* with what it works against:                                             *)
(*   - the StewardControlPlane on the API server (`scp`), and the same     *)
(*     object as the informer cache holds it (`view`), which lags behind;  *)
(*   - the TenantControlPlane at each location: the management cluster     *)
(*     (Local) or a remote cluster reached through the store of            *)
(*     ExternalClusterReference;                                           *)
(*   - the CAPI Cluster and the infrastructure cluster, and the kubeconfig *)
(*     and CA Secrets the controller replicates for CAPI.                  *)
(* The controller never runs two reconciliations of one object at a time,  *)
(* so there is one worker.  An update made after a Get of the cached       *)
(* object reaches the API server only if the cache is up to date; until it *)
(* is, RetryOnConflict tries again or gives up, and Reconcile returns an   *)
(* error.  Objects are compared by value instead of by resource version.   *)
(* Left to other modules: the content of the TenantControlPlane's spec     *)
(* (its generation stands for it) and the parsing of the endpoint, which   *)
(* are in TenantControlPlaneSync, and the status conditions with their     *)
(* deferred update, in ReconciledObject, which the controller writes and   *)
(* never reads (a conflict that update causes is a failed call).           *)
(***************************************************************************)
EXTENDS Naturals

CONSTANTS
    Targets,        \* remote clusters
    Local,          \* the management cluster
    Moves,          \* pairs of locations a user may move the control plane along
    Endpoints,      \* addresses Steward may give a TenantControlPlane
    None,           \* no endpoint, no Secret, no location
    Steward,        \* origin of a CA Secret that Steward itself keeps
    SharedCAName,   \* Steward's local CA Secret has the name CAPI expects
    InfraKinds,     \* what patchCluster may do with the infrastructure cluster
    Reported,       \* bound: version statuses Steward reports
    Disturbances,   \* bound: what goes wrong around the controller
    MaxGeneration,  \* bound: how many versions of the spec there are
    MaxFaults       \* bound: failed calls and restarts

Locations == Targets \cup {Local}

ASSUME SCPAssumption ==
    /\ Local \notin Targets
    /\ None \notin Locations \cup Endpoints \cup {Steward}
    /\ Steward \notin Locations
    /\ Moves \subseteq Locations \X Locations
    /\ SharedCAName \in BOOLEAN
    /\ InfraKinds \subseteq
         {"patch", "patchReady", "check", "checkOrPatch", "unsupported", "skip"}
    /\ Reported \subseteq {"NotReady", "Ready", "Upgrading"}
    /\ Disturbances \subseteq {"paused", "removed", "unready", "unreachable"}
    /\ MaxGeneration \in Nat \ {0}
    /\ MaxFaults \in Nat

VARIABLES
    scp,        \* the StewardControlPlane on the API server
    view,       \* the StewardControlPlane in the cache
    cluster,    \* the cached Cluster
    infra,      \* the infrastructure cluster, and what the cache has of it
    tcp,        \* the TenantControlPlane at each location
    secrets,    \* where the replicated kubeconfig and CA come from
    reachable,  \* remote clusters whose client extractRemoteClient finds
    queue,      \* the object is in the work queue
    pc,         \* where Reconcile is
    me,         \* what Reconcile uses of its copy of the StewardControlPlane
    initialized,\* Status.Initialized of that copy, once the endpoint is patched
    remote,     \* location of the client Reconcile uses
    mine,       \* status of the TenantControlPlane as Reconcile got it
    snap,       \* Reconcile's copy of the Cluster
    faults      \* faults so far

world  == <<scp, view, cluster, infra, tcp, secrets, reachable>>
worker == <<pc, me, initialized, remote, mine, snap>>
vars   == <<world, queue, worker, faults>>

Endpoint == Endpoints \cup {None}

StewardObject ==
    [exists : BOOLEAN, owned : BOOLEAN, del : BOOLEAN, fin : BOOLEAN, gen : Nat,
     loc : Locations, ep : Endpoint, init : BOOLEAN, ready : BOOLEAN]

NoSCP == [exists |-> FALSE, owned |-> FALSE, del |-> FALSE, fin |-> FALSE, gen |-> 0,
          loc |-> Local, ep |-> None, init |-> FALSE, ready |-> FALSE]

\* What Reconcile uses of a StewardControlPlane it has read.
Copied == [fin : BOOLEAN, gen : Nat, loc : Locations, ep : Endpoint]

Copy(object) ==
    [fin |-> object.fin, gen |-> object.gen, loc |-> object.loc, ep |-> object.ep]

NoCopy == Copy(NoSCP)

Versions == {"nil", "NotReady", "Ready", "Upgrading"}

TenantStatus == [ep : Endpoint, ver : Versions, issued : SUBSET {"kubeconfig", "ca"}]

NoStatus == [ep |-> None, ver |-> "nil", issued |-> {}]

TenantObject ==
    [state : {"none", "live", "deleting"}, gen : Nat, status : TenantStatus]

NoTCP == [state |-> "none", gen |-> 0, status |-> NoStatus]

NoSnap == [ep |-> None, ready |-> FALSE]

\* The infrastructure cluster is read from a cache, too.
InfraObject ==
    [kind : InfraKinds, ep : Endpoint, ready : BOOLEAN,
     seen : [ep : Endpoint, ready : BOOLEAN]]

\* The informer of the infrastructure cluster has seen every write.  Readiness
\* is only kept where patchCluster looks at it.
Seen(object) ==
    [object EXCEPT !.seen = [ep    |-> object.ep,
                             ready |-> object.kind = "patchReady" /\ object.ready]]

TypeOK ==
    /\ scp \in StewardObject
    /\ view \in StewardObject
    /\ cluster \in [exists : BOOLEAN, paused : BOOLEAN, ep : Endpoint]
    /\ infra \in InfraObject
    /\ tcp \in [Locations -> TenantObject]
    /\ secrets \in [kubeconfig : Locations \cup {None},
                    ca : Locations \cup {None, Steward}]
    /\ reachable \subseteq Targets
    /\ queue \in BOOLEAN
    /\ pc \in {"idle", "deletion", "delete", "unfinalize", "extract", "finalizer",
               "tcp", "patch", "cluster", "infra", "init", "replicas", "initAgain",
               "kubeconfig", "ca", "ready"}
    /\ me \in Copied
    /\ initialized \in BOOLEAN
    /\ remote \in Locations
    /\ mine \in TenantStatus
    /\ snap \in [ep : Endpoint, ready : BOOLEAN]
    /\ faults \in Nat

\* A user has created the object; nobody has seen it yet.
Init ==
    /\ \E l \in Locations : scp = [NoSCP EXCEPT !.exists = TRUE, !.gen = 1, !.loc = l]
    /\ view = NoSCP
    /\ cluster = [exists |-> TRUE, paused |-> FALSE, ep |-> None]
    /\ infra \in InfraObject /\ infra = Seen(infra)
    /\ tcp = [l \in Locations |-> NoTCP]
    /\ secrets = [kubeconfig |-> None, ca |-> None]
    /\ reachable = {}
    /\ queue = FALSE
    /\ pc = "idle"
    /\ me = NoCopy
    /\ initialized = FALSE
    /\ remote = Local
    /\ mine = NoStatus
    /\ snap = NoSnap
    /\ faults = 0

-----------------------------------------------------------------------------
(***************************************************************************)
(* How Reconcile ends.                                                     *)
(***************************************************************************)

Return ==
    /\ pc' = "idle"
    /\ me' = NoCopy
    /\ initialized' = FALSE
    /\ remote' = Local
    /\ mine' = NoStatus
    /\ snap' = NoSnap

\* Nothing more to do until an event arrives.
Withdraw == Return /\ UNCHANGED queue

\* An error, or a RequeueAfter: the object goes back into the queue.
EnqueueBack == Return /\ queue' = TRUE

-----------------------------------------------------------------------------
(***************************************************************************)
(* Reads and writes of the StewardControlPlane.                            *)
(***************************************************************************)

\* The cached object is the current one: an update of it is accepted.
Current == view.exists /\ view = scp

\* updateStewardControlPlaneStatus: Get, modify, Status().Update.
UpdateStatus(modified) == Current /\ scp' = modified

\* The object is gone from the cache, or every retry met a conflict.
UpdateRefused == ~Current

\* The API server removes a deleted object with its last finalizer.
WithoutFinalizer(object) ==
    IF object.del THEN NoSCP ELSE [object EXCEPT !.fin = FALSE]

-----------------------------------------------------------------------------
(***************************************************************************)
(* Reconcile: the beginning.                                               *)
(***************************************************************************)

\* Mutant: no check of the deletion timestamp.
BranchIgnoringDeletion(object) == IF object.loc = Local THEN "tcp" ELSE "extract"

\* Where Reconcile goes with an object it works on.
Branch(object) ==
    IF object.del THEN "deletion" ELSE IF object.loc = Local THEN "tcp" ELSE "extract"

\* The worker takes the request, reads the object and its Cluster, and
\* withdraws when one is missing, nobody owns the object, or it is paused.
Begin ==
    /\ pc = "idle"
    /\ queue
    /\ queue' = FALSE
    /\ IF view.exists /\ view.owned /\ cluster.exists /\ ~cluster.paused
         THEN /\ me' = Copy(view)
              /\ pc' = Branch(view)
              /\ UNCHANGED <<initialized, remote, mine, snap>>
         ELSE UNCHANGED worker
    /\ UNCHANGED <<world, faults>>

(***************************************************************************)
(* handleDeletion.                                                         *)
(***************************************************************************)

HandleDeletion ==
    /\ pc = "deletion"
    /\ \/ /\ ~me.fin \/ me.loc = Local
          /\ Withdraw
       \/ /\ me.fin /\ me.loc \in Targets \ reachable
          /\ EnqueueBack
       \/ /\ me.fin /\ me.loc \in reachable
          /\ pc' = "delete"
          /\ remote' = me.loc
          /\ UNCHANGED <<queue, me, initialized, mine, snap>>
    /\ UNCHANGED <<world, faults>>

\* Delete is accepted at once; the object goes when Steward is done with it.
DeleteRemote ==
    /\ pc = "delete"
    /\ IF tcp[remote].state = "none"
         THEN Withdraw /\ UNCHANGED tcp
         ELSE /\ tcp' = [tcp EXCEPT ![remote].state = "deleting"]
              /\ pc' = "unfinalize"
              /\ UNCHANGED <<queue, me, initialized, remote, mine, snap>>
    /\ UNCHANGED <<scp, view, cluster, infra, secrets, reachable, faults>>

RemoveFinalizer ==
    /\ pc = "unfinalize"
    /\ \/ /\ Current
          /\ scp' = WithoutFinalizer(scp)
          /\ Withdraw
       \/ /\ ~view.exists \/ ~scp.exists
          /\ Withdraw /\ UNCHANGED scp
       \/ /\ UpdateRefused /\ view.exists /\ scp.exists
          /\ EnqueueBack /\ UNCHANGED scp
    /\ UNCHANGED <<view, cluster, infra, tcp, secrets, reachable, faults>>

-----------------------------------------------------------------------------
(***************************************************************************)
(* Reconcile: the TenantControlPlane.                                      *)
(***************************************************************************)

\* Mutant: the finalizer is left for later.
NoFinalizerNeeded == TRUE

\* handleFinalizer has nothing to do.
HasFinalizer == me.fin

ExtractRemoteClient ==
    /\ pc = "extract"
    /\ IF me.loc \in reachable
         THEN /\ remote' = me.loc
              /\ pc' = IF HasFinalizer THEN "tcp" ELSE "finalizer"
              /\ UNCHANGED <<queue, me, initialized, mine, snap>>
         ELSE EnqueueBack
    /\ UNCHANGED <<world, faults>>

\* The update hands Reconcile the current object, which may refer elsewhere.
HandleFinalizer ==
    /\ pc = "finalizer"
    /\ \/ /\ Current
          /\ scp' = [scp EXCEPT !.fin = TRUE]
          /\ me' = Copy(scp')
          /\ pc' = "tcp"
          /\ UNCHANGED <<queue, initialized, remote, mine, snap>>
       \/ /\ UpdateRefused
          /\ EnqueueBack /\ UNCHANGED scp
    /\ UNCHANGED <<view, cluster, infra, tcp, secrets, reachable, faults>>

\* Mutant: an existing TenantControlPlane is left as it is.
CreatedOnly(object) ==
    IF object.state = "none" THEN [object EXCEPT !.gen = me.gen, !.state = "live"] ELSE object

\* A TenantControlPlane, new or not, with the spec of Reconcile's copy.
CreatedOrUpdated(object) ==
    [object EXCEPT !.gen = me.gen, !.state = IF @ = "none" THEN "live" ELSE @]

\* Create or update with the client in hand, from Reconcile's copy of the spec.
\* With a remote client and a copy that no longer has a reference, naming the
\* object fails.  Reconcile goes on with the status the object has now, and only
\* if that has an endpoint.
CreateOrUpdateTenantControlPlane ==
    LET got == CreatedOrUpdated(tcp[remote]) IN
    /\ pc = "tcp"
    /\ IF remote \in Targets /\ me.loc = Local
         THEN EnqueueBack /\ UNCHANGED tcp
         ELSE /\ tcp' = [tcp EXCEPT ![remote] = got]
              /\ IF got.status.ep = None
                   THEN EnqueueBack
                   ELSE /\ mine' = got.status
                        /\ pc' = "patch"
                        /\ UNCHANGED <<queue, me, initialized, remote, snap>>
    /\ UNCHANGED <<scp, view, cluster, infra, secrets, reachable, faults>>

-----------------------------------------------------------------------------
(***************************************************************************)
(* Reconcile: the endpoint.                                                *)
(***************************************************************************)

\* Mutant: an endpoint is not changed any more.
PatchedOnce(ep) == IF ep = None THEN mine.ep ELSE ep

\* A merge patch without a resource version, computed against Reconcile's copy:
\* empty when that copy has the endpoint already.
PatchedEndpoint(ep) == IF me.ep = mine.ep THEN ep ELSE mine.ep

\* The answer to the patch replaces the copy, of which only Status.Initialized is
\* read from here on.
PatchControlPlaneEndpoint ==
    /\ pc = "patch"
    /\ IF scp.exists
         THEN /\ scp' = [scp EXCEPT !.ep = PatchedEndpoint(@)]
              /\ me' = NoCopy
              /\ initialized' = scp.init
              /\ pc' = "cluster"
              /\ UNCHANGED <<queue, remote, mine, snap>>
         ELSE EnqueueBack /\ UNCHANGED scp
    /\ UNCHANGED <<view, cluster, infra, tcp, secrets, reachable, faults>>

GetClusterAgain ==
    /\ pc = "cluster"
    /\ IF cluster.exists
         THEN /\ snap' = [ep |-> cluster.ep, ready |-> infra.ready]
              /\ pc' = "infra"
              /\ UNCHANGED <<queue, me, initialized, remote, mine>>
         ELSE Withdraw
    /\ UNCHANGED <<world, faults>>

\* patchCluster, by the kind of the infrastructure cluster: patch it, patch it and
\* declare it ready, check that it has this endpoint, check it unless there is
\* nothing to check, refuse, or (with SkipInfraClusterPatch) do not look at it.
\* What is checked, and what the patch is computed against, is the cached object.
PatchClusterRefused(ep) ==
    \/ infra.kind \in {"check", "checkOrPatch"} /\ infra.seen.ep \notin {None, ep}
    \/ infra.kind = "check" /\ infra.seen.ep = None
    \/ infra.kind = "unsupported"

PatchCluster(ep) ==
    /\ ~PatchClusterRefused(ep)
    /\ infra' =
         IF infra.kind = "skip"
           THEN infra
           ELSE [infra EXCEPT !.ep    = IF infra.seen.ep = ep THEN @ ELSE ep,
                              !.ready = @ \/ (infra.kind = "patchReady" /\ ~infra.seen.ready)]

\* Mutant: the endpoint of the Cluster is not waited for.
InfrastructureReady == snap.ready /\ mine.ver # "nil"

\* The Cluster, as read before the patch, has an endpoint and a ready
\* infrastructure, and the TenantControlPlane a version status.
ClusterReady == snap.ep # None /\ snap.ready /\ mine.ver # "nil"

\* Mutant: an event of the Cluster is waited for.
WaitForEvent == Withdraw

\* Nothing watches the Cluster: it is polled.
WaitForCluster == EnqueueBack

PatchInfrastructure ==
    /\ pc = "infra"
    /\ \/ /\ PatchCluster(mine.ep)
          /\ IF ClusterReady
               THEN /\ pc' = IF mine.ver = "Ready" /\ ~initialized THEN "init" ELSE "replicas"
                    /\ snap' = NoSnap
                    /\ UNCHANGED <<queue, me, initialized, remote, mine>>
               ELSE WaitForCluster
       \/ /\ PatchClusterRefused(mine.ep)
          /\ EnqueueBack /\ UNCHANGED infra
    /\ UNCHANGED <<scp, view, cluster, tcp, secrets, reachable, faults>>

-----------------------------------------------------------------------------
(***************************************************************************)
(* Reconcile: the status and the Secrets.                                  *)
(***************************************************************************)

SetInitialized ==
    /\ pc = "init"
    /\ \/ /\ UpdateStatus([scp EXCEPT !.init = TRUE])
          /\ initialized' = TRUE
          /\ pc' = "replicas"
          /\ UNCHANGED <<queue, me, remote, mine, snap>>
       \/ /\ UpdateRefused
          /\ EnqueueBack /\ UNCHANGED scp
    /\ UNCHANGED <<view, cluster, infra, tcp, secrets, reachable, faults>>

\* The replica counters and the version are not modelled, their update is.
ReportReplicas ==
    /\ pc = "replicas"
    /\ \/ /\ initialized
          /\ UpdateStatus(scp)
          /\ pc' = "initAgain"
          /\ UNCHANGED <<queue, me, initialized, remote, mine, snap>>
       \/ /\ ~initialized \/ UpdateRefused
          /\ EnqueueBack /\ UNCHANGED scp
    /\ UNCHANGED <<view, cluster, infra, tcp, secrets, reachable, faults>>

\* Mutant: Initialized follows the version status.
InitializedByVersion(object) == [object EXCEPT !.init = (mine.ver = "Ready")]

InitializedAgain(object) == [object EXCEPT !.init = TRUE]

\* Initialized once more, and the error of this update is not looked at.
SetInitializedAgain ==
    /\ pc = "initAgain"
    /\ \/ UpdateStatus(InitializedAgain(scp))
       \/ UpdateRefused /\ UNCHANGED scp
    /\ pc' = "kubeconfig"
    /\ initialized' = FALSE
    /\ UNCHANGED <<queue, me, remote, mine, snap>>
    /\ UNCHANGED <<view, cluster, infra, tcp, secrets, reachable, faults>>

\* Mutant: an existing kubeconfig Secret is left as it is.
KubeconfigKept(origin) == IF origin = None THEN remote ELSE origin

\* The kubeconfig is copied from where the TenantControlPlane is.
ReplicatedKubeconfig(origin) == remote

CreateOrUpdateKubeconfig ==
    /\ pc = "kubeconfig"
    /\ IF "kubeconfig" \in mine.issued /\ tcp[remote].state # "none"
         THEN /\ secrets' = [secrets EXCEPT !.kubeconfig = ReplicatedKubeconfig(@)]
              /\ pc' = "ca"
              /\ UNCHANGED <<queue, me, initialized, remote, mine, snap>>
         ELSE EnqueueBack /\ UNCHANGED secrets
    /\ UNCHANGED <<scp, view, cluster, infra, tcp, reachable, faults>>

\* Mutant: the CA Secret is left alone whoever keeps it.
CAKept(origin) == origin

\* Mutant: the CA comes from the status instead of the Secret named there.
CAFromStatus(origin) == mine.issued

\* A CA Secret that Steward keeps under this name is left alone.
ReplicatedCA(origin) == IF origin = Steward THEN origin ELSE remote

CreateOrUpdateCertificateAuthority ==
    /\ pc = "ca"
    /\ IF "ca" \in mine.issued /\ tcp[remote].state # "none"
         THEN /\ secrets' = [secrets EXCEPT !.ca = ReplicatedCA(@)]
              /\ pc' = "ready"
              /\ UNCHANGED <<queue, me, initialized, remote, mine, snap>>
         ELSE EnqueueBack /\ UNCHANGED secrets
    /\ UNCHANGED <<scp, view, cluster, infra, tcp, reachable, faults>>

\* Status.Ready while Steward upgrades the control plane, too.
ReadyStatus == mine.ver \in {"Ready", "Upgrading"}

\* The last status update.  For a control plane that is not ready, the error meant
\* to enqueue the object back only reaches TrackConditionType.
SetReady ==
    /\ pc = "ready"
    /\ \/ /\ UpdateStatus([scp EXCEPT !.ready = ReadyStatus])
          /\ Withdraw
       \/ /\ UpdateRefused
          /\ EnqueueBack /\ UNCHANGED scp
    /\ UNCHANGED <<view, cluster, infra, tcp, secrets, reachable, faults>>

\* Any call to an API server may fail; Reconcile returns the error.  Of the steps
\* below only the second update of Initialized carries on after one.
CallFails ==
    /\ pc \notin {"idle", "extract", "deletion", "initAgain"}
    /\ faults < MaxFaults
    /\ faults' = faults + 1
    /\ EnqueueBack
    /\ UNCHANGED world

-----------------------------------------------------------------------------
(***************************************************************************)
(* The cache, the process, and everybody else.                             *)
(***************************************************************************)

\* The informer catches up.  Events of an object without owner are filtered out.
CacheSync ==
    /\ view # scp
    /\ view' = scp
    /\ queue' = (queue \/ IF scp.exists THEN scp.owned ELSE view.owned)
    /\ UNCHANGED <<scp, cluster, infra, tcp, secrets, reachable, worker, faults>>

\* Nothing watches the infrastructure cluster: its informer enqueues nothing.
InfraCacheSync ==
    /\ infra # Seen(infra)
    /\ infra' = Seen(infra)
    /\ UNCHANGED <<scp, view, cluster, tcp, secrets, reachable, queue, worker, faults>>

Resync ==
    /\ view.exists /\ view.owned
    /\ ~queue
    /\ queue' = TRUE
    /\ UNCHANGED <<world, worker, faults>>

\* The process dies; the new one lists the objects and has an empty store.
Restart ==
    /\ faults < MaxFaults
    /\ faults' = faults + 1
    /\ view' = scp
    /\ infra' = Seen(infra)
    /\ queue' = (scp.exists /\ scp.owned)
    /\ reachable' = {}
    /\ Return
    /\ UNCHANGED <<scp, cluster, tcp, secrets>>

\* The Cluster controller makes the Cluster the object's owner.
OwnerSet ==
    /\ scp.exists /\ ~scp.owned
    /\ scp' = [scp EXCEPT !.owned = TRUE]
    /\ UNCHANGED <<view, cluster, infra, tcp, secrets, reachable, queue, worker, faults>>

UserEdits(l) ==
    /\ scp.exists
    /\ scp.gen < MaxGeneration
    /\ l = scp.loc \/ <<scp.loc, l>> \in Moves
    /\ scp' = [scp EXCEPT !.gen = @ + 1, !.loc = l]
    /\ UNCHANGED <<view, cluster, infra, tcp, secrets, reachable, queue, worker, faults>>

UserDeletes ==
    /\ scp.exists /\ ~scp.del
    /\ scp' = IF scp.fin THEN [scp EXCEPT !.del = TRUE] ELSE NoSCP
    /\ UNCHANGED <<view, cluster, infra, tcp, secrets, reachable, queue, worker, faults>>

\* The Cluster takes its endpoint, once, from the control plane or from the
\* infrastructure; it is paused, unpaused and removed.  Nothing watches it.
ClusterChanges ==
    /\ cluster.exists
    /\ \/ \E e \in {scp.ep, infra.ep} \ {None} :
             cluster.ep = None /\ cluster' = [cluster EXCEPT !.ep = e]
       \/ "paused" \in Disturbances /\ cluster' = [cluster EXCEPT !.paused = ~@]
       \/ "removed" \in Disturbances /\ cluster' = [cluster EXCEPT !.exists = FALSE]
    /\ UNCHANGED <<scp, view, infra, tcp, secrets, reachable, queue, worker, faults>>

InfrastructureChanges ==
    /\ infra.ready => "unready" \in Disturbances
    /\ infra' = [infra EXCEPT !.ready = ~@]
    /\ UNCHANGED <<scp, view, cluster, tcp, secrets, reachable, queue, worker, faults>>

\* A manager for the remote cluster enters the store, and its informer hands the
\* TenantControlPlane to PushStewardChange; or the manager leaves the store.
ReachabilityChanges(t) ==
    /\ \/ /\ t \notin reachable
          /\ reachable' = reachable \cup {t}
          /\ queue' = (queue \/ (scp.exists /\ tcp[t].state # "none"))
       \/ /\ t \in reachable /\ "unreachable" \in Disturbances
          /\ reachable' = reachable \ {t}
          /\ UNCHANGED queue
    /\ UNCHANGED <<scp, view, cluster, infra, tcp, secrets, worker, faults>>

\* The changes of status Steward may report.
StatusChange(old, new) ==
    \/ \E e \in Endpoints : new = [old EXCEPT !.ep = e]
    \/ \E v \in Reported : new = [old EXCEPT !.ver = v]
    \/ \E x \in {"kubeconfig", "ca"} : new = [old EXCEPT !.issued = @ \cup {x}]

\* Steward reports on a TenantControlPlane; the change is seen by the owner's watch
\* or by PushStewardChange.
StewardReports(l) ==
    /\ tcp[l].state = "live"
    /\ \E status \in TenantStatus :
          /\ status # tcp[l].status
          /\ StatusChange(tcp[l].status, status)
          /\ tcp' = [tcp EXCEPT ![l].status = status]
          /\ secrets' = IF l = Local /\ SharedCAName /\ secrets.ca = None
                           /\ "ca" \in status.issued
                          THEN [secrets EXCEPT !.ca = Steward] ELSE secrets
    /\ queue' = (queue \/ (scp.exists /\ l \in reachable \cup {Local}))
    /\ UNCHANGED <<scp, view, cluster, infra, reachable, worker, faults>>

StewardFinalizes(l) ==
    /\ tcp[l].state = "deleting"
    /\ tcp' = [tcp EXCEPT ![l] = NoTCP]
    /\ UNCHANGED <<scp, view, cluster, infra, secrets, reachable, queue, worker, faults>>

\* What the object owned goes with it: the local TenantControlPlane, the Secrets.
GarbageCollected ==
    /\ ~scp.exists
    /\ tcp[Local] # NoTCP \/ secrets # [kubeconfig |-> None, ca |-> None]
    /\ tcp' = [tcp EXCEPT ![Local] = NoTCP]
    /\ secrets' = [kubeconfig |-> None, ca |-> None]
    /\ UNCHANGED <<scp, view, cluster, infra, reachable, queue, worker, faults>>

-----------------------------------------------------------------------------
Step ==
    \/ HandleDeletion \/ DeleteRemote \/ RemoveFinalizer
    \/ ExtractRemoteClient \/ HandleFinalizer \/ CreateOrUpdateTenantControlPlane
    \/ PatchControlPlaneEndpoint \/ GetClusterAgain \/ PatchInfrastructure
    \/ SetInitialized \/ ReportReplicas \/ SetInitializedAgain
    \/ CreateOrUpdateKubeconfig \/ CreateOrUpdateCertificateAuthority \/ SetReady

Process == CacheSync \/ InfraCacheSync \/ Resync \/ Restart

Others ==
    \/ OwnerSet \/ UserDeletes \/ \E l \in Locations : UserEdits(l)
    \/ ClusterChanges \/ InfrastructureChanges
    \/ \E t \in Targets : ReachabilityChanges(t)
    \/ \E l \in Locations : StewardReports(l) \/ StewardFinalizes(l)
    \/ GarbageCollected

Next == Begin \/ Step \/ CallFails \/ Process \/ Others

Spec == Init /\ [][Next]_vars

(***************************************************************************)
(* The worker and the informers keep running.  Nothing is assumed of the   *)
(* resync, of Steward, of CAPI or of users.                                *)
(***************************************************************************)
Fairness ==
    WF_vars(Begin) /\ WF_vars(Step) /\ WF_vars(CacheSync) /\ WF_vars(InfraCacheSync)

FairSpec == Spec /\ Fairness

-----------------------------------------------------------------------------
(***************************************************************************)
(* Safety.                                                                 *)
(***************************************************************************)

(***************************************************************************)
(* A TenantControlPlane on a remote cluster has no owner reference: what   *)
(* gets it deleted is the finalizer of the StewardControlPlane.  While the *)
(* reference does not change, a remote TenantControlPlane that nobody has  *)
(* deleted is always the one a StewardControlPlane with the finalizer      *)
(* refers to, through crashes, stale reads and failed calls.               *)
(***************************************************************************)
RemoteTCPGuarded ==
    \A t \in Targets :
        tcp[t].state = "live" => scp.exists /\ scp.fin /\ scp.loc = t

(***************************************************************************)
(* Status.Ready promises a control plane that CAPI can use: it is          *)
(* initialized, and the kubeconfig and the CA have been replicated.        *)
(***************************************************************************)
ReadyIsUsable ==
    scp.ready => /\ scp.init
                 /\ secrets.kubeconfig # None
                 /\ secrets.ca # None

(***************************************************************************)
(* Status.Initialized is only set when worker nodes could join: the        *)
(* endpoint is on the StewardControlPlane and on its Cluster.              *)
(***************************************************************************)
InitializedHasEndpoint == scp.init => scp.ep # None /\ cluster.ep # None

(***************************************************************************)
(* Status updates of a long reconciliation and of its successors never     *)
(* take Initialized back, and never return the TenantControlPlane to an    *)
(* older spec.                                                             *)
(***************************************************************************)
NoStepBack ==
    [][/\ scp.init /\ scp'.exists => scp'.init
       /\ \A l \in Locations : tcp'[l].state # "none" => tcp'[l].gen >= tcp[l].gen]_vars

\* Unpausing the Cluster enqueues nothing.  What follows is about Clusters that are
\* not paused; TenantControlPlaneSync has the end of a pause.
NeverPaused == "paused" \notin Disturbances

\* Nothing keeps Reconcile from working on the object.
Workable ==
    /\ scp.exists /\ scp.owned
    /\ cluster.exists /\ ~cluster.paused
    /\ scp.loc \in reachable \cup {Local}

\* The worker has nothing to do, and the cache has seen every write.
AtRest == pc = "idle" /\ ~queue /\ Current

(***************************************************************************)
(* Reconcile comes to rest only when everything is done: the current spec  *)
(* is in the TenantControlPlane at the current location, the endpoint is   *)
(* the one that Steward reports there now, Ready says whether the control  *)
(* plane is, and the kubeconfig and the CA are from there, except for a CA *)
(* that Steward keeps itself.  Neither a reconciliation that had read      *)
(* something older, nor a failed call, a restart or a remote cluster that  *)
(* was out of reach when something changed there uses up the last event.   *)
(* This does not extend to the infrastructure cluster, which nothing       *)
(* watches: InfraFollows of TenantControlPlaneSync has that.               *)
(***************************************************************************)
NothingLeftUndone ==
    NeverPaused /\ AtRest /\ Workable /\ ~scp.del =>
       LET tenant == tcp[scp.loc]
       IN /\ tenant.state = "live"
          /\ tenant.gen = scp.gen
          /\ tenant.status.ver # "nil"
          /\ scp.ready <=> tenant.status.ver \in {"Ready", "Upgrading"}
          /\ scp.ep = tenant.status.ep
          /\ secrets.kubeconfig = scp.loc
          /\ secrets.ca \in {scp.loc, Steward}

-----------------------------------------------------------------------------
(***************************************************************************)
(* Liveness.                                                               *)
(***************************************************************************)

(***************************************************************************)
(* The current spec reaches the TenantControlPlane.                        *)
(***************************************************************************)
SpecApplied ==
    NeverPaused =>
       (<>[](Workable /\ ~scp.del) => <>[](tcp[scp.loc].gen = scp.gen))

\* Steward is done with the TenantControlPlane, the Cluster with the endpoint.
Provisioned ==
    /\ Workable /\ ~scp.del
    /\ cluster.ep # None /\ infra.ready
    /\ tcp[scp.loc].status.ep # None
    /\ tcp[scp.loc].status.issued = {"kubeconfig", "ca"}
    /\ ~PatchClusterRefused(tcp[scp.loc].status.ep)

(***************************************************************************)
(* What Steward reports in the end is what the StewardControlPlane shows   *)
(* in the end: its endpoint, readiness or the loss of it, and a kubeconfig *)
(* for the location it refers to.  This takes no resync.                   *)
(***************************************************************************)
StatusFollows ==
    NeverPaused =>
       \A e \in Endpoints :
          LET Settled(v) ==
                 /\ Provisioned
                 /\ tcp[scp.loc].status.ep = e
                 /\ tcp[scp.loc].status.ver = v
          IN /\ <>[]Settled("Ready")
                  => <>[](/\ scp.ready
                          /\ scp.ep = e
                          /\ secrets.kubeconfig = scp.loc)
             /\ <>[]Settled("NotReady") => <>[]~scp.ready

(***************************************************************************)
(* A deleted StewardControlPlane takes the remote TenantControlPlane it    *)
(* refers to along.                                                        *)
(***************************************************************************)
RemoteTCPDeleted ==
    NeverPaused =>
       (<>[](cluster.exists /\ Targets \subseteq reachable) =>
          \A t \in Targets :
             (scp.del /\ scp.loc = t) ~> (tcp[t].state # "live" \/ scp.loc # t))

-----------------------------------------------------------------------------
(***************************************************************************)
(* Statements of the code and of the docs that the model refutes.          *)
(***************************************************************************)

(***************************************************************************)
(* handleDeletion finds that the "remote TenantControlPlane is already     *)
(* deleted": then nothing holds the StewardControlPlane any more, and it   *)
(* goes.                                                                   *)
(***************************************************************************)
DeletionCompletes ==
    NeverPaused => (<>[](cluster.exists /\ Targets \subseteq reachable) =>
       (scp.del ~> ~scp.exists))

(***************************************************************************)
(* Reconcile, on handleDeletion: "in case of ExternalClusterReference the  *)
(* remote TCP must be deleted".  A StewardControlPlane that is gone leaves *)
(* no remote TenantControlPlane behind.                                    *)
(***************************************************************************)
NoOrphanedTCP == ~scp.exists => \A t \in Targets : tcp[t].state # "live"
=============================================================================
