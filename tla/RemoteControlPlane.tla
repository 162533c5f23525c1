------------------------- MODULE RemoteControlPlane -------------------------
(***************************************************************************)
(* ExternalClusterReference together with those its managers are for: the  *)
(* PushStewardChange controller that each manager runs on the remote       *)
(* cluster, and the StewardControlPlane reconciler, which takes a client   *)
(* out of the store and reads the remote TenantControlPlane from that      *)
(* manager's cache.                                                        *)
(*                                                                         *)
(* Nothing on the management cluster changes when Steward reports on a     *)
(* remote TenantControlPlane: the StewardControlPlane is only reconciled   *)
(* because PushStewardChange sends it through the trigger channel.  Both   *)
(* sides go through managers that are replaced when their Secret changes,  *)
(* and a reconciliation may still hold the client of one that has stopped. *)
(*                                                                         *)
(* Every StewardControlPlane refers to one kubeconfig entry throughout,    *)
(* and all kubeconfigs are for one remote cluster: changes of the          *)
(* reference are in ExternalClusterReference, moves between clusters,      *)
(* deletion and the rest of that reconciliation in StewardControlPlane.    *)
(***************************************************************************)
EXTENDS ExternalClusterReference

CONSTANTS
    MaxReports  \* bound: reports of Steward on a TenantControlPlane

ASSUME RCPAssumption == MaxReports \in Nat

VARIABLES
    tenant,     \* the remote TenantControlPlane of each StewardControlPlane
    seen,       \* what each manager's cache has of them
    changed,    \* requests in the queue of each manager's PushStewardChange
    triggered,  \* StewardControlPlanes in their controller's queue
    client,     \* the manager whose client a reconciliation uses
    shown       \* the report a StewardControlPlane's status shows

remoteVars == <<tenant, seen, changed, triggered, client, shown>>
allVars    == <<vars, remoteVars>>

\* A TenantControlPlane by the number of reports on it; no object, or no cache yet.
Absent == 0

Tenants == [SCPs -> Nat]

Nothing == [p \in SCPs |-> Absent]

OwnTypes ==
    /\ tenant \in Tenants
    /\ seen \in [Managers -> [synced : BOOLEAN, tenant : Tenants]]
    /\ changed \in [Managers -> SUBSET SCPs]
    /\ triggered \subseteq SCPs
    /\ client \in [SCPs -> Managers \cup {NoManager}]
    /\ shown \in Tenants

RemoteTypeOK == TypeOK /\ OwnTypes

NoCache == [synced |-> FALSE, tenant |-> Nothing]

RemoteInit ==
    /\ ref \in [SCPs -> Keys]
    /\ secret = [s \in Secrets |-> NoSecret]
    /\ revision = 0
    /\ queue = {}
    /\ store = [k \in Keys |-> NoInstance]
    /\ manager = [m \in Managers |-> NoGoroutine]
    /\ pc = "idle"
    /\ req = NoKey
    /\ snap = NoSecret
    /\ todo = {}
    /\ keys = {}
    /\ cur = NoKey
    /\ fresh = NoManager
    /\ faults = 0
    /\ tenant = Nothing
    /\ seen = [m \in Managers |-> NoCache]
    /\ changed = [m \in Managers |-> {}]
    /\ triggered = SCPs
    /\ client = [p \in SCPs |-> NoManager]
    /\ shown = Nothing

-----------------------------------------------------------------------------
(***************************************************************************)
(* A manager's informer and its PushStewardChange controller.              *)
(***************************************************************************)

\* Mutant: objects that are there when the informer starts are not handled.
ChangedSinceList(m) ==
    IF seen[m].synced THEN {p \in SCPs : tenant[p] # seen[m].tenant[p]} ELSE {}

\* The first list hands every object to the handlers, later events what changes.
Changed(m) == {p \in SCPs : tenant[p] # seen[m].tenant[p]}

InformerSync(m) ==
    /\ Live(m)
    /\ seen[m] # [synced |-> TRUE, tenant |-> tenant]
    /\ seen' = [seen EXCEPT ![m] = [synced |-> TRUE, tenant |-> tenant]]
    /\ changed' = [changed EXCEPT ![m] = @ \cup Changed(m)]
    /\ UNCHANGED <<vars, tenant, triggered, client, shown>>

\* PushStewardChange.Reconcile: an object that is gone is ignored; another one gives
\* the UID by which the StewardControlPlane is found and sent through TriggerChannel,
\* whose receiver runs for as long as the process does.
PushStewardChange(m, p) ==
    /\ manager[m].state = "running"
    /\ p \in changed[m]
    /\ changed' = [changed EXCEPT ![m] = @ \ {p}]
    /\ triggered' = IF seen[m].tenant[p] = Absent THEN triggered ELSE triggered \cup {p}
    /\ UNCHANGED <<vars, tenant, seen, client, shown>>

-----------------------------------------------------------------------------
(***************************************************************************)
(* The StewardControlPlane reconciler, as far as it uses the store.        *)
(***************************************************************************)

\* extractRemoteClient; its error puts the object back into the queue.
TakeClient(p) ==
    /\ p \in triggered
    /\ client[p] = NoManager
    /\ ExtractRemoteClient(ref[p])
    /\ client' = [client EXCEPT ![p] = store[ref[p]].mgr]
    /\ triggered' = triggered \ {p}
    /\ UNCHANGED <<vars, tenant, seen, changed, shown>>

(***************************************************************************)
(* createOrUpdateTenantControlPlane reads from the manager's cache, also   *)
(* when the manager has been stopped in the meantime.  An object that is   *)
(* not in the cache is created; then, as without a synced cache, when it   *)
(* exists already, and without a report, the object goes back into the     *)
(* queue.  Otherwise the rest of Reconcile shows what was read.            *)
(***************************************************************************)
UseClient(p) ==
    LET read == seen[client[p]]
    IN /\ client[p] # NoManager
       /\ \/ /\ read.synced /\ read.tenant[p] > 1
             /\ shown' = [shown EXCEPT ![p] = read.tenant[p]]
             /\ UNCHANGED <<tenant, triggered>>
          \/ /\ ~read.synced \/ read.tenant[p] <= 1
             /\ tenant' = IF read.synced /\ read.tenant[p] = Absent /\ tenant[p] = Absent
                            THEN [tenant EXCEPT ![p] = 1] ELSE tenant
             /\ triggered' = triggered \cup {p}
             /\ UNCHANGED shown
       /\ client' = [client EXCEPT ![p] = NoManager]
       /\ UNCHANGED <<vars, seen, changed>>

-----------------------------------------------------------------------------
(***************************************************************************)
(* Everybody else.                                                         *)
(***************************************************************************)

StewardReports(p) ==
    /\ tenant[p] # Absent
    /\ tenant[p] <= MaxReports
    /\ tenant' = [tenant EXCEPT ![p] = @ + 1]
    /\ UNCHANGED <<vars, seen, changed, triggered, client, shown>>

\* The identity is not in use by a reconciliation any more.
NewManager(m) ==
    /\ StartNewManager(m)
    /\ \A p \in SCPs : client[p] # m
    /\ seen' = [seen EXCEPT ![m] = NoCache]
    /\ UNCHANGED <<tenant, changed, triggered, client, shown>>

\* A manager that ends takes its controller along.  Its cache no longer changes, and
\* is forgotten if nobody can read it any more.
ManagerEnds(m) ==
    /\ \/ /\ StartReturnsNil(m)
          /\ seen' = IF \E p \in SCPs : client[p] = m THEN seen ELSE [seen EXCEPT ![m] = NoCache]
       \/ StartReturnsError(m) /\ UNCHANGED seen
    /\ changed' = [changed EXCEPT ![m] = {}]
    /\ UNCHANGED <<tenant, triggered, client, shown>>

RestartAll ==
    /\ Restart
    /\ seen' = [m \in Managers |-> NoCache]
    /\ changed' = [m \in Managers |-> {}]
    /\ client' = [p \in SCPs |-> NoManager]
    /\ triggered' = SCPs
    /\ UNCHANGED <<tenant, shown>>

\* Steps of ExternalClusterReference that are nothing to the others.
OwnStep ==
    /\ \/ \E s \in Secrets : SecretWritten(s) \/ SecretDeleted(s) \/ Resync(s) \/ Begin(s)
       \/ \E k \in Keys : ListReferences(k) \/ GetManager(k)
       \/ StopUnused \/ StopOutdated \/ RejectKubeconfig \/ AddManager \/ Finish
       \/ CallFails
       \/ \E m \in Managers : StopAfterFailure(m)
    /\ UNCHANGED remoteVars

RemoteNext ==
    \/ OwnStep
    \/ \E m \in Managers :
          NewManager(m) \/ ManagerEnds(m) \/ InformerSync(m)
    \/ \E m \in Managers, p \in SCPs : PushStewardChange(m, p)
    \/ \E p \in SCPs : TakeClient(p) \/ UseClient(p) \/ StewardReports(p)
    \/ RestartAll

RemoteSpec == RemoteInit /\ [][RemoteNext]_allVars

(***************************************************************************)
(* In addition to the fairness of ExternalClusterReference: the managers'  *)
(* informers and controllers run, the trigger channel has a receiver, and  *)
(* the StewardControlPlane worker keeps running, retries included.         *)
(***************************************************************************)
FairRemoteSpec ==
    /\ RemoteSpec
    /\ Fairness
    /\ \A m \in Managers : WF_allVars(InformerSync(m))
    /\ \A m \in Managers, p \in SCPs : WF_allVars(PushStewardChange(m, p))
    /\ \A p \in SCPs : SF_allVars(TakeClient(p)) /\ WF_allVars(UseClient(p))

-----------------------------------------------------------------------------
(***************************************************************************)
(* Safety.                                                                 *)
(***************************************************************************)

\* The StewardControlPlane has a client, and that of a manager which runs.
Connected(p) ==
    /\ ExtractRemoteClient(ref[p])
    /\ Live(store[ref[p]].mgr)

(***************************************************************************)
(* A StewardControlPlane that does not show what Steward has reported is   *)
(* going to be reconciled: a reconciliation holds a client or is due, or   *)
(* the manager that is in the store now has the change in its controller's *)
(* queue or has yet to see it.  A trigger spent on a client that had been  *)
(* replaced, and a report in the cache of a stopped manager, would leave   *)
(* nothing behind.                                                         *)
(***************************************************************************)
NoReportLost ==
    \A p \in SCPs :
       Connected(p) /\ shown[p] # tenant[p] =>
          LET m == store[ref[p]].mgr
          IN \/ client[p] # NoManager
             \/ p \in triggered
             \/ p \in changed[m]
             \/ seen[m].tenant[p] # tenant[p]

-----------------------------------------------------------------------------
(***************************************************************************)
(* Liveness.                                                               *)
(***************************************************************************)

(***************************************************************************)
(* What Steward reports on the remote cluster in the end is what the       *)
(* StewardControlPlane shows in the end: no report is lost between a       *)
(* manager and its successor, none of a stopped manager's cache stays, and *)
(* a trigger that comes before the store has the manager is not wasted.    *)
(***************************************************************************)
ReportShown ==
    \A p \in SCPs :
       <>[](Connected(p) /\ tenant[p] > 1) => <>[](shown[p] = tenant[p])
=============================================================================
