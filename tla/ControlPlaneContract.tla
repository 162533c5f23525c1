------------------------ MODULE ControlPlaneContract ------------------------
(***************************************************************************)
(* What a StewardControlPlane promises to those who look at it: Cluster    *)
(* API, which waits for the endpoint, for Initialized and for Ready, reads *)
(* the kubeconfig and CA Secrets and deletes the object; and the owner of  *)
(* the remote cluster, on which nothing may be left over.                  *)
(*                                                                         *)
(* No caches, queues, retries or reconciliations: a promise is kept        *)
(* whatever they do.  StewardControlPlane implements this specification    *)
(* (ControlPlaneRefinement).                                               *)
(***************************************************************************)
CONSTANTS
    Endpoints,  \* addresses of the control plane
    None,       \* no endpoint yet
    Targets     \* remote clusters

VARIABLES
    phase,          \* of the object: present, deleting, gone
    guarded,        \* the object has the controller's finalizer
    endpoint,       \* spec.controlPlaneEndpoint
    initialized,    \* status.initialized
    ready,          \* status.ready
    usable,         \* the kubeconfig and the CA are there for Cluster API
    tenant          \* the TenantControlPlane on each remote cluster

object == <<phase, guarded, endpoint, initialized, ready>>
vars   == <<object, usable, tenant>>

Init ==
    /\ phase = "present"
    /\ ~guarded
    /\ endpoint = None
    /\ ~initialized
    /\ ~ready
    /\ ~usable
    /\ tenant = [t \in Targets |-> "none"]

-----------------------------------------------------------------------------
(***************************************************************************)
(* Towards Cluster API.                                                    *)
(***************************************************************************)

\* The endpoint may change, and is never taken back.
Announce(e) ==
    /\ phase # "gone"
    /\ endpoint' = e
    /\ UNCHANGED <<phase, guarded, initialized, ready, usable, tenant>>

\* Worker nodes may join: there is an endpoint.  This is final.
Initialize ==
    /\ phase # "gone"
    /\ endpoint # None
    /\ initialized' = TRUE
    /\ UNCHANGED <<phase, guarded, endpoint, ready, usable, tenant>>

\* The Secrets follow; a reconciliation that outlives the object may still write them.
Publish ==
    /\ initialized \/ phase = "gone"
    /\ usable' = TRUE
    /\ UNCHANGED <<object, tenant>>

\* Ready comes last, when Cluster API has all it needs, and may be lost.
ChangeReady ==
    /\ phase # "gone"
    /\ ready' = ~ready
    /\ ready' => initialized /\ usable
    /\ UNCHANGED <<phase, guarded, endpoint, initialized, usable, tenant>>

-----------------------------------------------------------------------------
(***************************************************************************)
(* Towards the remote cluster.                                             *)
(***************************************************************************)

Guard ==
    /\ phase = "present"
    /\ guarded' = TRUE
    /\ UNCHANGED <<phase, endpoint, initialized, ready, usable, tenant>>

\* Nothing is created that the finalizer does not guard.
Provision(t) ==
    /\ guarded
    /\ tenant[t] = "none"
    /\ tenant' = [tenant EXCEPT ![t] = "live"]
    /\ UNCHANGED <<object, usable>>

\* Only the deletion of the object takes the control plane down.
Retire(t) ==
    /\ phase = "deleting"
    /\ tenant[t] = "live"
    /\ tenant' = [tenant EXCEPT ![t] = "deleting"]
    /\ UNCHANGED <<object, usable>>

Finished(t) ==
    /\ tenant[t] = "deleting"
    /\ tenant' = [tenant EXCEPT ![t] = "none"]
    /\ UNCHANGED <<object, usable>>

-----------------------------------------------------------------------------
(***************************************************************************)
(* The end of the object.                                                  *)
(***************************************************************************)

Gone ==
    /\ phase' = "gone"
    /\ guarded' = FALSE
    /\ endpoint' = None
    /\ initialized' = FALSE
    /\ ready' = FALSE

Delete ==
    /\ phase = "present"
    /\ \/ guarded /\ phase' = "deleting" /\ UNCHANGED <<guarded, endpoint, initialized, ready>>
       \/ ~guarded /\ Gone
    /\ UNCHANGED <<usable, tenant>>

\* The finalizer goes after the remote control planes.
Release ==
    /\ phase = "deleting"
    /\ \A t \in Targets : tenant[t] # "live"
    /\ Gone
    /\ UNCHANGED <<usable, tenant>>

Collect ==
    /\ phase = "gone"
    /\ usable' = FALSE
    /\ UNCHANGED <<object, tenant>>

-----------------------------------------------------------------------------
Next ==
    \/ \E e \in Endpoints : Announce(e)
    \/ Initialize \/ Publish \/ ChangeReady
    \/ Guard \/ Delete \/ Release \/ Collect
    \/ \E t \in Targets : Provision(t) \/ Retire(t) \/ Finished(t)

Spec == Init /\ [][Next]_vars
=============================================================================
