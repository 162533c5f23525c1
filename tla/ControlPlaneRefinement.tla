----------------------- MODULE ControlPlaneRefinement -----------------------
(***************************************************************************)
(* StewardControlPlane as an implementation of ControlPlaneContract: what  *)
(* of its state is visible outside.                                        *)
(***************************************************************************)
EXTENDS StewardControlPlane

Phase == IF ~scp.exists THEN "gone" ELSE IF scp.del THEN "deleting" ELSE "present"

Contract ==
    INSTANCE ControlPlaneContract WITH
        phase       <- Phase,
        guarded     <- scp.fin,
        endpoint    <- scp.ep,
        initialized <- scp.init,
        ready       <- scp.ready,
        usable      <- secrets.kubeconfig # None /\ secrets.ca # None,
        tenant      <- [t \in Targets |-> tcp[t].state]

(***************************************************************************)
(* While the reference does not change, every step Reconcile takes, with   *)
(* its stale reads, refused updates, failures and restarts, looks from     *)
(* outside like a step the contract allows: an endpoint and Initialized    *)
(* are never withdrawn, the Secrets come after Initialized and Ready after *)
(* the Secrets, a remote TenantControlPlane is created under the finalizer *)
(* and the finalizer removed after it, and nothing but the deletion of the *)
(* StewardControlPlane takes it down.                                      *)
(***************************************************************************)
KeepsContract == Contract!Spec
=============================================================================
