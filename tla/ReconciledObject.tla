-------------------------- MODULE ReconciledObject --------------------------
(***************************************************************************)
(* The StewardControlPlane as Reconcile holds it in memory: its status     *)
(* conditions and its finalizers.                                          *)
(*                                                                         *)
(* Reconcile takes the slice of conditions out of the object it has read   *)
(* (`conditions := scp.Status.Conditions`), TrackConditionType records in  *)
(* it how each step went, and a deferred update writes it back.  The slice *)
(* and the object share one array: a condition the list has already is     *)
(* changed in place, and the client decodes the API server's answer to     *)
(* Patch into that same array.  Sharing ends when a condition is appended  *)
(* (the slice has no spare capacity) and when the object is read again     *)
(* from the cache (the client hands out a new copy).                       *)
(*                                                                         *)
(* Every list is in the order of Reconcile's steps and has no gaps         *)
(* (InitialSegment), so that the answer's i-th condition, decoded into the *)
(* i-th element, has that element's type: a list is a function on types.   *)
(* One worker; the object is neither deleted nor moved here, which         *)
(* StewardControlPlane is about, and what makes a step fail there is       *)
(* `problem` here.  As there, an update after a Get is accepted if the     *)
(* cached object is the current one, and objects are compared by value.    *)
(***************************************************************************)
EXTENDS Naturals

CONSTANTS
    External,       \* the object has an ExternalClusterReference
    PatchesInfra,   \* the gate SkipInfraClusterPatch is off
    Problems,       \* bound: what may keep Reconcile from getting through
    MaxAddress,     \* bound: addresses the TenantControlPlane gets
    MaxChanges,     \* bound: changes of the problem, resyncs
    MaxFaults       \* bound: failed calls and restarts

ASSUME ROAssumption ==
    /\ External \in BOOLEAN
    /\ PatchesInfra \in BOOLEAN
    /\ Problems \subseteq {"Found", "Created", "Patched", "ClusterRemoved", "Infra",
                           "Cluster", "Resources", "Ready"}
    /\ MaxAddress \in Nat
    /\ MaxChanges \in Nat
    /\ MaxFaults \in Nat

(***************************************************************************)
(* Condition types, named after the step they are about, in the order in   *)
(* which Reconcile tracks them.                                            *)
(***************************************************************************)
Types ==
    {"Found", "Created", "Address", "Patched", "Infra", "Initialized", "Resources", "Ready"}

Position ==
    [Found |-> 1, Created |-> 2, Address |-> 3, Patched |-> 4, Infra |-> 5,
     Initialized |-> 6, Resources |-> 7, Ready |-> 8]

Tracked ==
    Types \ ((IF External THEN {} ELSE {"Found"}) \cup (IF PatchesInfra THEN {} ELSE {"Infra"}))

\* A condition by its reason: True with Succeeded, False with the other two.
Conditions == [Types -> {"absent", "Succeeded", "Failed", "Pending"}]

Empty == [c \in Types |-> "absent"]

Object ==
    [ep : Nat, init : BOOLEAN, ready : BOOLEAN, own : BOOLEAN, others : BOOLEAN,
     conds : Conditions]

VARIABLES
    obj,        \* the StewardControlPlane on the API server
    view,       \* the StewardControlPlane in the cache
    address,    \* endpoint in the TenantControlPlane's status, 0 for none
    problem,    \* what is wrong around Reconcile, if anything
    queue,      \* the object is in the work queue
    pc,         \* where Reconcile is
    copy,       \* what Reconcile uses of its copy of the object
    array,      \* the list of conditions that is going to be saved
    shared,     \* the copy's own list is in the same array
    found,      \* history: how each step of this reconciliation went
    requeue,    \* Reconcile is going to ask for another round
    changes,    \* changes so far
    faults      \* faults so far

world  == <<obj, view, address, problem>>
worker == <<pc, copy, array, shared, found, requeue>>
vars   == <<world, queue, worker, changes, faults>>

\* Status.Initialized and finalizers; endpoint and readiness of the
\* TenantControlPlane as Reconcile got it.
Copied == [init : BOOLEAN, own : BOOLEAN, others : BOOLEAN, ep : Nat, ready : BOOLEAN]

Copy(object, ep, ready) ==
    [init |-> object.init, own |-> object.own, others |-> object.others,
     ep |-> ep, ready |-> ready]

NoObject ==
    [ep |-> 0, init |-> FALSE, ready |-> FALSE, own |-> FALSE, others |-> FALSE,
     conds |-> Empty]

NoCopy == Copy(NoObject, 0, FALSE)

TypeOK ==
    /\ obj \in Object
    /\ view \in Object
    /\ address \in Nat
    /\ problem \in Problems \cup {"none"}
    /\ queue \in BOOLEAN
    /\ pc \in {"idle", "found", "finalizer", "created", "patched", "cluster", "infra",
               "wait", "init", "replicas", "initAgain", "resources", "ready", "save"}
    /\ copy \in Copied
    /\ array \in Conditions
    /\ shared \in BOOLEAN
    /\ found \in Conditions
    /\ requeue \in BOOLEAN
    /\ changes \in Nat
    /\ faults \in Nat

\* The object has just been created, and its owner set.
Init ==
    /\ obj = NoObject
    /\ view = NoObject
    /\ address = 0
    /\ problem \in Problems \cup {"none"}
    /\ queue = TRUE
    /\ pc = "idle"
    /\ copy = NoCopy
    /\ array = Empty
    /\ shared = FALSE
    /\ found = Empty
    /\ requeue = FALSE
    /\ changes = 0
    /\ faults = 0

-----------------------------------------------------------------------------
(***************************************************************************)
(* TrackConditionType, and what decoding an answer does to a shared array. *)
(***************************************************************************)

Has(list, c) == list[c] # "absent"

\* meta.FindStatusCondition, the step, meta.SetStatusCondition.
TrackConditionType(c, reason) ==
    /\ array' = [array EXCEPT ![c] = reason]
    /\ found' = [found EXCEPT ![c] = reason]

\* A condition that is not in the list yet is appended to a new array.
StillShared(c) == shared /\ Has(array, c)

\* The elements the list has in common with the answer take its values.
Decoded(list, answer) ==
    [c \in Types |-> IF Has(list, c) /\ Has(answer, c) THEN answer[c] ELSE list[c]]

\* TrackConditionType around the Patch: the answer is decoded before the reason is set.
TrackPatched ==
    LET list == IF shared THEN Decoded(array, obj.conds) ELSE array
    IN /\ array' = [list EXCEPT !["Patched"] = "Succeeded"]
       /\ found' = [found EXCEPT !["Patched"] = "Succeeded"]

-----------------------------------------------------------------------------
(***************************************************************************)
(* Calls on the API server.                                                *)
(***************************************************************************)

Current == view = obj

\* updateStewardControlPlaneStatus: Get, modify, Status().Update.
UpdateAccepted(modified) == Current /\ obj' = modified /\ UNCHANGED faults

\* A call fails.
Fault == faults < MaxFaults /\ faults' = faults + 1 /\ UNCHANGED obj

\* Every retry met a conflict, or a call failed.
UpdateRefused == (~Current /\ UNCHANGED <<obj, faults>>) \/ Fault

\* Reconcile returns; its deferred function saves the conditions first.
Return(again) == pc' = "save" /\ requeue' = again

-----------------------------------------------------------------------------
(***************************************************************************)
(* Reconcile.                                                              *)
(***************************************************************************)

\* Reconcile reads the object and its Cluster, and takes the conditions out.
Begin ==
    /\ pc = "idle"
    /\ queue
    /\ queue' = FALSE
    /\ IF problem = "ClusterRemoved"
         THEN UNCHANGED worker
         ELSE /\ pc' = IF External THEN "found" ELSE "created"
              /\ copy' = Copy(view, 0, FALSE)
              /\ array' = view.conds
              /\ shared' = (view.conds # Empty)
              /\ UNCHANGED <<found, requeue>>
    /\ UNCHANGED <<world, changes, faults>>

\* Mutant: the finalizer is written in every reconciliation.
OwnFinalizerUnknown == FALSE

HasFinalizer == copy.own

FindExternalClusterReference ==
    /\ pc = "found"
    /\ IF problem = "Found"
         THEN TrackConditionType("Found", "Pending") /\ Return(TRUE)
         ELSE /\ TrackConditionType("Found", "Succeeded")
              /\ pc' = IF HasFinalizer THEN "created" ELSE "finalizer"
              /\ UNCHANGED requeue
    /\ shared' = StillShared("Found")
    /\ UNCHANGED <<world, queue, copy, changes, faults>>

(***************************************************************************)
(* The finalizers of the copy and the controller's own, written over those *)
(* of the object that is read again.                                       *)
(***************************************************************************)
HandleFinalizer ==
    /\ pc = "finalizer"
    /\ \/ /\ UpdateAccepted([obj EXCEPT !.own = TRUE, !.others = copy.others])
          /\ copy' = Copy(obj', 0, FALSE)
          /\ pc' = "created"
          /\ UNCHANGED requeue
       \/ UpdateRefused /\ Return(TRUE) /\ UNCHANGED copy
    /\ shared' = FALSE
    /\ UNCHANGED <<view, address, problem, queue, array, found, changes>>

\* The TenantControlPlane, and whether it has an address: two conditions in a row.
CreateTenantControlPlane ==
    LET Both(reason) ==
          LET tracked(list) == [list EXCEPT !["Created"] = "Succeeded", !["Address"] = reason]
          IN array' = tracked(array) /\ found' = tracked(found)
    IN /\ pc = "created"
       /\ \/ /\ problem = "Created"
             /\ TrackConditionType("Created", "Pending") /\ Return(TRUE)
             /\ shared' = StillShared("Created")
             /\ UNCHANGED copy
          \/ /\ problem # "Created" /\ address = 0
             /\ Both("Pending") /\ Return(TRUE)
             /\ shared' = (StillShared("Created") /\ Has(array, "Address"))
             /\ UNCHANGED copy
          \/ /\ problem # "Created" /\ address # 0
             /\ Both("Succeeded")
             /\ shared' = (StillShared("Created") /\ Has(array, "Address"))
             /\ copy' = [copy EXCEPT !.ep = address, !.ready = (problem # "Ready")]
             /\ pc' = "patched"
             /\ UNCHANGED requeue
       /\ UNCHANGED <<world, queue, changes, faults>>

PatchControlPlaneEndpoint ==
    /\ pc = "patched"
    /\ \/ /\ problem # "Patched"
          /\ obj' = [obj EXCEPT !.ep = copy.ep]
          /\ TrackPatched
          /\ copy' = Copy(obj', copy.ep, copy.ready)
          /\ pc' = "cluster"
          /\ UNCHANGED <<requeue, faults>>
       \/ /\ (problem = "Patched" /\ UNCHANGED <<obj, faults>>) \/ Fault
          /\ TrackConditionType("Patched", "Pending") /\ Return(TRUE)
          /\ UNCHANGED copy
    /\ shared' = StillShared("Patched")
    /\ UNCHANGED <<view, address, problem, queue, changes>>

\* The Cluster is read again; without it Reconcile withdraws.
GetClusterAgain ==
    /\ pc = "cluster"
    /\ \/ problem = "ClusterRemoved" /\ Return(FALSE) /\ UNCHANGED faults
       \/ /\ problem # "ClusterRemoved"
          /\ pc' = IF PatchesInfra THEN "infra" ELSE "wait"
          /\ UNCHANGED <<requeue, faults>>
       \/ Fault /\ Return(TRUE)
    /\ UNCHANGED <<world, queue, copy, array, shared, found, changes>>

PatchCluster ==
    /\ pc = "infra"
    /\ IF problem = "Infra"
         THEN TrackConditionType("Infra", "Pending") /\ Return(TRUE)
         ELSE TrackConditionType("Infra", "Succeeded") /\ pc' = "wait" /\ UNCHANGED requeue
    /\ shared' = StillShared("Infra")
    /\ UNCHANGED <<world, queue, copy, changes, faults>>

(***************************************************************************)
(* The Cluster's endpoint and infrastructure and the TenantControlPlane's  *)
(* version are waited for, without a condition of their own.               *)
(***************************************************************************)
WaitForCluster ==
    /\ pc = "wait"
    /\ \/ /\ problem = "Cluster" \/ (~copy.ready /\ ~copy.init)
          /\ Return(TRUE)
       \/ /\ problem # "Cluster" /\ (copy.ready \/ copy.init)
          /\ pc' = IF copy.init THEN "replicas" ELSE "init"
          /\ UNCHANGED requeue
    /\ UNCHANGED <<world, queue, copy, array, shared, found, changes, faults>>

\* Each status update reads the object into the copy, then decodes the answer into it.
Reread ==
    /\ copy' = Copy(IF Current THEN obj' ELSE view, copy.ep, copy.ready)
    /\ shared' = FALSE

SetInitialized ==
    /\ pc = "init"
    /\ \/ /\ UpdateAccepted([obj EXCEPT !.init = TRUE])
          /\ TrackConditionType("Initialized", "Succeeded")
          /\ pc' = "replicas"
          /\ UNCHANGED requeue
       \/ /\ UpdateRefused
          /\ TrackConditionType("Initialized", "Pending") /\ Return(TRUE)
    /\ Reread
    /\ UNCHANGED <<view, address, problem, queue, changes>>

ReportReplicas ==
    /\ pc = "replicas"
    /\ \/ /\ UpdateAccepted(obj)
          /\ TrackConditionType("Initialized", "Succeeded")
          /\ pc' = "initAgain"
          /\ UNCHANGED requeue
       \/ /\ UpdateRefused
          /\ TrackConditionType("Initialized", "Pending") /\ Return(TRUE)
    /\ Reread
    /\ UNCHANGED <<view, address, problem, queue, changes>>

\* The error of this update is tracked, and Reconcile goes on.
SetInitializedAgain ==
    /\ pc = "initAgain"
    /\ \/ /\ UpdateAccepted([obj EXCEPT !.init = TRUE])
          /\ TrackConditionType("Initialized", "Succeeded")
       \/ /\ UpdateRefused
          /\ TrackConditionType("Initialized", "Pending")
    /\ pc' = "resources"
    /\ Reread
    /\ UNCHANGED <<view, address, problem, queue, requeue, changes>>

\* createRequiredResources waits for Steward (ErrEnqueueBack) or fails.
CreateRequiredResources ==
    /\ pc = "resources"
    /\ \/ /\ problem = "Resources"
          /\ \E reason \in {"Failed", "Pending"} : TrackConditionType("Resources", reason)
          /\ Return(TRUE)
       \/ /\ problem # "Resources"
          /\ TrackConditionType("Resources", "Succeeded")
          /\ pc' = "ready"
          /\ UNCHANGED requeue
    /\ shared' = StillShared("Resources")
    /\ UNCHANGED <<world, queue, copy, changes, faults>>

\* A control plane that is not ready is an error to TrackConditionType only.
SetReady ==
    /\ pc = "ready"
    /\ \/ /\ UpdateAccepted([obj EXCEPT !.ready = copy.ready])
          /\ TrackConditionType("Ready", IF copy.ready THEN "Succeeded" ELSE "Failed")
          /\ Return(FALSE)
       \/ /\ UpdateRefused
          /\ TrackConditionType("Ready", "Pending") /\ Return(TRUE)
    /\ Reread
    /\ UNCHANGED <<view, address, problem, queue, changes>>

\* Mutant: the conditions of the object that was just read are kept.
SavedConditionsRead == view.conds

\* Mutant: only the conditions that are not met are saved.
SavedConditionsUnmet == [c \in Types |-> IF array[c] = "Succeeded" THEN "absent" ELSE array[c]]

\* Mutant: only conditions the object does not have yet are saved.
SavedConditionsNew == [c \in Types |-> IF Has(view.conds, c) THEN view.conds[c] ELSE array[c]]

SavedConditions == array

(***************************************************************************)
(* The deferred update, whose error is only logged; then the worker puts   *)
(* the object back into the queue if Reconcile has asked for it.           *)
(***************************************************************************)
SaveConditions ==
    /\ pc = "save"
    /\ UpdateAccepted([obj EXCEPT !.conds = SavedConditions]) \/ UpdateRefused
    /\ pc' = "idle"
    /\ queue' = (queue \/ requeue)
    /\ copy' = NoCopy
    /\ array' = Empty
    /\ found' = Empty
    /\ shared' = FALSE
    /\ requeue' = FALSE
    /\ UNCHANGED <<view, address, problem, changes>>

-----------------------------------------------------------------------------
(***************************************************************************)
(* The cache, the process, and everybody else.                             *)
(***************************************************************************)

CacheSync ==
    /\ view # obj
    /\ view' = obj
    /\ queue' = TRUE
    /\ UNCHANGED <<obj, address, problem, worker, changes, faults>>

Resync ==
    /\ ~queue
    /\ changes < MaxChanges
    /\ changes' = changes + 1
    /\ queue' = TRUE
    /\ UNCHANGED <<world, worker, faults>>

Restart ==
    /\ faults < MaxFaults
    /\ faults' = faults + 1
    /\ view' = obj
    /\ queue' = TRUE
    /\ pc' = "idle"
    /\ copy' = NoCopy
    /\ array' = Empty
    /\ found' = Empty
    /\ shared' = FALSE
    /\ requeue' = FALSE
    /\ UNCHANGED <<obj, address, problem, changes>>

\* Steward reports an address; the TenantControlPlane is watched.
AddressChanges ==
    /\ address < MaxAddress
    /\ address' = address + 1
    /\ queue' = TRUE
    /\ UNCHANGED <<obj, view, problem, worker, changes, faults>>

\* Of the problems, only what Steward reports is watched.  A Cluster that has been
\* removed does not come back.
ProblemChanges(p) ==
    /\ p # problem
    /\ problem # "ClusterRemoved"
    /\ changes < MaxChanges
    /\ changes' = changes + 1
    /\ problem' = p
    /\ queue' = (queue \/ "Ready" \in {p, problem})
    /\ UNCHANGED <<obj, view, address, worker, faults>>

\* Another controller wants its finalizer on the object.
OthersFinalize ==
    /\ ~obj.others
    /\ obj' = [obj EXCEPT !.others = TRUE]
    /\ UNCHANGED <<view, address, problem, queue, worker, changes, faults>>

-----------------------------------------------------------------------------
Step ==
    \/ FindExternalClusterReference \/ HandleFinalizer \/ CreateTenantControlPlane
    \/ PatchControlPlaneEndpoint \/ GetClusterAgain \/ PatchCluster \/ WaitForCluster
    \/ SetInitialized \/ ReportReplicas \/ SetInitializedAgain
    \/ CreateRequiredResources \/ SetReady \/ SaveConditions

Others ==
    \/ CacheSync \/ Resync \/ Restart
    \/ AddressChanges \/ OthersFinalize
    \/ \E p \in Problems \cup {"none"} : ProblemChanges(p)

Next == Begin \/ Step \/ Others

Spec == Init /\ [][Next]_vars

\* The worker, the informer and the other controller keep running.
FairSpec ==
    /\ Spec
    /\ WF_vars(Begin) /\ WF_vars(Step) /\ WF_vars(CacheSync) /\ WF_vars(OthersFinalize)

-----------------------------------------------------------------------------
(***************************************************************************)
(* Safety.                                                                 *)
(***************************************************************************)

(***************************************************************************)
(* Every list of conditions, on the API server, in the cache or in memory, *)
(* holds the first so many types in the order of Reconcile's steps,        *)
(* whichever steps failed and whichever updates were lost: decoding one    *)
(* list into the array of another never gives a type to the wrong element. *)
(***************************************************************************)
NoGaps(list) ==
    \A c, d \in Tracked : Position[c] < Position[d] /\ Has(list, d) => Has(list, c)

InitialSegment == NoGaps(obj.conds) /\ NoGaps(view.conds) /\ NoGaps(array)

\* The deferred update reaches the API server.
Saved == pc = "save" /\ pc' = "idle" /\ Current /\ faults' = faults

(***************************************************************************)
(* From the endpoint patch on, the saved conditions tell how the steps of  *)
(* this reconciliation went, though the object is read again and written   *)
(* several times between the step and the deferred update.                 *)
(***************************************************************************)
LaterConditionsTold ==
    [][Saved => \A c \in Types :
         Has(found, c) /\ Position[c] >= Position["Patched"] =>
            obj'.conds[c] = found[c]]_vars

-----------------------------------------------------------------------------
(***************************************************************************)
(* Liveness.                                                               *)
(***************************************************************************)

\* From some time on the cache has the last write before Reconcile begins again.
CacheKeepsUp == <>[][pc = "idle" /\ pc' # "idle" => Current]_vars

(***************************************************************************)
(* When the obstacles are gone for good, the conditions of the later steps *)
(* say so in the end, and so does Status.Ready; when the control plane is  *)
(* not ready for good, both say that.  The deferred update may be refused, *)
(* which is only logged: after a conflict the event of the newer object    *)
(* brings Reconcile back (after another error nothing does, so there are   *)
(* none here), and the conditions it writes must not keep that going.      *)
(* A reconciliation that begins with a stale object does keep it going: it *)
(* writes the conditions it has read over newer ones, which is an event    *)
(* that begins the next one; hence CacheKeepsUp.                           *)
(***************************************************************************)
ConditionsFollow ==
    [](faults = 0) /\ CacheKeepsUp =>
       /\ <>[](problem = "none" /\ address # 0) =>
             <>[](/\ obj.ready
                  /\ \A c \in Tracked : Position[c] >= Position["Patched"] =>
                        obj.conds[c] = "Succeeded")
       /\ <>[](problem = "Ready" /\ address # 0) =>
             <>[](~obj.ready /\ obj.conds["Ready"] \in {"absent", "Failed"})

(***************************************************************************)
(* handleFinalizer writes a set of finalizers it has read earlier, and may *)
(* drop the finalizer of another controller.  That ends: once the          *)
(* controller's own finalizer is in the cache, the other one stays.        *)
(***************************************************************************)
OtherFinalizerStays == <>[]obj.others

-----------------------------------------------------------------------------
(***************************************************************************)
(* A statement of the code that the model refutes.                         *)
(***************************************************************************)

(***************************************************************************)
(* "Extracting conditions, used to update the StewardControlPlane ones     *)
(* upon the end of the reconciliation": what is saved is what each tracked *)
(* step of this reconciliation has reported.                               *)
(***************************************************************************)
ConditionsTold ==
    [][Saved => \A c \in Types : Has(found, c) => obj'.conds[c] = found[c]]_vars
=============================================================================
