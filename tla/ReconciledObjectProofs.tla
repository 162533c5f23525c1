----------------------- MODULE ReconciledObjectProofs -----------------------
(***************************************************************************)
(* Proofs about ReconciledObject, with and without an external cluster     *)
(* reference, with and without the patch of the infrastructure cluster,    *)
(* whatever the problems and for any number of changes and faults.         *)
(***************************************************************************)
EXTENDS ReconciledObject, TLAPS

(***************************************************************************)
(* Why no list of conditions has a gap.  A step only tracks its condition  *)
(* after the steps before it have tracked theirs in the list Reconcile     *)
(* holds: before the step at which Reconcile stands, every condition with  *)
(* a smaller position than Reached is in the list.  Decoding an answer     *)
(* changes values, never which conditions there are.                       *)
(***************************************************************************)
Reached ==
    [found |-> 1, finalizer |-> 2, created |-> 2, patched |-> 4, cluster |-> 5,
     infra |-> 5, wait |-> 6, init |-> 6, replicas |-> 6, initAgain |-> 7,
     resources |-> 7, ready |-> 8]

Before(list, n) == \A c \in Tracked : Position[c] < n => Has(list, c)

TrackedSoFar == pc \notin {"idle", "save"} => Before(array, Reached[pc])

SegmentInv == TypeOK /\ InitialSegment /\ TrackedSoFar

(***************************************************************************)
(* Why the later conditions are told.  Only the answer to the endpoint     *)
(* patch is decoded into the list that is going to be saved, and at that   *)
(* time nothing from the endpoint patch on has been tracked.               *)
(***************************************************************************)
Later == {c \in Types : Position[c] >= Position["Patched"]}

ToldInv ==
    /\ TypeOK
    /\ \A c \in Later : Has(found, c) => array[c] = found[c]
    /\ pc \in {"idle", "found", "finalizer", "created", "patched"} =>
          \A c \in Later : ~Has(found, c)

-----------------------------------------------------------------------------
(***************************************************************************)
(* Type correctness.                                                       *)
(***************************************************************************)

\* The null values have their types, and so has what Reconcile keeps of an object.
LEMMA NullValues ==
    /\ Empty \in Conditions
    /\ NoObject \in Object
    /\ NoCopy \in Copied
    /\ \A object \in Object, ep \in Nat, ready \in BOOLEAN : Copy(object, ep, ready) \in Copied
  BY DEF Empty, Conditions, NoObject, Object, NoCopy, Copy, Copied

\* TrackConditionType changes one condition, to one that is there.
LEMMA TrackType ==
    ASSUME TypeOK, NEW c \in Types, NEW reason \in {"Succeeded", "Failed", "Pending"},
           TrackConditionType(c, reason)
    PROVE  array' \in Conditions /\ found' \in Conditions
  BY DEF TypeOK, TrackConditionType, Conditions

\* A fault is counted.
LEMMA FaultType ==
    ASSUME TypeOK, Fault
    PROVE  faults' \in Nat
  BY DEF TypeOK, Fault

\* What an update of the object leaves behind has its type.
LEMMA UpdateType ==
    ASSUME TypeOK, NEW modified \in Object,
           UpdateAccepted(modified) \/ UpdateRefused
    PROVE  obj' \in Object /\ faults' \in Nat
  BY DEF TypeOK, UpdateAccepted, UpdateRefused, Fault

\* Reading the object again keeps the types.
LEMMA RereadType ==
    ASSUME TypeOK, obj' \in Object, Reread
    PROVE  copy' \in Copied /\ shared' \in BOOLEAN
  <1>1. copy.ep \in Nat /\ copy.ready \in BOOLEAN
    BY DEF TypeOK, Copied
  <1>2. (IF Current THEN obj' ELSE view) \in Object
    BY DEF TypeOK
  <1> QED
    BY <1>1, <1>2, NullValues DEF Reread

\* The steps up to the TenantControlPlane keep the types.
LEMMA FirstStepsType ==
    ASSUME TypeOK,
           \/ Begin \/ FindExternalClusterReference \/ HandleFinalizer
           \/ CreateTenantControlPlane
    PROVE  TypeOK'
  <1>1. CASE Begin
    <2>1. view.conds \in Conditions /\ Copy(view, 0, FALSE) \in Copied
      BY NullValues DEF TypeOK, Object
    <2> QED
      BY <1>1, <2>1 DEF Begin, TypeOK, world, worker
  <1>2. CASE FindExternalClusterReference
    <2>1. array' \in Conditions /\ found' \in Conditions
      BY <1>2, TrackType DEF FindExternalClusterReference, Types
    <2> QED
      BY <1>2, <2>1
         DEF FindExternalClusterReference, TypeOK, world, Return, StillShared, Has
  <1>3. CASE HandleFinalizer
    <2>1. [obj EXCEPT !.own = TRUE, !.others = copy.others] \in Object
      BY DEF TypeOK, Object, Copied
    <2>2. obj' \in Object /\ faults' \in Nat
      BY <1>3, <2>1, UpdateType DEF HandleFinalizer
    <2>3. Copy(obj', 0, FALSE) \in Copied
      BY <2>2, NullValues
    <2> QED
      BY <1>3, <2>2, <2>3 DEF HandleFinalizer, TypeOK, Return
  <1>4. CASE CreateTenantControlPlane
    <2>1. array' \in Conditions /\ found' \in Conditions
      <3>1. CASE problem = "Created"
        BY <1>4, <3>1, TrackType DEF CreateTenantControlPlane, Types
      <3>2. CASE problem # "Created"
        BY <1>4, <3>2 DEF CreateTenantControlPlane, TypeOK, Conditions
      <3> QED
        BY <3>1, <3>2
    <2>2. copy' \in Copied /\ shared' \in BOOLEAN /\ requeue' \in BOOLEAN
      BY <1>4 DEF CreateTenantControlPlane, TypeOK, Copied, StillShared, Has, Return
    <2>3. pc' \in {"save", "patched"}
      BY <1>4 DEF CreateTenantControlPlane, Return
    <2> QED
      BY <1>4, <2>1, <2>2, <2>3 DEF CreateTenantControlPlane, TypeOK, world
  <1> QED
    BY <1>1, <1>2, <1>3, <1>4

\* The endpoint patch sets one condition of what it decodes.
LEMMA PatchedType ==
    ASSUME TypeOK, TrackPatched
    PROVE  array' \in Conditions /\ found' \in Conditions
  <1>1. Decoded(array, obj.conds) \in Conditions
    BY DEF TypeOK, Object, Decoded, Conditions
  <1> QED
    BY <1>1 DEF TypeOK, TrackPatched, Conditions

\* So do the steps up to the first status update.
LEMMA ClusterStepsType ==
    ASSUME TypeOK,
           \/ PatchControlPlaneEndpoint \/ GetClusterAgain \/ PatchCluster \/ WaitForCluster
    PROVE  TypeOK'
  <1>1. CASE PatchControlPlaneEndpoint
    <2>1. array' \in Conditions /\ found' \in Conditions
      BY <1>1, TrackType, PatchedType DEF PatchControlPlaneEndpoint, Types
    <2>2. copy.ep \in Nat /\ copy.ready \in BOOLEAN
      BY DEF TypeOK, Copied
    <2>3. obj' \in Object /\ faults' \in Nat
      <3>1. [obj EXCEPT !.ep = copy.ep] \in Object
        BY <2>2 DEF TypeOK, Object
      <3>2. \/ obj' = [obj EXCEPT !.ep = copy.ep] /\ faults' = faults
            \/ obj' = obj /\ (faults' = faults \/ Fault)
        BY <1>1 DEF PatchControlPlaneEndpoint, Fault
      <3> QED
        BY <3>1, <3>2, FaultType DEF TypeOK
    <2>4. Copy(obj', copy.ep, copy.ready) \in Copied
      BY <2>2, <2>3, NullValues
    <2> QED
      BY <1>1, <2>1, <2>3, <2>4
         DEF PatchControlPlaneEndpoint, TypeOK, StillShared, Has, Return
  <1>2. CASE GetClusterAgain
    <2>1. faults' = faults \/ Fault
      BY <1>2 DEF GetClusterAgain
    <2>2. faults' \in Nat
      BY <2>1, FaultType DEF TypeOK
    <2> QED
      BY <1>2, <2>2 DEF GetClusterAgain, TypeOK, world, Return
  <1>3. CASE PatchCluster
    <2>1. array' \in Conditions /\ found' \in Conditions
      BY <1>3, TrackType DEF PatchCluster, Types
    <2> QED
      BY <1>3, <2>1 DEF PatchCluster, TypeOK, world, Return, StillShared, Has
  <1>4. CASE WaitForCluster
    BY <1>4 DEF WaitForCluster, TypeOK, world, Return
  <1> QED
    BY <1>1, <1>2, <1>3, <1>4

\* So do the status updates and the end of Reconcile.
LEMMA LastStepsType ==
    ASSUME TypeOK,
           \/ SetInitialized \/ ReportReplicas \/ SetInitializedAgain
           \/ CreateRequiredResources \/ SetReady \/ SaveConditions
    PROVE  TypeOK'
  <1>1. /\ [obj EXCEPT !.init = TRUE] \in Object
        /\ [obj EXCEPT !.ready = copy.ready] \in Object
        /\ [obj EXCEPT !.conds = SavedConditions] \in Object
        /\ obj \in Object
    BY DEF TypeOK, Object, Copied, SavedConditions
  <1>2. CASE SetInitialized \/ ReportReplicas \/ SetInitializedAgain \/ SetReady
    <2>1. obj' \in Object /\ faults' \in Nat
      BY <1>1, <1>2, UpdateType
         DEF SetInitialized, ReportReplicas, SetInitializedAgain, SetReady
    <2>2. array' \in Conditions /\ found' \in Conditions
      BY <1>2, TrackType
         DEF SetInitialized, ReportReplicas, SetInitializedAgain, SetReady, Types
    <2>3. copy' \in Copied /\ shared' \in BOOLEAN
      BY <1>2, <2>1, RereadType
         DEF SetInitialized, ReportReplicas, SetInitializedAgain, SetReady
    <2> QED
      BY <1>2, <2>1, <2>2, <2>3
         DEF SetInitialized, ReportReplicas, SetInitializedAgain, SetReady, TypeOK, Return
  <1>3. CASE CreateRequiredResources
    <2>1. array' \in Conditions /\ found' \in Conditions
      BY <1>3, TrackType DEF CreateRequiredResources, Types
    <2> QED
      BY <1>3, <2>1
         DEF CreateRequiredResources, TypeOK, world, Return, StillShared, Has
  <1>4. CASE SaveConditions
    <2>1. obj' \in Object /\ faults' \in Nat
      BY <1>1, <1>4, UpdateType DEF SaveConditions
    <2> QED
      BY <1>4, <2>1, NullValues DEF SaveConditions, TypeOK
  <1> QED
    BY <1>2, <1>3, <1>4

\* So does everybody else.
LEMMA OthersType ==
    ASSUME TypeOK, Others
    PROVE  TypeOK'
  <1>1. CASE CacheSync
    BY <1>1 DEF CacheSync, TypeOK, worker
  <1>2. CASE Resync
    BY <1>2 DEF Resync, TypeOK, world, worker
  <1>3. CASE Restart
    <2>1. faults' \in Nat
      BY <1>3 DEF Restart, TypeOK
    <2> QED
      BY <1>3, <2>1, NullValues DEF Restart, TypeOK
  <1>4. CASE AddressChanges
    BY <1>4 DEF AddressChanges, TypeOK, worker
  <1>5. CASE OthersFinalize
    BY <1>5 DEF OthersFinalize, TypeOK, worker, Object
  <1>6. ASSUME NEW p \in Problems \cup {"none"}, ProblemChanges(p) PROVE TypeOK'
    BY <1>6 DEF ProblemChanges, TypeOK, worker
  <1> QED
    BY <1>1, <1>2, <1>3, <1>4, <1>5, <1>6 DEF Others

\* The initial state has its types.
LEMMA InitType == Init => TypeOK
  <1> SUFFICES ASSUME Init PROVE TypeOK
    OBVIOUS
  <1>1. Empty \in Conditions /\ NoObject \in Object /\ NoCopy \in Copied
    BY NullValues
  <1> QED
    BY <1>1 DEF Init, TypeOK

\* Every step keeps the types.
LEMMA NextType == TypeOK /\ [Next]_vars => TypeOK'
  <1> SUFFICES ASSUME TypeOK, [Next]_vars PROVE TypeOK'
    OBVIOUS
  <1>1. CASE UNCHANGED vars
    BY <1>1 DEF vars, world, worker, TypeOK
  <1> QED
    BY <1>1, FirstStepsType, ClusterStepsType, LastStepsType, OthersType DEF Next, Step

(***************************************************************************)
(* Every variable keeps its type: in particular a tracked condition always *)
(* has one of the three reasons TrackConditionType gives it.               *)
(***************************************************************************)
THEOREM TypeCorrect == Spec => []TypeOK
  BY InitType, NextType, PTL DEF Spec

-----------------------------------------------------------------------------
(***************************************************************************)
(* Lists of conditions.                                                    *)
(***************************************************************************)

\* The order of the steps, as numbers.
LEMMA Positions ==
    /\ \A c \in Types : Position[c] \in 1..8
    /\ \A c, d \in Types : Position[c] = Position[d] => c = d
    /\ Position["Found"] = 1 /\ Position["Created"] = 2 /\ Position["Address"] = 3
    /\ Position["Patched"] = 4 /\ Position["Infra"] = 5 /\ Position["Initialized"] = 6
    /\ Position["Resources"] = 7 /\ Position["Ready"] = 8
  BY DEF Position, Types

\* A list that has the conditions before n has those before a smaller number.
LEMMA BeforeLess ==
    ASSUME NEW list, NEW n \in Nat, NEW m \in 0..n, Before(list, n)
    PROVE  Before(list, m)
  <1>1. Tracked \subseteq Types
    BY DEF Tracked
  <1> QED
    BY <1>1, Positions DEF Before

(***************************************************************************)
(* Tracking a condition after all the ones before it leaves no gap, and    *)
(* then the list has the conditions up to this one.                        *)
(***************************************************************************)
LEMMA TrackedInOrder ==
    ASSUME NEW list \in Conditions, NEW c \in Types,
           NEW reason \in {"Succeeded", "Failed", "Pending"},
           NoGaps(list), Before(list, Position[c]),
           NEW new, new = [list EXCEPT ![c] = reason]
    PROVE  NoGaps(new) /\ Before(new, Position[c] + 1)
  <1>1. Tracked \subseteq Types
    BY DEF Tracked
  <1>2. \A d \in Types : new[d] = IF d = c THEN reason ELSE list[d]
    BY DEF Conditions
  <1>3. \A d \in Types : Has(new, d) <=> d = c \/ Has(list, d)
    BY <1>2 DEF Has
  <1>4. NoGaps(new)
    BY <1>1, <1>3 DEF NoGaps, Before
  <1>5. Before(new, Position[c] + 1)
    <2> SUFFICES ASSUME NEW d \in Tracked, Position[d] < Position[c] + 1
                 PROVE  Has(new, d)
      BY DEF Before
    <2>1. Position[d] < Position[c] \/ d = c
      BY <1>1, Positions
    <2> QED
      BY <1>1, <1>3, <2>1 DEF Before
  <1> QED
    BY <1>4, <1>5

\* Decoding an answer into a list changes values, never which conditions it has.
LEMMA DecodedConditions ==
    ASSUME NEW list \in Conditions, NEW answer \in Conditions
    PROVE  /\ Decoded(list, answer) \in Conditions
           /\ \A c \in Types : Has(Decoded(list, answer), c) <=> Has(list, c)
           /\ NoGaps(list) => NoGaps(Decoded(list, answer))
           /\ \A n \in Nat : Before(list, n) => Before(Decoded(list, answer), n)
  <1>1. Tracked \subseteq Types
    BY DEF Tracked
  <1>2. Decoded(list, answer) \in Conditions
    BY DEF Decoded, Conditions
  <1>3. \A c \in Types : Has(Decoded(list, answer), c) <=> Has(list, c)
    BY DEF Decoded, Has
  <1> QED
    BY <1>1, <1>2, <1>3 DEF NoGaps, Before

\* A step that tracks its condition in order.
LEMMA TracksInOrder ==
    ASSUME SegmentInv, NEW c \in Types, NEW reason \in {"Succeeded", "Failed", "Pending"},
           TrackConditionType(c, reason), pc \notin {"idle", "save"},
           Position[c] <= Reached[pc], Reached[pc] \in Nat
    PROVE  NoGaps(array') /\ Before(array', Position[c] + 1)
  <1>1. array \in Conditions /\ NoGaps(array) /\ Before(array, Reached[pc])
    BY DEF SegmentInv, TypeOK, InitialSegment, TrackedSoFar
  <1>2. Before(array, Position[c])
    BY <1>1, Positions, BeforeLess
  <1> QED
    BY <1>1, <1>2, TrackedInOrder DEF TrackConditionType

-----------------------------------------------------------------------------
(***************************************************************************)
(* No gaps.                                                                *)
(***************************************************************************)

\* A step that leaves the lists where they are, and goes no further or returns.
LEMMA SegmentKept ==
    ASSUME SegmentInv, TypeOK',
           obj'.conds = obj.conds,
           view'.conds \in {view.conds, obj.conds},
           \/ array' = array /\ (pc' = pc \/ pc' = "save")
           \/ array' = Empty /\ pc' = "idle"
    PROVE  SegmentInv'
  <1>1. NoGaps(obj'.conds) /\ NoGaps(view'.conds)
    BY DEF SegmentInv, InitialSegment
  <1>2. NoGaps(Empty)
    BY DEF NoGaps, Has, Empty, Tracked
  <1>3. NoGaps(array')
    BY <1>2 DEF SegmentInv, InitialSegment
  <1>4. TrackedSoFar'
    BY DEF SegmentInv, TrackedSoFar
  <1> QED
    BY <1>1, <1>3, <1>4 DEF SegmentInv, InitialSegment

\* The steps up to the TenantControlPlane leave no gap.
LEMMA FirstStepsSegment ==
    ASSUME SegmentInv, TypeOK',
           \/ Begin \/ FindExternalClusterReference \/ HandleFinalizer
           \/ CreateTenantControlPlane
    PROVE  SegmentInv'
  <1>1. CASE Begin
    <2>1. CASE problem = "ClusterRemoved"
      BY <1>1, <2>1, SegmentKept DEF Begin, world, worker
    <2>2. CASE problem # "ClusterRemoved"
      <3>1. array' = view.conds /\ UNCHANGED world
        BY <1>1, <2>2 DEF Begin
      <3>2. InitialSegment'
        BY <3>1 DEF world, SegmentInv, InitialSegment
      <3>3. pc' = (IF External THEN "found" ELSE "created")
        BY <1>1, <2>2 DEF Begin
      <3>4. Before(array', Reached[pc'])
        <4>1. Tracked \subseteq Types /\ ("Found" \in Tracked => External)
          BY DEF Tracked
        <4> SUFFICES ASSUME NEW c \in Tracked, Position[c] < Reached[pc'] PROVE FALSE
          BY DEF Before
        <4> QED
          BY <3>3, <4>1, Positions, ROAssumption DEF Reached, Types
      <3> QED
        BY <3>2, <3>4 DEF SegmentInv, TrackedSoFar
    <2> QED
      BY <2>1, <2>2
  <1>2. CASE FindExternalClusterReference
    <2>1. NoGaps(array') /\ Before(array', 2)
      <3>1. /\ pc = "found"
            /\ \E reason \in {"Succeeded", "Pending"} : TrackConditionType("Found", reason)
        BY <1>2 DEF FindExternalClusterReference
      <3> QED
        BY <3>1, TracksInOrder, Positions DEF Reached, Types
    <2>2. pc' \in {"save", "created", "finalizer"} /\ UNCHANGED world
      BY <1>2 DEF FindExternalClusterReference, Return
    <2> QED
      BY <2>1, <2>2 DEF SegmentInv, InitialSegment, TrackedSoFar, Reached, world
  <1>3. CASE HandleFinalizer
    <2>1. obj'.conds = obj.conds /\ array' = array /\ view' = view
      BY <1>3 DEF HandleFinalizer, UpdateAccepted, UpdateRefused, Fault, SegmentInv, TypeOK,
                  Object
    <2>2. pc = "finalizer" /\ pc' \in {"created", "save"}
      BY <1>3 DEF HandleFinalizer, Return
    <2> QED
      BY <2>1, <2>2 DEF SegmentInv, InitialSegment, TrackedSoFar, Reached
  <1>4. CASE CreateTenantControlPlane
    <2>1. pc = "created" /\ UNCHANGED world /\ pc' \in {"save", "patched"}
      BY <1>4 DEF CreateTenantControlPlane, Return
    <2>2. CASE problem = "Created"
      <3>1. TrackConditionType("Created", "Pending") /\ pc' = "save"
        BY <1>4, <2>2 DEF CreateTenantControlPlane, Return
      <3>2. NoGaps(array')
        BY <2>1, <3>1, TracksInOrder, Positions DEF Reached, Types
      <3> QED
        BY <2>1, <3>1, <3>2 DEF SegmentInv, InitialSegment, TrackedSoFar, world
    <2>3. CASE problem # "Created"
      <3>1. PICK reason \in {"Succeeded", "Pending"} :
              array' = [array EXCEPT !["Created"] = "Succeeded", !["Address"] = reason]
        BY <1>4, <2>3 DEF CreateTenantControlPlane
      <3> DEFINE one == [array EXCEPT !["Created"] = "Succeeded"]
      <3>2. array \in Conditions /\ NoGaps(array) /\ Before(array, 2)
        BY <2>1 DEF SegmentInv, TypeOK, InitialSegment, TrackedSoFar, Reached
      <3>3. one \in Conditions
        BY <3>2 DEF Conditions
      <3>4. array' = [one EXCEPT !["Address"] = reason]
        BY <3>1
      <3>5. NoGaps(one) /\ Before(one, Position["Created"] + 1)
        <4>1. "Created" \in Types /\ Before(array, Position["Created"])
          BY <3>2, Positions DEF Types
        <4>2. one = [array EXCEPT !["Created"] = "Succeeded"]
          OBVIOUS
        <4> HIDE DEF one
        <4> QED
          BY <3>2, <4>1, <4>2, TrackedInOrder
      <3> HIDE DEF one
      <3>6. NoGaps(array') /\ Before(array', Position["Address"] + 1)
        <4>1. "Address" \in Types /\ Before(one, Position["Address"])
          BY <3>5, Positions DEF Types
        <4> QED
          BY <3>3, <3>4, <3>5, <4>1, TrackedInOrder
      <3>7. Before(array', 4)
        BY <3>6, Positions
      <3> QED
        BY <2>1, <3>6, <3>7 DEF SegmentInv, InitialSegment, TrackedSoFar, Reached, world
    <2> QED
      BY <2>2, <2>3
  <1> QED
    BY <1>1, <1>2, <1>3, <1>4

\* The endpoint patch, and the steps about the Cluster, leave no gap.
LEMMA ClusterStepsSegment ==
    ASSUME SegmentInv, TypeOK',
           \/ PatchControlPlaneEndpoint \/ GetClusterAgain \/ PatchCluster \/ WaitForCluster
    PROVE  SegmentInv'
  <1>1. CASE PatchControlPlaneEndpoint
    <2>1. pc = "patched" /\ pc' \in {"cluster", "save"} /\ view' = view
      BY <1>1 DEF PatchControlPlaneEndpoint, Return
    <2>2. obj'.conds = obj.conds
      BY <1>1 DEF PatchControlPlaneEndpoint, Fault, SegmentInv, TypeOK, Object
    <2>3. NoGaps(array') /\ Before(array', 5)
      <3>1. array \in Conditions /\ obj.conds \in Conditions /\ NoGaps(array) /\ Before(array, 4)
        BY <2>1 DEF SegmentInv, TypeOK, Object, InitialSegment, TrackedSoFar, Reached
      <3>2. PICK list \in {array, Decoded(array, obj.conds)},
                 reason \in {"Succeeded", "Pending"} :
              array' = [list EXCEPT !["Patched"] = reason]
        BY <1>1 DEF PatchControlPlaneEndpoint, TrackPatched, TrackConditionType
      <3>3. list \in Conditions /\ NoGaps(list) /\ Before(list, 4)
        BY <3>1, DecodedConditions
      <3>4. "Patched" \in Types /\ Before(list, Position["Patched"])
        BY <3>3, Positions DEF Types
      <3>5. NoGaps(array') /\ Before(array', Position["Patched"] + 1)
        BY <3>2, <3>3, <3>4, TrackedInOrder
      <3> QED
        BY <3>5, Positions
    <2> QED
      BY <2>1, <2>2, <2>3 DEF SegmentInv, InitialSegment, TrackedSoFar, Reached
  <1>2. CASE GetClusterAgain
    <2>1. UNCHANGED <<obj, view, array>> /\ pc = "cluster"
      BY <1>2 DEF GetClusterAgain, world
    <2>2. CASE pc' = "save"
      BY <2>1, <2>2, SegmentKept
    <2>3. CASE pc' # "save"
      <3>1. pc' = (IF PatchesInfra THEN "infra" ELSE "wait")
        BY <1>2, <2>3 DEF GetClusterAgain, Return
      <3>2. Before(array, 5)
        BY <2>1 DEF SegmentInv, TrackedSoFar, Reached
      <3>3. Before(array, Reached[pc'])
        <4>1. CASE PatchesInfra
          BY <3>1, <3>2, <4>1 DEF Reached
        <4>2. CASE ~PatchesInfra
          <5>1. Tracked \subseteq Types /\ "Infra" \notin Tracked
            BY <4>2 DEF Tracked
          <5>2. \A c \in Tracked : Position[c] < 6 => Position[c] < 5
            BY <5>1, Positions DEF Types
          <5> QED
            BY <3>1, <3>2, <4>2, <5>2 DEF Before, Reached
        <4> QED
          BY <4>1, <4>2
      <3> QED
        BY <2>1, <3>3 DEF SegmentInv, InitialSegment, TrackedSoFar
    <2> QED
      BY <2>2, <2>3
  <1>3. CASE PatchCluster
    <2>1. NoGaps(array') /\ Before(array', 6)
      <3>1. /\ pc = "infra"
            /\ \E reason \in {"Succeeded", "Pending"} : TrackConditionType("Infra", reason)
        BY <1>3 DEF PatchCluster
      <3> QED
        BY <3>1, TracksInOrder, Positions DEF Reached, Types
    <2>2. pc' \in {"save", "wait"} /\ UNCHANGED world
      BY <1>3 DEF PatchCluster, Return
    <2> QED
      BY <2>1, <2>2 DEF SegmentInv, InitialSegment, TrackedSoFar, Reached, world
  <1>4. CASE WaitForCluster
    <2>1. UNCHANGED <<obj, view, array>> /\ pc = "wait" /\ pc' \in {"save", "replicas", "init"}
      BY <1>4 DEF WaitForCluster, Return, world
    <2> QED
      BY <2>1 DEF SegmentInv, InitialSegment, TrackedSoFar, Reached
  <1> QED
    BY <1>1, <1>2, <1>3, <1>4

\* The status updates leave no gap, and the deferred update saves a list without one.
LEMMA LastStepsSegment ==
    ASSUME SegmentInv, TypeOK',
           \/ SetInitialized \/ ReportReplicas \/ SetInitializedAgain
           \/ CreateRequiredResources \/ SetReady \/ SaveConditions
    PROVE  SegmentInv'
  <1>1. CASE SetInitialized \/ ReportReplicas \/ SetInitializedAgain
    <2>1. obj'.conds = obj.conds /\ view' = view
      BY <1>1 DEF SetInitialized, ReportReplicas, SetInitializedAgain, UpdateAccepted,
                  UpdateRefused, Fault, SegmentInv, TypeOK, Object
    <2>2. /\ pc \in {"init", "replicas", "initAgain"}
          /\ \E reason \in {"Succeeded", "Pending"} : TrackConditionType("Initialized", reason)
      BY <1>1 DEF SetInitialized, ReportReplicas, SetInitializedAgain
    <2>3. NoGaps(array') /\ Before(array', 7)
      BY <2>2, TracksInOrder, Positions DEF Reached, Types
    <2>4. Before(array', 6)
      BY <2>3, BeforeLess
    <2>5. pc' \in {"replicas", "initAgain", "resources", "save"}
      BY <1>1 DEF SetInitialized, ReportReplicas, SetInitializedAgain, Return
    <2> QED
      BY <2>1, <2>3, <2>4, <2>5 DEF SegmentInv, InitialSegment, TrackedSoFar, Reached
  <1>2. CASE CreateRequiredResources
    <2>1. NoGaps(array') /\ Before(array', 8)
      <3>1. /\ pc = "resources"
            /\ \E reason \in {"Succeeded", "Failed", "Pending"} :
                  TrackConditionType("Resources", reason)
        BY <1>2 DEF CreateRequiredResources
      <3> QED
        BY <3>1, TracksInOrder, Positions DEF Reached, Types
    <2>2. pc' \in {"save", "ready"} /\ UNCHANGED world
      BY <1>2 DEF CreateRequiredResources, Return
    <2> QED
      BY <2>1, <2>2 DEF SegmentInv, InitialSegment, TrackedSoFar, Reached, world
  <1>3. CASE SetReady
    <2>1. obj'.conds = obj.conds /\ view' = view
      BY <1>3 DEF SetReady, UpdateAccepted, UpdateRefused, Fault, SegmentInv, TypeOK, Object
    <2>2. /\ pc = "ready"
          /\ \E reason \in {"Succeeded", "Failed", "Pending"} :
                TrackConditionType("Ready", reason)
      BY <1>3 DEF SetReady
    <2>3. NoGaps(array')
      BY <2>2, TracksInOrder, Positions DEF Reached, Types
    <2>4. pc' = "save"
      BY <1>3 DEF SetReady, Return
    <2> QED
      BY <2>1, <2>3, <2>4 DEF SegmentInv, InitialSegment, TrackedSoFar
  <1>4. CASE SaveConditions
    <2>1. obj'.conds = obj.conds \/ obj'.conds = array
      BY <1>4 DEF SaveConditions, SavedConditions, UpdateAccepted, UpdateRefused, Fault,
                  SegmentInv, TypeOK, Object
    <2>2. NoGaps(obj'.conds)
      BY <2>1 DEF SegmentInv, InitialSegment
    <2>3. view' = view /\ array' = Empty /\ pc' = "idle"
      BY <1>4 DEF SaveConditions
    <2>4. NoGaps(Empty)
      BY DEF NoGaps, Has, Empty, Tracked
    <2> QED
      BY <2>2, <2>3, <2>4 DEF SegmentInv, InitialSegment, TrackedSoFar
  <1> QED
    BY <1>1, <1>2, <1>3, <1>4

\* Everybody else leaves the lists alone; the cache takes over the saved one.
LEMMA OthersSegment ==
    ASSUME SegmentInv, TypeOK', Others
    PROVE  SegmentInv'
  <1>1. CASE CacheSync \/ Resync \/ AddressChanges \/ Restart
    BY <1>1, SegmentKept DEF CacheSync, Resync, AddressChanges, Restart, world, worker
  <1>2. CASE OthersFinalize
    <2>1. obj'.conds = obj.conds
      BY <1>2 DEF OthersFinalize, SegmentInv, TypeOK, Object
    <2> QED
      BY <1>2, <2>1, SegmentKept DEF OthersFinalize, worker
  <1>3. ASSUME NEW p \in Problems \cup {"none"}, ProblemChanges(p) PROVE SegmentInv'
    BY <1>3, SegmentKept DEF ProblemChanges, worker
  <1> QED
    BY <1>1, <1>2, <1>3 DEF Others

\* The invariant behind InitialSegment.
LEMMA SegmentInvariance == Spec => []SegmentInv
  <1>1. Init => SegmentInv
    <2> SUFFICES ASSUME Init PROVE SegmentInv
      OBVIOUS
    <2>1. NoGaps(Empty)
      BY DEF NoGaps, Has, Empty, Tracked
    <2>2. NoObject.conds = Empty
      BY DEF NoObject
    <2> QED
      BY <2>1, <2>2, InitType DEF Init, SegmentInv, InitialSegment, TrackedSoFar
  <1>2. SegmentInv /\ [Next]_vars => SegmentInv'
    <2> SUFFICES ASSUME SegmentInv, [Next]_vars PROVE SegmentInv'
      OBVIOUS
    <2>1. TypeOK'
      BY NextType DEF SegmentInv
    <2>2. CASE UNCHANGED vars
      BY <2>1, <2>2, SegmentKept DEF vars, world, worker
    <2> QED
      BY <2>1, <2>2, FirstStepsSegment, ClusterStepsSegment, LastStepsSegment, OthersSegment
         DEF Next, Step
  <1> QED
    BY <1>1, <1>2, PTL DEF Spec

(***************************************************************************)
(* Whichever steps fail and whichever updates are lost, every list of      *)
(* conditions holds the first so many types in the order of Reconcile's    *)
(* steps, so that the answer to a Patch, decoded element by element, gives *)
(* no type to the wrong element.                                           *)
(***************************************************************************)
THEOREM ListsHaveNoGaps == Spec => []InitialSegment
  <1>1. SegmentInv => InitialSegment
    BY DEF SegmentInv
  <1> QED
    BY <1>1, SegmentInvariance, PTL

-----------------------------------------------------------------------------
(***************************************************************************)
(* The later conditions.                                                   *)
(***************************************************************************)

\* The steps before the endpoint patch.
Early == {"idle", "found", "finalizer", "created", "patched"}

\* A step that tracks nothing and stays on its side of the endpoint patch, or returns.
LEMMA ToldKept ==
    ASSUME ToldInv, TypeOK',
           \/ UNCHANGED <<array, found>> /\ (pc' \in Early => pc \in Early)
           \/ found' = Empty
    PROVE  ToldInv'
  <1>1. \A c \in Later : ~Has(Empty, c)
    BY DEF Later, Has, Empty
  <1> QED
    BY <1>1 DEF ToldInv, Early

\* Tracking a condition keeps what has been told; the earlier steps track earlier ones.
LEMMA TrackingTold ==
    ASSUME ToldInv, TypeOK', NEW c \in Types, NEW reason \in {"Succeeded", "Failed", "Pending"},
           TrackConditionType(c, reason),
           pc' \in Early => c \notin Later /\ pc \in Early
    PROVE  ToldInv'
  <1>1. \A d \in Types : /\ array'[d] = IF d = c THEN reason ELSE array[d]
                         /\ found'[d] = IF d = c THEN reason ELSE found[d]
    BY DEF ToldInv, TypeOK, TrackConditionType, Conditions
  <1>2. \A d \in Later : d \in Types
    BY DEF Later
  <1> QED
    BY <1>1, <1>2 DEF ToldInv, Has, Early

\* What the conditions before the endpoint patch are.
LEMMA LaterTypes ==
    /\ Later \subseteq Types
    /\ "Found" \notin Later /\ "Created" \notin Later /\ "Address" \notin Later
  BY Positions DEF Later

\* The steps up to the endpoint patch.
LEMMA FirstStepsTold ==
    ASSUME ToldInv, TypeOK',
           \/ Begin \/ FindExternalClusterReference \/ HandleFinalizer
           \/ CreateTenantControlPlane \/ PatchControlPlaneEndpoint
    PROVE  ToldInv'
  <1>1. CASE Begin
    <2>1. found' = found /\ pc = "idle"
      BY <1>1 DEF Begin, worker
    <2>2. \A c \in Later : ~Has(found', c)
      BY <2>1 DEF ToldInv
    <2> QED
      BY <2>2 DEF ToldInv
  <1>2. CASE FindExternalClusterReference
    <2>1. /\ pc = "found"
          /\ \E reason \in {"Succeeded", "Pending"} : TrackConditionType("Found", reason)
      BY <1>2 DEF FindExternalClusterReference
    <2> QED
      BY <2>1, TrackingTold, LaterTypes DEF Early, Types
  <1>3. CASE HandleFinalizer
    BY <1>3, ToldKept DEF HandleFinalizer, Early
  <1>4. CASE CreateTenantControlPlane
    <2>1. pc = "created"
      BY <1>4 DEF CreateTenantControlPlane
    <2>2. CASE problem = "Created"
      <3>1. TrackConditionType("Created", "Pending")
        BY <1>4, <2>2 DEF CreateTenantControlPlane
      <3> QED
        BY <2>1, <3>1, TrackingTold, LaterTypes DEF Early, Types
    <2>3. CASE problem # "Created"
      <3>1. \A c \in Later : array'[c] = array[c] /\ found'[c] = found[c]
        BY <1>4, <2>3, LaterTypes DEF CreateTenantControlPlane, ToldInv, TypeOK, Conditions
      <3> QED
        BY <2>1, <3>1 DEF ToldInv, Has
    <2> QED
      BY <2>2, <2>3
  <1>5. CASE PatchControlPlaneEndpoint
    <2>1. pc = "patched" /\ pc' \in {"cluster", "save"}
      BY <1>5 DEF PatchControlPlaneEndpoint, Return
    <2>2. \A c \in Later : ~Has(found, c)
      BY <2>1 DEF ToldInv
    <2>3. PICK list \in Conditions, reason \in {"Succeeded", "Pending"} :
            /\ array' = [list EXCEPT !["Patched"] = reason]
            /\ found' = [found EXCEPT !["Patched"] = reason]
      <3>1. array \in Conditions /\ Decoded(array, obj.conds) \in Conditions
        BY DecodedConditions DEF ToldInv, TypeOK, Object
      <3> QED
        BY <1>5, <3>1 DEF PatchControlPlaneEndpoint, TrackPatched, TrackConditionType
    <2>4. \A c \in Later : /\ array'[c] = IF c = "Patched" THEN reason ELSE list[c]
                           /\ found'[c] = IF c = "Patched" THEN reason ELSE found[c]
      BY <2>3, LaterTypes DEF ToldInv, TypeOK, Conditions
    <2> QED
      BY <2>1, <2>2, <2>4 DEF ToldInv, Has
  <1> QED
    BY <1>1, <1>2, <1>3, <1>4, <1>5

\* The steps after the endpoint patch.
LEMMA LaterStepsTold ==
    ASSUME ToldInv, TypeOK',
           \/ GetClusterAgain \/ PatchCluster \/ WaitForCluster
           \/ SetInitialized \/ ReportReplicas \/ SetInitializedAgain
           \/ CreateRequiredResources \/ SetReady \/ SaveConditions
    PROVE  ToldInv'
  <1>1. CASE GetClusterAgain
    <2>1. UNCHANGED <<array, found>> /\ pc' \notin Early
      BY <1>1 DEF GetClusterAgain, Early, Return
    <2> QED
      BY <2>1, ToldKept
  <1>2. CASE WaitForCluster
    <2>1. UNCHANGED <<array, found>> /\ pc' \notin Early
      BY <1>2 DEF WaitForCluster, Early, Return
    <2> QED
      BY <2>1, ToldKept
  <1>3. CASE PatchCluster
    <2>1. /\ \E reason \in {"Succeeded", "Pending"} : TrackConditionType("Infra", reason)
          /\ pc' \notin Early
      BY <1>3 DEF PatchCluster, Early, Return
    <2> QED
      BY <2>1, TrackingTold DEF Types
  <1>4. CASE SetInitialized \/ ReportReplicas \/ SetInitializedAgain
    <2>1. \E reason \in {"Succeeded", "Pending"} : TrackConditionType("Initialized", reason)
      BY <1>4 DEF SetInitialized, ReportReplicas, SetInitializedAgain
    <2>2. pc' \notin Early
      BY <1>4 DEF SetInitialized, ReportReplicas, SetInitializedAgain, Early, Return
    <2> QED
      BY <2>1, <2>2, TrackingTold DEF Types
  <1>5. CASE CreateRequiredResources
    <2>1. /\ \E reason \in {"Succeeded", "Failed", "Pending"} :
                TrackConditionType("Resources", reason)
          /\ pc' \notin Early
      BY <1>5 DEF CreateRequiredResources, Early, Return
    <2> QED
      BY <2>1, TrackingTold DEF Types
  <1>6. CASE SetReady
    <2>1. /\ \E reason \in {"Succeeded", "Failed", "Pending"} :
                TrackConditionType("Ready", reason)
          /\ pc' \notin Early
      BY <1>6 DEF SetReady, Early, Return
    <2> QED
      BY <2>1, TrackingTold DEF Types
  <1>7. CASE SaveConditions
    BY <1>7, ToldKept DEF SaveConditions
  <1> QED
    BY <1>1, <1>2, <1>3, <1>4, <1>5, <1>6, <1>7

\* Everybody else leaves the worker alone, or ends it.
LEMMA OthersTold ==
    ASSUME ToldInv, TypeOK', Others
    PROVE  ToldInv'
  <1>1. CASE CacheSync \/ Resync \/ AddressChanges \/ OthersFinalize
    BY <1>1, ToldKept DEF CacheSync, Resync, AddressChanges, OthersFinalize, worker
  <1>2. CASE Restart
    BY <1>2, ToldKept DEF Restart
  <1>3. ASSUME NEW p \in Problems \cup {"none"}, ProblemChanges(p) PROVE ToldInv'
    BY <1>3, ToldKept DEF ProblemChanges, worker
  <1> QED
    BY <1>1, <1>2, <1>3 DEF Others

\* The invariant behind LaterConditionsTold.
LEMMA ToldInvariance == Spec => []ToldInv
  <1>1. Init => ToldInv
    <2>1. \A c \in Later : ~Has(Empty, c)
      BY DEF Later, Has, Empty
    <2> QED
      BY <2>1, InitType DEF Init, ToldInv
  <1>2. ToldInv /\ [Next]_vars => ToldInv'
    <2> SUFFICES ASSUME ToldInv, [Next]_vars PROVE ToldInv'
      OBVIOUS
    <2>1. TypeOK'
      BY NextType DEF ToldInv
    <2>2. CASE UNCHANGED vars
      BY <2>1, <2>2, ToldKept DEF vars, worker
    <2> QED
      BY <2>1, <2>2, FirstStepsTold, LaterStepsTold, OthersTold DEF Next, Step
  <1> QED
    BY <1>1, <1>2, PTL DEF Spec

\* The deferred update that reaches the API server writes the list as it is.
LEMMA SavedList ==
    ASSUME TypeOK, [Next]_vars, Saved
    PROVE  obj'.conds = array
  <1>1. pc = "save" /\ pc' = "idle" /\ Current /\ faults' = faults
    BY DEF Saved
  <1>2. ~Others
    <2>1. faults' # faults + 1
      BY <1>1 DEF TypeOK
    <2>2. ~Restart
      BY <2>1 DEF Restart
    <2> QED
      BY <1>1, <2>2 DEF Others, CacheSync, Resync, AddressChanges, OthersFinalize,
                        ProblemChanges, worker
  <1>3. SaveConditions
    BY <1>1, <1>2
       DEF Next, Step, vars, worker, Begin, FindExternalClusterReference, HandleFinalizer,
           CreateTenantControlPlane, PatchControlPlaneEndpoint, GetClusterAgain,
           PatchCluster, WaitForCluster, SetInitialized, ReportReplicas,
           SetInitializedAgain, CreateRequiredResources, SetReady
  <1>4. ~UpdateRefused
    BY <1>1 DEF UpdateRefused, Fault, TypeOK
  <1> QED
    BY <1>3, <1>4 DEF SaveConditions, SavedConditions, UpdateAccepted, TypeOK, Object

(***************************************************************************)
(* From the endpoint patch on, what the deferred update saves is what the  *)
(* steps of this reconciliation have reported, though the object is read   *)
(* again and written several times in between.                             *)
(***************************************************************************)
THEOREM LaterConditionsAreTold == Spec => LaterConditionsTold
  <1> DEFINE Told == Saved => \A c \in Types :
                       Has(found, c) /\ Position[c] >= Position["Patched"] =>
                          obj'.conds[c] = found[c]
  <1>1. ToldInv /\ [Next]_vars => [Told]_vars
    <2> SUFFICES ASSUME ToldInv, [Next]_vars, Saved,
                        NEW c \in Types, Has(found, c), Position[c] >= Position["Patched"]
                 PROVE  obj'.conds[c] = found[c]
      OBVIOUS
    <2>1. c \in Later
      BY DEF Later
    <2>2. array[c] = found[c]
      BY <2>1 DEF ToldInv
    <2> QED
      BY <2>2, SavedList DEF ToldInv
  <1> HIDE DEF Told
  <1>2. Spec => [][Told]_vars
    BY <1>1, ToldInvariance, PTL DEF Spec
  <1> QED
    BY <1>2 DEF Told, LaterConditionsTold

=============================================================================
