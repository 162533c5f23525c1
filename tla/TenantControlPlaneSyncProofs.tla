-------------------- MODULE TenantControlPlaneSyncProofs --------------------
(***************************************************************************)
(* Proofs about TenantControlPlaneSync, for every set of values, host      *)
(* names, edits, networks and reports of the right types, and any number   *)
(* of changes, writes and faults.                                          *)
(***************************************************************************)
EXTENDS TenantControlPlaneSync, TLAPS

-----------------------------------------------------------------------------
(***************************************************************************)
(* Type correctness.                                                       *)
(***************************************************************************)

\* The null values have their types.
LEMMA NullValues ==
    /\ NoTCP \in TenantType
    /\ NoSpec \in SpecType
    /\ NoAddress \in Address
    /\ NoCopy \in [spec : SpecType, ep : Address, network : NetworkType]
    /\ Unset \in HostPort
  <1>1. NoTCP \in TenantType
    BY DEF NoTCP, TenantType, Optional, Annotations
  <1>2. NoTCP.annotations \in Annotations
    BY <1>1 DEF TenantType
  <1>3. (CHOOSE v \in Values : TRUE) \in Values
    BY SyncAssumption
  <1>4. NoSpec \in SpecType
    BY <1>2, <1>3 DEF NoSpec, SpecType, Optional, HostPort
  <1>5. NoAddress \in Address
    BY DEF NoAddress, Address
  <1> QED
    BY <1>1, <1>4, <1>5 DEF NoCopy, NetworkType, HostPort

\* Merging annotations gives annotations.
LEMMA MergedAnnotationsType ==
    ASSUME NEW old \in Annotations, NEW given \in Annotations
    PROVE  /\ MergedAnnotations(old, given) \in Annotations
           /\ MergedAnnotations(old, given)["lastApplied"] = old["lastApplied"]
           /\ MergedAnnotations(old, given)["secretKey"] = given["secretKey"]
           /\ MergedAnnotations(old, given)["note"] =
                 IF given["note"] # Unset THEN given["note"] ELSE old["note"]
  <1>1. DOMAIN old = {"note", "secretKey", "lastApplied"}
    BY DEF Annotations
  <1> QED
    BY <1>1 DEF MergedAnnotations, Annotations

\* The projection gives a TenantControlPlane.
LEMMA ProjectedType ==
    ASSUME NEW old \in TenantType, NEW given \in SpecType, NEW net \in NetworkType
    PROVE  Projected(old, given, net) \in TenantType
  <1>1. old.annotations \in Annotations /\ given.annotations \in Annotations
    BY DEF TenantType, SpecType
  <1>2. MergedAnnotations(old.annotations, given.annotations) \in Annotations
    BY <1>1, MergedAnnotationsType
  <1>3. ProjectedSANs(old.sans, given) \in SUBSET Name
    BY DEF ProjectedSANs, Bare, SpecType, HostPort, Name
  <1>4. ProjectedDNS(given) \in Optional
    <2>1. given.coreDNS \in [ips : Optional] \cup {Unset} /\ given.dns \in Optional
      BY DEF SpecType
    <2> QED
      BY <2>1 DEF ProjectedDNS
  <1>5. Set(old.ranges, given.ranges) \in Optional
    BY DEF Set, TenantType, SpecType
  <1> DEFINE before == [port |-> old.port, domain |-> old.domain]
             net2 == ProjectedNetwork(before, net)
  <1>6. net2.port \in Optional /\ net2.domain \in Optional
    <2>1. old.port \in Optional /\ old.domain \in Optional
      BY DEF TenantType
    <2>2. before.port \in Optional /\ before.domain \in Optional
      BY <2>1
    <2>3. net # Unset => net.port \in Optional /\ net.domain \in Optional
      BY DEF NetworkType
    <2> HIDE DEF before
    <2> QED
      BY <2>2, <2>3 DEF ProjectedNetwork, Set
  <1>7. old.rev \in Nat /\ given.plain \in Optional
    BY DEF TenantType, SpecType, Optional
  <1>8. Projected(old, given, net) =
          [exists |-> TRUE, rev |-> old.rev, plain |-> given.plain,
           ranges |-> Set(old.ranges, given.ranges), dns |-> ProjectedDNS(given),
           annotations |-> MergedAnnotations(old.annotations, given.annotations),
           sans |-> ProjectedSANs(old.sans, given), port |-> net2.port,
           domain |-> net2.domain]
    BY DEF Projected
  <1> HIDE DEF net2
  <1> QED
    BY <1>2, <1>3, <1>4, <1>5, <1>6, <1>7, <1>8 DEF TenantType

\* An edit gives a spec, with the next revision.
LEMMA EditedType ==
    ASSUME spec \in SpecType, NEW e \in Edits
    PROVE  Edited(e[1], e[2]) \in SpecType /\ Edited(e[1], e[2]).rev = spec.rev + 1
  <1>1. [spec EXCEPT !.rev = @ + 1] \in SpecType
    BY DEF SpecType
  <1>2. DOMAIN spec.annotations = {"note", "secretKey", "lastApplied"}
    BY DEF SpecType, Annotations
  <1>3. CASE e \in {"ingress", "gateway"} \X HostPort
    BY <1>1, <1>2, <1>3, NullValues DEF Edited, SpecType
  <1>4. CASE e \in {"note", "secretKey", "lastApplied"} \X Optional
    BY <1>1, <1>2, <1>4 DEF Edited, SpecType, Annotations
  <1>5. CASE e \in {"plain"} \X Values
    BY <1>1, <1>2, <1>5 DEF Edited, SpecType
  <1>6. CASE e \in {"ranges", "dns"} \X Optional
    BY <1>1, <1>2, <1>6 DEF Edited, SpecType
  <1>7. CASE e \in {"coreDNS"} \X ([ips : Optional] \cup {Unset})
    BY <1>1, <1>2, <1>7 DEF Edited, SpecType
  <1>8. CASE e \in {"sans"} \X SUBSET Name
    BY <1>1, <1>2, <1>8 DEF Edited, SpecType
  <1> QED
    BY <1>3, <1>4, <1>5, <1>6, <1>7, <1>8, WritesAssumption

\* A number converted to int32 is a number.
LEMMA Int32Type ==
    ASSUME NEW n \in Int
    PROVE  Int32(n) \in Int
  <1> DEFINE half == Int32Range \div 2
  <1>1. half \in Int
    BY SyncAssumption
  <1> HIDE DEF half
  <1>2. (n + half) % Int32Range \in Int
    BY <1>1, SyncAssumption
  <1>3. Int32(n) = ((n + half) % Int32Range) - half
    BY DEF Int32, half
  <1> QED
    BY <1>1, <1>2, <1>3

\* What is not refused is an address.
LEMMA EndpointType ==
    ASSUME NEW given \in SpecType, NEW reported \in Name, ~Refused(given, reported)
    PROVE  /\ ControlPlaneEndpoint(given, reported) \in Address
           /\ [ControlPlaneEndpoint(given, reported) EXCEPT !.port = Int32(@)] \in Address
  <1>1. reported \in Address
    <2>1. Parses16(reported.port)
      BY DEF Refused
    <2>2. \A port : Parses16(port) => port \in Int
      BY DEF Parses16
    <2>3. reported.host \in Hosts /\ reported = [host |-> reported.host, port |-> reported.port]
      BY DEF Name
    <2> QED
      BY <2>1, <2>2, <2>3 DEF Address
  <1>2. ASSUME NEW front \in {given.ingress, given.gateway} \ {Unset}, NEW default \in Nat
        PROVE  Parsed(front, default) \in Address
    <2>1. front \in Name
      BY DEF SpecType, HostPort
    <2>2. front.host \in Hosts /\ (front.port # NoPort => front.port \in Nat)
      BY <2>1 DEF Refused, Name
    <2> QED
      BY <2>2 DEF Parsed, HasPort, Address
  <1>3. DefaultPort.gateway \in Nat /\ DefaultPort.ingress \in Nat
    BY DEF DefaultPort
  <1>4. ControlPlaneEndpoint(given, reported) \in Address
    BY <1>1, <1>2, <1>3 DEF ControlPlaneEndpoint
  <1>5. ASSUME NEW a \in Address
        PROVE  [a EXCEPT !.port = Int32(@)] \in Address
    <2>1. Int32(a.port) \in Int
      BY Int32Type DEF Address
    <2> QED
      BY <2>1 DEF Address
  <1> QED
    BY <1>4, <1>5

\* A merge patch of an address gives an address.
LEMMA MergedType ==
    ASSUME NEW old \in Address, NEW copied \in Address, NEW target \in Address
    PROVE  Merged(old, copied, target) \in Address
  BY DEF Merged, Address

\* Decoding an answer gives a spec, the answer itself if the copy was equal to it.
LEMMA DecodedType ==
    ASSUME NEW copied \in SpecType, NEW answer \in SpecType
    PROVE  /\ Decoded(copied, answer) \in SpecType
           /\ copied = answer => Decoded(copied, answer) = answer
  <1>1. Set(copied.ingress, answer.ingress) \in HostPort
    BY DEF Set, SpecType
  <1>2. Set(copied.gateway, answer.gateway) \in HostPort
    BY DEF Set, SpecType
  <1>3. Decoded(copied, answer) =
          [answer EXCEPT !.ingress = Set(copied.ingress, answer.ingress),
                         !.gateway = Set(copied.gateway, answer.gateway)]
    BY DEF Decoded, SpecType
  <1>4. ASSUME copied = answer
        PROVE  Decoded(copied, answer) = answer
    BY <1>3, <1>4 DEF Set, SpecType
  <1> QED
    BY <1>1, <1>2, <1>3, <1>4 DEF SpecType

\* Reconcile goes on only with an address.
GotAddress == pc \in {"patch", "infra"} => got # Unset

TypeInv == TypeOK /\ GotAddress

LEMMA InitType == Init => TypeInv
  <1> SUFFICES ASSUME Init PROVE TypeInv
    OBVIOUS
  <1>1. spec \in SpecType
    <2>1. NoSpec.annotations \in Annotations /\ NoSpec.plain \in Optional
      BY NullValues DEF SpecType, Optional
    <2>2. [NoSpec.annotations EXCEPT !["lastApplied"] = NoSpec.plain] \in Annotations
      BY <2>1 DEF Annotations
    <2>3. spec = [NoSpec EXCEPT !.annotations =
                    [NoSpec.annotations EXCEPT !["lastApplied"] = NoSpec.plain]]
      BY NullValues DEF Init, SpecType
    <2> QED
      BY <2>2, <2>3, NullValues DEF SpecType
  <1>2. /\ ep \in Address /\ tcp \in TenantType /\ address \in HostPort
        /\ infra \in Address /\ iview \in Address
        /\ copy \in [spec : SpecType, ep : Address, network : NetworkType]
        /\ got \in HostPort
    BY NullValues DEF Init
  <1>3. /\ view \in [spec : SpecType, ep : Address]
        /\ tview \in [tcp : TenantType, address : HostPort]
    BY <1>1, <1>2 DEF Init
  <1>4. network \in NetworkType
    BY WritesAssumption DEF Init
  <1> QED
    BY <1>1, <1>2, <1>3, <1>4 DEF Init, TypeInv, TypeOK, GotAddress

\* Returning from Reconcile leaves its variables with their types.
LEMMA ReturnType ==
    ASSUME TypeInv, NEW again \in BOOLEAN, Return(again)
    PROVE  /\ queue' \in BOOLEAN
           /\ pc' \in {"idle", "tcp", "patch", "infra"}
           /\ copy' \in [spec : SpecType, ep : Address, network : NetworkType]
           /\ got' \in HostPort
           /\ GotAddress'
  BY NullValues DEF Return, TypeInv, TypeOK, GotAddress

LEMMA CreateOrUpdateType ==
    ASSUME TypeInv, CreateOrUpdateTenantControlPlane
    PROVE  TypeInv'
  <1> DEFINE new == Projected(tview.tcp, copy.spec, copy.network)
             GoOn(reported) == IF reported = Unset
                                 THEN Return(TRUE)
                                 ELSE pc' = "patch" /\ got' = reported /\ UNCHANGED <<copy, queue>>
  <1>1. /\ \/ Return(TRUE) /\ UNCHANGED tcp
           \/ GoOn(tview.address) /\ UNCHANGED tcp
           \/ tcp' = new /\ GoOn(address)
        /\ UNCHANGED <<spec, ep, view, network, pause, address, tview, infra, iview,
                       changes, faults>>
    BY DEF CreateOrUpdateTenantControlPlane
  <1>2. new \in TenantType
    BY ProjectedType DEF TypeInv, TypeOK
  <1>3. tcp' \in TenantType
    <2> HIDE DEF new, GoOn
    <2> QED
      BY <1>1, <1>2 DEF TypeInv, TypeOK
  <1>4. PICK reported \in HostPort : Return(TRUE) \/ GoOn(reported)
    <2>1. tview.address \in HostPort /\ address \in HostPort
      BY DEF TypeInv, TypeOK
    <2> HIDE DEF new, GoOn
    <2> QED
      BY <1>1, <2>1
  <1>5. /\ queue' \in BOOLEAN
        /\ pc' \in {"idle", "tcp", "patch", "infra"}
        /\ copy' \in [spec : SpecType, ep : Address, network : NetworkType]
        /\ got' \in HostPort
        /\ GotAddress'
    <2>1. CASE Return(TRUE)
      BY <2>1, ReturnType
    <2>2. CASE ~Return(TRUE)
      <3>1. reported # Unset /\ pc' = "patch" /\ got' = reported /\ UNCHANGED <<copy, queue>>
        BY <1>4, <2>2
      <3> QED
        BY <3>1 DEF TypeInv, TypeOK, GotAddress
    <2> QED
      BY <2>1, <2>2
  <1> HIDE DEF new, GoOn
  <1> QED
    BY <1>1, <1>3, <1>5 DEF TypeInv, TypeOK

LEMMA PatchEndpointType ==
    ASSUME TypeInv, PatchControlPlaneEndpoint
    PROVE  TypeInv'
  <1> DEFINE target == [ControlPlaneEndpoint(copy.spec, got) EXCEPT !.port = Int32(@)]
  <1>1. got \in Name
    BY DEF PatchControlPlaneEndpoint, TypeInv, TypeOK, GotAddress, HostPort
  <1>2. copy.spec \in SpecType /\ copy.ep \in Address /\ spec \in SpecType
    BY DEF TypeInv, TypeOK
  <1>3. UNCHANGED <<spec, view, network, pause, tcp, address, tview, infra, iview,
                    changes, faults>>
    BY DEF PatchControlPlaneEndpoint
  <1>4. CASE Return(TRUE) /\ UNCHANGED ep
    BY <1>3, <1>4, ReturnType DEF TypeInv, TypeOK
  <1>5. CASE /\ ~Refused(copy.spec, got)
             /\ ep' = Merged(ep, copy.ep, target)
             /\ copy' = [copy EXCEPT !.spec = Decoded(@, spec), !.ep = ep']
             /\ pc' = "infra"
             /\ UNCHANGED <<queue, got>>
    <2>1. target \in Address
      BY <1>1, <1>2, <1>5, EndpointType
    <2> HIDE DEF target
    <2>2. ep' \in Address
      BY <1>2, <1>5, <2>1, MergedType DEF TypeInv, TypeOK
    <2>3. Decoded(copy.spec, spec) \in SpecType
      BY <1>2, DecodedType
    <2>4. copy' \in [spec : SpecType, ep : Address, network : NetworkType]
      BY <1>5, <2>2, <2>3 DEF TypeInv, TypeOK
    <2>5. pc = "patch"
      BY DEF PatchControlPlaneEndpoint
    <2> QED
      BY <1>3, <1>5, <2>2, <2>4, <2>5 DEF TypeInv, TypeOK, GotAddress
  <1> QED
    BY <1>4, <1>5 DEF PatchControlPlaneEndpoint

LEMMA PatchClusterType ==
    ASSUME TypeInv, PatchCluster
    PROVE  TypeInv'
  <1>1. got \in Name /\ copy.spec \in SpecType
    BY DEF PatchCluster, TypeInv, TypeOK, GotAddress, HostPort
  <1>2. infra' \in Address
    <2>1. CASE UNCHANGED infra
      BY <2>1 DEF TypeInv, TypeOK
    <2>2. CASE /\ ~Refused(copy.spec, got)
               /\ infra' = MergedInfra(infra, iview, ControlPlaneEndpoint(copy.spec, got))
      <3>1. ControlPlaneEndpoint(copy.spec, got) \in Address
        BY <1>1, <2>2, EndpointType
      <3> QED
        BY <2>2, <3>1, MergedType DEF MergedInfra, TypeInv, TypeOK
    <2> QED
      BY <2>1, <2>2 DEF PatchCluster
  <1>3. PICK again \in BOOLEAN : Return(again)
    BY DEF PatchCluster
  <1>4. UNCHANGED <<spec, ep, view, network, pause, tcp, address, tview, iview, changes, faults>>
    BY DEF PatchCluster
  <1> QED
    BY <1>2, <1>3, <1>4, ReturnType DEF TypeInv, TypeOK

\* The worker's other steps and the caches.
LEMMA WorkerType ==
    ASSUME TypeInv,
           \/ Begin \/ CallFails
           \/ CacheSync \/ TenantCacheSync \/ InfraCacheSync \/ Resync
    PROVE  TypeInv'
  <1>1. CASE Begin
    <2>1. [spec |-> view.spec, ep |-> view.ep, network |-> network]
             \in [spec : SpecType, ep : Address, network : NetworkType]
      BY DEF TypeInv, TypeOK
    <2>2. /\ copy' \in [spec : SpecType, ep : Address, network : NetworkType]
          /\ pc' \in {"idle", "tcp"}
      BY <1>1, <2>1 DEF Begin, TypeInv, TypeOK
    <2> QED
      BY <1>1, <2>2 DEF Begin, TypeInv, TypeOK, GotAddress
  <1>2. CASE CallFails
    <2>1. Return(TRUE)
      BY <1>2 DEF CallFails
    <2>2. faults' \in Nat
      BY <1>2 DEF CallFails, TypeInv, TypeOK
    <2> QED
      BY <1>2, <2>1, <2>2, ReturnType DEF CallFails, TypeInv, TypeOK
  <1>3. CASE CacheSync
    BY <1>3 DEF CacheSync, TypeInv, TypeOK, GotAddress
  <1>4. CASE TenantCacheSync
    BY <1>4 DEF TenantCacheSync, TypeInv, TypeOK, GotAddress
  <1>5. CASE InfraCacheSync \/ Resync
    BY <1>5 DEF InfraCacheSync, Resync, TypeInv, TypeOK, GotAddress
  <1> QED
    BY <1>1, <1>2, <1>3, <1>4, <1>5

\* What others write to the TenantControlPlane.
LEMMA OthersAnnotateType ==
    ASSUME TypeInv, NEW k \in {"note", "lastApplied"}, NEW v \in Values, OthersAnnotate(k, v)
    PROVE  TypeInv' /\ tcp'.rev = tcp.rev + 1
  <1>1. tcp.rev \in Nat /\ tcp.annotations \in Annotations
    BY DEF TypeInv, TypeOK, TenantType
  <1>2. [tcp.annotations EXCEPT ![k] = v] \in Annotations
    <2>1. v \in Optional
      BY DEF Optional
    <2> QED
      BY <1>1, <2>1 DEF Annotations
  <1>3. tcp' = [tcp EXCEPT !.rev = @ + 1, !.annotations[k] = v]
    BY DEF OthersAnnotate
  <1>4. tcp' \in TenantType /\ tcp'.rev = tcp.rev + 1
    <2> DEFINE rev == tcp.rev + 1
               annotations == [tcp.annotations EXCEPT ![k] = v]
    <2>1. rev \in Nat
      BY <1>1
    <2>2. tcp' = [tcp EXCEPT !.rev = rev, !.annotations = annotations]
      BY <1>3
    <2> HIDE DEF rev, annotations
    <2>3. tcp' \in TenantType /\ tcp'.rev = rev
      BY <1>2, <2>1, <2>2 DEF TypeInv, TypeOK, TenantType, annotations
    <2> QED
      BY <2>3 DEF rev
  <1> QED
    BY <1>4 DEF OthersAnnotate, Write, TypeInv, TypeOK, GotAddress

LEMMA StewardReportsType ==
    ASSUME TypeInv, NEW a \in Reports, StewardReports(a)
    PROVE  TypeInv' /\ tcp'.rev = tcp.rev + 1
  <1>1. tcp.rev \in Nat
    BY DEF TypeInv, TypeOK, TenantType
  <1>2. tcp' = [tcp EXCEPT !.rev = tcp.rev + 1]
    BY DEF StewardReports, TypeInv, TypeOK, TenantType
  <1>3. tcp' \in TenantType /\ tcp'.rev = tcp.rev + 1
    BY <1>1, <1>2 DEF TypeInv, TypeOK, TenantType
  <1>4. address' \in HostPort
    BY WritesAssumption DEF StewardReports, HostPort
  <1> QED
    BY <1>3, <1>4 DEF StewardReports, Write, TypeInv, TypeOK, GotAddress

LEMMA OthersType ==
    ASSUME TypeInv, Others
    PROVE  TypeInv'
  <1>1. ASSUME NEW e \in Edits, UserEdits(e[1], e[2])
        PROVE  TypeInv'
    <2>1. spec' \in SpecType
      BY <1>1, EditedType DEF UserEdits, TypeInv, TypeOK
    <2> QED
      BY <1>1, <2>1 DEF UserEdits, Change, TypeInv, TypeOK, GotAddress
  <1>2. CASE NetworkChanges
    BY <1>2, WritesAssumption DEF NetworkChanges, Change, TypeInv, TypeOK, GotAddress
  <1>3. CASE PauseChanges
    BY <1>3 DEF PauseChanges, Change, TypeInv, TypeOK, GotAddress
  <1> QED
    BY <1>1, <1>2, <1>3, OthersAnnotateType, StewardReportsType DEF Others

LEMMA NextType == TypeInv /\ [Next]_vars => TypeInv'
  <1> SUFFICES ASSUME TypeInv, [Next]_vars PROVE TypeInv'
    OBVIOUS
  <1>1. CASE UNCHANGED vars
    BY <1>1 DEF vars, TypeInv, TypeOK, GotAddress
  <1> QED
    BY <1>1, CreateOrUpdateType, PatchEndpointType, PatchClusterType, WorkerType, OthersType
    DEF Next, Step

(***************************************************************************)
(* Everything Reconcile reads and writes has its type: in particular, what *)
(* it writes as an endpoint is a host and a number, whichever of the spec  *)
(* and of the reported address it has read, because it goes on only with   *)
(* an address and refuses what does not parse.                             *)
(***************************************************************************)
THEOREM TypeCorrect == Spec => []TypeOK
  <1>1. TypeInv => TypeOK
    BY DEF TypeInv
  <1> QED
    BY <1>1, InitType, NextType, PTL DEF Spec

-----------------------------------------------------------------------------
(***************************************************************************)
(* What others have written stays.                                         *)
(***************************************************************************)

\* The worker changes the TenantControlPlane only from what it is.
LEMMA TenantStep ==
    ASSUME TypeInv, Step
    PROVE  \/ UNCHANGED tcp
           \/ TenantCurrent /\ tcp' = Projected(tcp, copy.spec, copy.network)
  <1>1. CASE CreateOrUpdateTenantControlPlane
    <2>1. \/ UNCHANGED tcp
          \/ TenantCurrent /\ tcp' = Projected(tview.tcp, copy.spec, copy.network)
      BY <1>1 DEF CreateOrUpdateTenantControlPlane
    <2> QED
      BY <2>1 DEF TenantCurrent
  <1>2. CASE PatchControlPlaneEndpoint
    BY <1>2 DEF PatchControlPlaneEndpoint
  <1>3. CASE PatchCluster
    BY <1>3 DEF PatchCluster
  <1> QED
    BY <1>1, <1>2, <1>3 DEF Step

(***************************************************************************)
(* OthersKept: a reconciliation never takes away an annotation that        *)
(* somebody else has given the TenantControlPlane, nor touches its         *)
(* last-applied configuration.  The update is refused unless what was read *)
(* is still there, and the merge keeps both.                               *)
(***************************************************************************)
THEOREM OthersAreKept == Spec => OthersKept
  <1> DEFINE Kept == Step =>
               /\ tcp'.annotations["lastApplied"] = tcp.annotations["lastApplied"]
               /\ tcp.annotations["note"] # Unset => tcp'.annotations["note"] # Unset
  <1>1. TypeInv /\ [Next]_vars => [Kept]_vars
    <2> SUFFICES ASSUME TypeInv, Step
                 PROVE  /\ tcp'.annotations["lastApplied"] = tcp.annotations["lastApplied"]
                        /\ tcp.annotations["note"] # Unset => tcp'.annotations["note"] # Unset
      OBVIOUS
    <2>1. tcp.annotations \in Annotations /\ copy.spec.annotations \in Annotations
      BY DEF TypeInv, TypeOK, TenantType, SpecType
    <2>2. CASE UNCHANGED tcp
      BY <2>2
    <2>3. CASE tcp' = Projected(tcp, copy.spec, copy.network)
      <3>1. tcp'.annotations = MergedAnnotations(tcp.annotations, copy.spec.annotations)
        BY <2>3 DEF Projected
      <3> QED
        BY <2>1, <3>1, MergedAnnotationsType
    <2> QED
      BY <2>2, <2>3, TenantStep
  <1> HIDE DEF Kept
  <1>2. Spec => [][Kept]_vars
    BY <1>1, InitType, NextType, PTL DEF Spec
  <1> QED
    BY <1>2 DEF Kept, OthersKept

-----------------------------------------------------------------------------
(***************************************************************************)
(* At rest, everything has been carried over.                              *)
(*                                                                         *)
(* RestIsSettled speaks of the end of a reconciliation.  What it has done  *)
(* so far has to be known after each of its steps, as long as nothing is   *)
(* in the queue: then the caches are what they were when it began.  Either *)
(* they are behind, and an event is still to come, or what it has read is  *)
(* current and what it has written so far is what RestIsSettled asks for.  *)
(***************************************************************************)

\* A cache has nothing that has not been written.
NeverAhead == tview.tcp.rev <= tcp.rev /\ view.spec.rev <= spec.rev

\* Reconcile works on what is in the cache.
CopyIsView == ~queue /\ pc \in {"tcp", "patch"} => copy.spec = view.spec /\ copy.ep = view.ep

\* Once it has left the TenantControlPlane as it is, that is as the spec asks for.
TenantSettled ==
    ~queue /\ pc \in {"patch", "infra"} /\ TenantCurrent =>
       /\ Supported(view.spec.sans)
       /\ tcp = Projected(tcp, view.spec, copy.network)
       /\ got = address

\* Once it has patched the endpoint and the cache agrees, it is the right one.
EndpointSettled ==
    ~queue /\ pc = "infra" /\ view = [spec |-> spec, ep |-> ep] =>
       /\ copy.spec = spec
       /\ ~Refused(spec, got)
       /\ ep = [ControlPlaneEndpoint(spec, got) EXCEPT !.port = Int32(@)]

RestInv ==
    TypeInv /\ NeverAhead /\ CopyIsView /\ TenantSettled /\ EndpointSettled /\ RestIsSettled

LEMMA InitRest == Init => RestInv
  <1> SUFFICES ASSUME Init PROVE RestInv
    OBVIOUS
  <1>1. TypeInv
    BY InitType
  <1>2. NeverAhead
    <2>1. tview.tcp = tcp /\ view.spec = spec
      BY DEF Init
    <2>2. tcp.rev \in Nat /\ spec.rev \in Nat
      BY <1>1 DEF TypeInv, TypeOK, TenantType, SpecType
    <2> QED
      BY <2>1, <2>2 DEF NeverAhead
  <1>3. queue
    BY DEF Init
  <1> QED
    BY <1>1, <1>2, <1>3
    DEF RestInv, CopyIsView, TenantSettled, EndpointSettled, RestIsSettled, AtRest

\* What the projection leaves as it is has what the spec asks for.
LEMMA ProjectedIsApplied ==
    ASSUME TypeOK, NEW net, tcp = Projected(tcp, spec, net)
    PROVE  Applied
  <1>1. tcp.annotations \in Annotations /\ spec.annotations \in Annotations
    BY DEF TypeOK, TenantType, SpecType
  <1>2. /\ tcp.plain = spec.plain
        /\ tcp.ranges = Set(tcp.ranges, spec.ranges)
        /\ tcp.dns = ProjectedDNS(spec)
        /\ tcp.annotations = MergedAnnotations(tcp.annotations, spec.annotations)
        /\ tcp.sans = ProjectedSANs(tcp.sans, spec)
    BY DEF Projected
  <1>3. spec.ranges # Unset => tcp.ranges = spec.ranges
    BY <1>2 DEF Set
  <1>4. /\ spec.annotations["note"] # Unset =>
             tcp.annotations["note"] = spec.annotations["note"]
        /\ tcp.annotations["secretKey"] = spec.annotations["secretKey"]
    BY <1>1, <1>2, MergedAnnotationsType
  <1>5. ASSUME NEW h \in Hosts
        PROVE  [host |-> h, port |-> NoPort] \in tcp.sans <=>
                 \/ [host |-> h, port |-> NoPort] \in spec.sans
                 \/ \E front \in {spec.ingress, spec.gateway} \ {Unset} : front.host = h
    <2>1. ASSUME NEW front \in {spec.ingress, spec.gateway} \ {Unset}
          PROVE  Bare(front) = [host |-> front.host, port |-> NoPort]
      BY DEF Bare, TypeOK, SpecType, HostPort, Name
    <2>2. tcp.sans = spec.sans \cup {Bare(front) : front \in {spec.ingress, spec.gateway} \ {Unset}}
      BY <1>2 DEF ProjectedSANs
    <2>3. [host |-> h, port |-> NoPort] \in
             {Bare(front) : front \in {spec.ingress, spec.gateway} \ {Unset}}
          <=> \E front \in {spec.ingress, spec.gateway} \ {Unset} : front.host = h
      BY <2>1
    <2> QED
      BY <2>2, <2>3
  <1> QED
    BY <1>2, <1>3, <1>4, <1>5 DEF Applied

\* A merge patch that ends in what the copy had has ended in the target.
LEMMA MergedToCopy ==
    ASSUME NEW old \in Address, NEW copied \in Address, NEW target \in Address,
           Merged(old, copied, target) = copied
    PROVE  copied = target
  <1>1. copied.host = target.host /\ copied.port = target.port
    BY DEF Merged
  <1> QED
    BY <1>1 DEF Address

\* While something is in the queue, there is nothing else to show.
LEMMA QueuedRest ==
    ASSUME TypeInv', NeverAhead', queue'
    PROVE  RestInv'
  BY DEF RestInv, CopyIsView, TenantSettled, EndpointSettled, RestIsSettled, AtRest

LEMMA NeverAheadStep ==
    ASSUME TypeInv, NeverAhead, [Next]_vars
    PROVE  NeverAhead'
  <1>1. tview.tcp.rev \in Nat /\ tcp.rev \in Nat /\ view.spec.rev \in Nat /\ spec.rev \in Nat
    BY DEF TypeInv, TypeOK, TenantType, SpecType
  <1>2. CASE Step
    <2>1. UNCHANGED <<spec, view, tview>>
      BY <1>2 DEF Step, CreateOrUpdateTenantControlPlane, PatchControlPlaneEndpoint, PatchCluster
    <2>2. tcp'.rev = tcp.rev
      BY <1>2, TenantStep DEF Projected
    <2> QED
      BY <2>1, <2>2 DEF NeverAhead
  <1>3. CASE CacheSync
    <2>1. view'.spec = spec /\ UNCHANGED <<spec, tcp, tview>>
      BY <1>3 DEF CacheSync
    <2> QED
      BY <1>1, <2>1 DEF NeverAhead
  <1>4. CASE TenantCacheSync
    <2>1. tview'.tcp = tcp /\ UNCHANGED <<spec, view, tcp>>
      BY <1>4 DEF TenantCacheSync
    <2> QED
      BY <1>1, <2>1 DEF NeverAhead
  <1>5. ASSUME NEW e \in Edits, UserEdits(e[1], e[2])
        PROVE  NeverAhead'
    <2>1. spec'.rev = spec.rev + 1 /\ UNCHANGED <<view, tcp, tview>>
      BY <1>5, EditedType DEF UserEdits, Change, TypeInv, TypeOK
    <2> QED
      BY <1>1, <2>1 DEF NeverAhead
  <1>6. ASSUME NEW k \in {"note", "lastApplied"}, NEW v \in Values, OthersAnnotate(k, v)
        PROVE  NeverAhead'
    <2>1. tcp'.rev = tcp.rev + 1 /\ UNCHANGED <<spec, view, tview>>
      BY <1>6, OthersAnnotateType DEF OthersAnnotate, Write
    <2> QED
      BY <1>1, <2>1 DEF NeverAhead
  <1>7. ASSUME NEW a \in Reports, StewardReports(a)
        PROVE  NeverAhead'
    <2>1. tcp'.rev = tcp.rev + 1 /\ UNCHANGED <<spec, view, tview>>
      BY <1>7, StewardReportsType DEF StewardReports, Write
    <2> QED
      BY <1>1, <2>1 DEF NeverAhead
  <1>8. CASE \/ Begin \/ CallFails \/ InfraCacheSync \/ Resync \/ NetworkChanges \/ PauseChanges
             \/ UNCHANGED vars
    <2>1. UNCHANGED <<spec, view, tcp, tview>>
      BY <1>8 DEF Begin, CallFails, InfraCacheSync, Resync, NetworkChanges, PauseChanges,
                  Change, vars
    <2> QED
      BY <2>1 DEF NeverAhead
  <1> QED
    BY <1>2, <1>3, <1>4, <1>5, <1>6, <1>7, <1>8 DEF Next, Others

LEMMA BeginRest ==
    ASSUME RestInv, TypeInv', NeverAhead', Begin
    PROVE  RestInv'
  <1>1. CASE pause = "paused"
    <2>1. pc' = "idle" /\ pause' = "paused"
      BY <1>1 DEF Begin
    <2> QED
      BY <2>1 DEF RestInv, CopyIsView, TenantSettled, EndpointSettled, RestIsSettled
  <1>2. CASE pause # "paused"
    <2>1. /\ pc' = "tcp" /\ UNCHANGED view
          /\ copy' = [spec |-> view.spec, ep |-> view.ep, network |-> network]
      BY <1>2 DEF Begin
    <2> QED
      BY <2>1 DEF RestInv, CopyIsView, TenantSettled, EndpointSettled, RestIsSettled, AtRest
  <1> QED
    BY <1>1, <1>2

LEMMA CreateOrUpdateRest ==
    ASSUME RestInv, TypeInv', NeverAhead', CreateOrUpdateTenantControlPlane
    PROVE  RestInv'
  <1> SUFFICES ASSUME ~queue' PROVE RestInv'
    BY QueuedRest
  <1> DEFINE new == Projected(tview.tcp, copy.spec, copy.network)
             GoesOn(reported) == pc' = "patch" /\ got' = reported /\ UNCHANGED <<copy, queue>>
  <1>1. /\ pc = "tcp"
        /\ UNCHANGED <<view, tview, address>>
    BY DEF CreateOrUpdateTenantControlPlane
  <1>2. /\ Supported(copy.spec.sans)
        /\ \/ new = tview.tcp /\ GoesOn(tview.address) /\ UNCHANGED tcp
           \/ new # tview.tcp /\ tcp' = new /\ GoesOn(address)
    BY DEF CreateOrUpdateTenantControlPlane, Return
  <1>3. pc' = "patch" /\ UNCHANGED <<copy, queue>>
    BY <1>2
  <1>4. copy.spec = view.spec /\ copy.ep = view.ep
    BY <1>1, <1>3 DEF RestInv, CopyIsView
  <1>5. ASSUME TenantCurrent'
        PROVE  /\ Supported(view.spec.sans)
               /\ tcp' = Projected(tcp', view.spec, copy.network)
               /\ got' = address
    <2>1. tview.tcp = tcp' /\ tview.address = address
      BY <1>1, <1>5 DEF TenantCurrent
    <2> QED
      BY <1>2, <1>4, <2>1
  <1>6. TenantSettled'
    <2>1. UNCHANGED <<view, copy, address>>
      BY <1>1, <1>3
    <2> HIDE DEF new, GoesOn
    <2> QED
      BY <1>5, <2>1 DEF TenantSettled
  <1> QED
    BY <1>1, <1>3, <1>4, <1>6
    DEF RestInv, CopyIsView, EndpointSettled, RestIsSettled, AtRest

LEMMA PatchEndpointRest ==
    ASSUME RestInv, TypeInv', NeverAhead', PatchControlPlaneEndpoint
    PROVE  RestInv'
  <1> SUFFICES ASSUME ~queue' PROVE RestInv'
    BY QueuedRest
  <1> DEFINE target(s) == [ControlPlaneEndpoint(s, got) EXCEPT !.port = Int32(@)]
  <1>1. /\ pc = "patch" /\ pc' = "infra"
        /\ ~Refused(copy.spec, got)
        /\ ep' = Merged(ep, copy.ep, target(copy.spec))
        /\ copy' = [copy EXCEPT !.spec = Decoded(@, spec), !.ep = ep']
        /\ UNCHANGED <<queue, got, spec, view, tcp, address, tview>>
    BY DEF PatchControlPlaneEndpoint, Return
  <1>2. copy.spec = view.spec /\ copy.ep = view.ep
    BY <1>1 DEF RestInv, CopyIsView
  <1>3. copy'.network = copy.network /\ copy'.spec = Decoded(copy.spec, spec)
    BY <1>1 DEF RestInv, TypeInv, TypeOK
  <1>4. TenantSettled'
    <2>1. TenantCurrent' <=> TenantCurrent
      BY <1>1 DEF TenantCurrent
    <2> HIDE DEF target
    <2> QED
      BY <1>1, <1>3, <2>1 DEF RestInv, TenantSettled
  <1>5. EndpointSettled'
    <2> SUFFICES ASSUME view = [spec |-> spec, ep |-> ep']
                 PROVE  copy'.spec = spec /\ ~Refused(spec, got) /\ ep' = target(spec)
      BY <1>1 DEF EndpointSettled
    <2>1. copy.spec = spec /\ copy.ep = ep'
      BY <1>2
    <2>2. /\ spec \in SpecType /\ got \in Name /\ copy.ep \in Address /\ ep \in Address
      BY <1>1 DEF RestInv, TypeInv, TypeOK, GotAddress, HostPort
    <2>3. copy'.spec = spec
      BY <1>3, <2>1, <2>2, DecodedType
    <2>4. ~Refused(spec, got)
      BY <1>1, <2>1
    <2>5. target(spec) \in Address
      BY <2>2, <2>4, EndpointType
    <2>6. Merged(ep, copy.ep, target(spec)) = copy.ep
      BY <1>1, <2>1
    <2> HIDE DEF target
    <2>7. copy.ep = target(spec)
      BY <2>2, <2>5, <2>6, MergedToCopy
    <2> QED
      BY <2>1, <2>3, <2>4, <2>7
  <1> HIDE DEF target
  <1> QED
    BY <1>1, <1>4, <1>5 DEF RestInv, CopyIsView, RestIsSettled, AtRest

LEMMA PatchClusterRest ==
    ASSUME RestInv, TypeInv', NeverAhead', PatchCluster
    PROVE  RestInv'
  <1> SUFFICES ASSUME ~queue' PROVE RestInv'
    BY QueuedRest
  <1>1. /\ pc = "infra" /\ pc' = "idle" /\ ~queue
        /\ UNCHANGED <<spec, ep, view, tcp, address, tview>>
    BY DEF PatchCluster, Return
  <1>2. RestIsSettled'
    <2> SUFFICES ASSUME view = [spec |-> spec, ep |-> ep], TenantCurrent
                 PROVE  /\ Supported(spec.sans) /\ Applied'
                        /\ address # Unset /\ ~Refused(spec, address)
                        /\ ep = [ControlPlaneEndpoint(spec, address) EXCEPT !.port = Int32(@)]
      BY <1>1 DEF RestIsSettled, AtRest, TenantCurrent
    <2>1. /\ Supported(spec.sans)
          /\ tcp = Projected(tcp, spec, copy.network)
          /\ got = address
      BY <1>1 DEF RestInv, TenantSettled
    <2>2. /\ copy.spec = spec
          /\ ~Refused(spec, got)
          /\ ep = [ControlPlaneEndpoint(spec, got) EXCEPT !.port = Int32(@)]
      BY <1>1 DEF RestInv, EndpointSettled
    <2>3. Applied
      BY <2>1, ProjectedIsApplied DEF RestInv, TypeInv
    <2>4. Applied'
      BY <1>1, <2>3 DEF Applied
    <2>5. got # Unset
      BY <1>1 DEF RestInv, TypeInv, GotAddress
    <2> QED
      BY <1>1, <2>1, <2>2, <2>4, <2>5
  <1> QED
    BY <1>1, <1>2 DEF RestInv, CopyIsView, TenantSettled, EndpointSettled

\* An edit of the spec leaves the cache behind.
LEMMA UserEditsRest ==
    ASSUME RestInv, TypeInv', NeverAhead', NEW e \in Edits, UserEdits(e[1], e[2])
    PROVE  RestInv'
  <1>1. /\ spec'.rev = spec.rev + 1
        /\ UNCHANGED <<ep, view, tcp, address, tview, queue, pc, copy, got>>
    BY EditedType DEF UserEdits, Change, RestInv, TypeInv, TypeOK
  <1>2. view.spec # spec'
    <2>1. view.spec.rev \in Nat /\ spec.rev \in Nat /\ view.spec.rev <= spec.rev
      BY DEF RestInv, NeverAhead, TypeInv, TypeOK, SpecType
    <2> QED
      BY <1>1, <2>1
  <1>3. view' # [spec |-> spec', ep |-> ep']
    BY <1>1, <1>2
  <1>4. CopyIsView' /\ TenantSettled'
    BY <1>1 DEF RestInv, CopyIsView, TenantSettled, TenantCurrent
  <1> QED
    BY <1>3, <1>4 DEF RestInv, EndpointSettled, RestIsSettled, AtRest

\* A write of others to the TenantControlPlane leaves its cache behind.
LEMMA WriteRest ==
    ASSUME RestInv, TypeInv', NeverAhead', Write, tcp'.rev = tcp.rev + 1
    PROVE  RestInv'
  <1>1. UNCHANGED <<spec, ep, view, pause, tview, queue, pc, copy, got>>
    BY DEF Write
  <1>2. ~TenantCurrent'
    <2>1. tview.tcp.rev \in Nat /\ tcp.rev \in Nat /\ tview.tcp.rev <= tcp.rev
      BY DEF RestInv, NeverAhead, TypeInv, TypeOK, TenantType
    <2>2. tview.tcp # tcp'
      BY <2>1
    <2> QED
      BY <1>1, <2>2 DEF TenantCurrent
  <1>3. CopyIsView' /\ EndpointSettled'
    BY <1>1 DEF RestInv, CopyIsView, EndpointSettled
  <1> QED
    BY <1>2, <1>3 DEF RestInv, TenantSettled, RestIsSettled, AtRest

\* What nothing watches: the Cluster's network, the pause, the cache of the
\* infrastructure cluster, and a stuttering step.
LEMMA UnwatchedRest ==
    ASSUME RestInv, TypeInv', NeverAhead',
           NetworkChanges \/ PauseChanges \/ InfraCacheSync \/ UNCHANGED vars
    PROVE  RestInv'
  <1>1. /\ UNCHANGED <<spec, ep, view, tcp, address, tview, queue, pc, copy, got>>
        /\ pause' = "never" => pause = "never"
    BY DEF NetworkChanges, PauseChanges, InfraCacheSync, Change, vars
  <1>2. CopyIsView' /\ TenantSettled' /\ EndpointSettled'
    BY <1>1 DEF RestInv, CopyIsView, TenantSettled, TenantCurrent, EndpointSettled
  <1>3. AtRest' <=> AtRest
    BY <1>1 DEF AtRest, TenantCurrent
  <1>4. Applied' <=> Applied
    BY <1>1 DEF Applied
  <1>5. RestIsSettled'
    BY <1>1, <1>3, <1>4 DEF RestInv, RestIsSettled
  <1> QED
    BY <1>2, <1>5 DEF RestInv

LEMMA NextRest == RestInv /\ [Next]_vars => RestInv'
  <1> SUFFICES ASSUME RestInv, [Next]_vars PROVE RestInv'
    OBVIOUS
  <1>1. TypeInv' /\ NeverAhead'
    BY NextType, NeverAheadStep DEF RestInv
  <1>2. CASE CallFails \/ CacheSync \/ TenantCacheSync \/ Resync
    BY <1>1, <1>2, QueuedRest DEF CallFails, Return, CacheSync, TenantCacheSync, Resync
  <1>3. ASSUME NEW k \in {"note", "lastApplied"}, NEW v \in Values, OthersAnnotate(k, v)
        PROVE  RestInv'
    BY <1>1, <1>3, OthersAnnotateType, WriteRest DEF OthersAnnotate, RestInv
  <1>4. ASSUME NEW a \in Reports, StewardReports(a)
        PROVE  RestInv'
    BY <1>1, <1>4, StewardReportsType, WriteRest DEF StewardReports, RestInv
  <1> QED
    BY <1>1, <1>2, <1>3, <1>4, BeginRest, CreateOrUpdateRest, PatchEndpointRest,
       PatchClusterRest, UserEditsRest, UnwatchedRest
    DEF Next, Step, Others

(***************************************************************************)
(* RestIsSettled: whenever the worker is idle, the queue empty and the     *)
(* caches of the StewardControlPlane and of the TenantControlPlane         *)
(* current, the TenantControlPlane has what the spec asks for, and the     *)
(* StewardControlPlane the endpoint that the spec and the reported address *)
(* call for, whatever was read late, refused, failed or written by others  *)
(* on the way.  The infrastructure cluster, which nothing watches, is not  *)
(* part of this: InfraFollows is about it, and is only model-checked.      *)
(***************************************************************************)
THEOREM RestSettles == Spec => []RestIsSettled
  <1>1. RestInv => RestIsSettled
    BY DEF RestInv
  <1> QED
    BY <1>1, InitRest, NextRest, PTL DEF Spec
=============================================================================
