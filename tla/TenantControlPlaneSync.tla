----------------------- MODULE TenantControlPlaneSync -----------------------
(***************************************************************************)
(* What Reconcile copies from one object to another.                       *)
(*                                                                         *)
(* Down: createOrUpdateTenantControlPlane projects the StewardControlPlane *)
(* and the Cluster's network onto the TenantControlPlane, which others     *)
(* write too.  Most fields are assigned (`plain` stands for them), some    *)
(* are only assigned when they are set (`ranges`, the load balancer's      *)
(* source ranges, stands for them), annotations are merged, and the        *)
(* certificate's names and the DNS addresses have rules of their own.      *)
(*                                                                         *)
(* Up: the address that Steward reports, or the host name of the Ingress   *)
(* or Gateway instead, becomes the endpoint of the StewardControlPlane and *)
(* of the infrastructure cluster.  The former is a merge patch of the      *)
(* fields in which Reconcile's copy differs; the copy is then overwritten  *)
(* by what the answer contains, and the latter is computed from that and   *)
(* written where it differs from the cached infrastructure cluster.        *)
(*                                                                         *)
(* StewardControlPlane has the rest of Reconcile.  One worker; an update   *)
(* is accepted if the cached object is the current one, that is, equal in  *)
(* value and in the number of changes others have made (rev).              *)
(***************************************************************************)
EXTENDS Integers

CONSTANTS
    Values,         \* what a field may hold
    Unset,          \* nothing: a nil pointer, an empty string, no such key
    Hosts,          \* host names and addresses
    NoPort,         \* a host name without port
    BadPort,        \* a port that is not a number
    Int32Range,     \* how many numbers an int32 has
    Edits,          \* bound: changes a user may make, as pairs of field and value
    Networks,       \* bound: networks of the Cluster
    Reports,        \* bound: addresses Steward may report
    MaxChanges,     \* bound: changes of the spec and of the network
    MaxWrites,      \* bound: writes of others to the TenantControlPlane
    MaxFaults       \* bound: failed calls and restarts

ASSUME SyncAssumption ==
    /\ Values # {} /\ Unset \notin Values
    /\ NoPort \notin Int /\ BadPort \notin Int /\ NoPort # BadPort
    /\ Int32Range \in Nat /\ Int32Range >= 2 * 65536
    /\ MaxChanges \in Nat
    /\ MaxWrites \in Nat
    /\ MaxFaults \in Nat

Optional == Values \cup {Unset}

\* host or host:port; the same, or nothing.
Name == [host : Hosts, port : Nat \cup {NoPort, BadPort}]

HostPort == Name \cup {Unset}

Address == [host : Hosts \cup {Unset}, port : Int]

NoAddress == [host |-> Unset, port |-> 0]

(***************************************************************************)
(* Annotations: an ordinary one, the one that names the key of the         *)
(* kubeconfig Secret, and kubectl's last-applied configuration.            *)
(***************************************************************************)
Annotations == [{"note", "secretKey", "lastApplied"} -> Optional]

SpecType ==
    [rev : Nat, plain : Values, ranges : Optional, dns : Optional,
     coreDNS : [ips : Optional] \cup {Unset}, annotations : Annotations,
     sans : SUBSET Name, ingress : HostPort, gateway : HostPort]

NetworkType == [port : Optional, domain : Optional] \cup {Unset}

TenantType ==
    [exists : BOOLEAN, rev : Nat, plain : Optional, ranges : Optional, dns : Optional,
     annotations : Annotations, sans : SUBSET Name,
     port : Optional, domain : Optional]

\* Users, Cluster API and Steward write values of the types the API has.
ASSUME WritesAssumption ==
    /\ Unset \notin Name
    /\ \A e \in Edits : \/ e \in {"plain"} \X Values
                        \/ e \in {"ranges", "dns"} \X Optional
                        \/ e \in {"coreDNS"} \X ([ips : Optional] \cup {Unset})
                        \/ e \in {"note", "secretKey", "lastApplied"} \X Optional
                        \/ e \in {"sans"} \X SUBSET Name
                        \/ e \in {"ingress", "gateway"} \X HostPort
    /\ Networks \subseteq NetworkType
    /\ Reports \subseteq Name

VARIABLES
    spec,       \* the StewardControlPlane: metadata and spec, without the endpoint
    ep,         \* its spec.controlPlaneEndpoint
    view,       \* both, in the cache
    network,    \* ClusterNetwork of the Cluster, Unset for nil
    pause,      \* whether the Cluster is paused, or has been
    tcp,        \* the TenantControlPlane
    address,    \* the endpoint in its status
    tview,      \* both, in the cache
    infra,      \* the infrastructure cluster's endpoint
    iview,      \* the same, in the cache
    queue,      \* the object is in the work queue
    pc,         \* where Reconcile is
    copy,       \* Reconcile's copy of the StewardControlPlane and the network
    got,        \* the address Reconcile has read
    changes,    \* changes so far
    faults      \* faults so far

vars == <<spec, ep, view, network, pause, tcp, address, tview, infra, iview, queue, pc,
          copy, got, changes, faults>>

NoTCP ==
    [exists |-> FALSE, rev |-> 0, plain |-> Unset, ranges |-> Unset, dns |-> Unset,
     annotations |-> [k \in {"note", "secretKey", "lastApplied"} |-> Unset],
     sans |-> {}, port |-> Unset, domain |-> Unset]

NoSpec ==
    [rev |-> 0, plain |-> CHOOSE v \in Values : TRUE, ranges |-> Unset, dns |-> Unset,
     coreDNS |-> Unset, annotations |-> NoTCP.annotations, sans |-> {},
     ingress |-> Unset, gateway |-> Unset]

NoCopy == [spec |-> NoSpec, ep |-> NoAddress, network |-> Unset]

TypeOK ==
    /\ spec \in SpecType
    /\ ep \in Address
    /\ view \in [spec : SpecType, ep : Address]
    /\ network \in NetworkType
    /\ pause \in {"never", "paused", "over"}
    /\ tcp \in TenantType
    /\ address \in HostPort
    /\ tview \in [tcp : TenantType, address : HostPort]
    /\ infra \in Address
    /\ iview \in Address
    /\ queue \in BOOLEAN
    /\ pc \in {"idle", "tcp", "patch", "infra"}
    /\ copy \in [spec : SpecType, ep : Address, network : NetworkType]
    /\ got \in HostPort
    /\ changes \in Nat
    /\ faults \in Nat

\* A user has applied the object with kubectl.
Init ==
    /\ spec = [NoSpec EXCEPT !.annotations["lastApplied"] = NoSpec.plain]
    /\ ep = NoAddress
    /\ view = [spec |-> spec, ep |-> ep]
    /\ network \in Networks
    /\ pause = "never"
    /\ tcp = NoTCP
    /\ address = Unset
    /\ tview = [tcp |-> NoTCP, address |-> Unset]
    /\ infra = NoAddress
    /\ iview = NoAddress
    /\ queue = TRUE
    /\ pc = "idle"
    /\ copy = NoCopy
    /\ got = Unset
    /\ changes = 0
    /\ faults = 0

-----------------------------------------------------------------------------
(***************************************************************************)
(* createOrUpdateTenantControlPlane.                                       *)
(***************************************************************************)

\* net.SplitHostPort succeeds.
HasPort(name) == name.port # NoPort

Bare(name) == [name EXCEPT !.port = NoPort]

Supported(names) == \A name \in names : ~HasPort(name)

\* Mutant: the last-applied configuration is copied like the others.
CopiedAnnotations(old, given) ==
    [k \in DOMAIN old |-> IF k = "secretKey" \/ given[k] # Unset THEN given[k] ELSE old[k]]

\* Only the annotation that names the Secret's key is taken away again.
MergedAnnotations(old, given) ==
    [k \in DOMAIN old |->
       IF k = "secretKey" \/ (k # "lastApplied" /\ given[k] # Unset) THEN given[k] ELSE old[k]]

\* Mutant: the host name is added to the names that are there.
AccumulatedSANs(old, given) ==
    old \cup given.sans
        \cup {Bare(front) : front \in {given.ingress, given.gateway} \ {Unset}}

\* The host of the Ingress or Gateway is added to the names that are given.
ProjectedSANs(old, given) ==
    given.sans \cup {Bare(front) : front \in {given.ingress, given.gateway} \ {Unset}}

Set(old, new) == IF new = Unset THEN old ELSE new

\* Without a network nothing changes; with one, its domain is always assigned.
ProjectedNetwork(old, net) ==
    IF net = Unset THEN old ELSE [port |-> Set(old.port, net.port), domain |-> net.domain]

\* The addresses of the CoreDNS addon, if it has any or not, override the network's.
ProjectedDNS(given) == IF given.coreDNS = Unset THEN given.dns ELSE given.coreDNS.ips

Projected(old, given, net) ==
    LET network2 == ProjectedNetwork([port |-> old.port, domain |-> old.domain], net)
    IN [exists      |-> TRUE,
        rev         |-> old.rev,
        plain       |-> given.plain,
        ranges      |-> Set(old.ranges, given.ranges),
        dns         |-> ProjectedDNS(given),
        annotations |-> MergedAnnotations(old.annotations, given.annotations),
        sans        |-> ProjectedSANs(old.sans, given),
        port        |-> network2.port,
        domain      |-> network2.domain]

-----------------------------------------------------------------------------
(***************************************************************************)
(* controlPlaneEndpoint.                                                   *)
(***************************************************************************)

\* strconv.ParseInt with 16 bits, of which one is the sign.
Parses16(port) == port \in 0..32767

DefaultPort == [ingress |-> 443, gateway |-> 6443]

Parsed(name, default) ==
    [host |-> name.host, port |-> IF HasPort(name) THEN name.port ELSE default]

\* The reported address is parsed in any case.
Refused(given, reported) ==
    \/ ~Parses16(reported.port)
    \/ \E front \in {given.ingress, given.gateway} \ {Unset} : front.port = BadPort

ControlPlaneEndpoint(given, reported) ==
    IF given.gateway # Unset THEN Parsed(given.gateway, DefaultPort.gateway)
    ELSE IF given.ingress # Unset THEN Parsed(given.ingress, DefaultPort.ingress)
    ELSE reported

\* The conversion int32(port).
Int32(n) == ((n + Int32Range \div 2) % Int32Range) - Int32Range \div 2

\* Mutant: the patch is the whole endpoint or nothing, by the host.
MergedByHost(old, copied, target) == IF copied.host = target.host THEN old ELSE target

\* client.MergeFrom: the fields in which the copy differs are written.
Merged(old, copied, target) ==
    [host |-> IF copied.host = target.host THEN old.host ELSE target.host,
     port |-> IF copied.port = target.port THEN old.port ELSE target.port]

\* What the answer does not contain stays as it was in the copy.
Decoded(copied, answer) ==
    [answer EXCEPT !.ingress = Set(copied.ingress, @), !.gateway = Set(copied.gateway, @)]

-----------------------------------------------------------------------------
(***************************************************************************)
(* Reconcile.                                                              *)
(***************************************************************************)

\* Mutant: an error is logged and forgotten.
ReturnNil(again) ==
    /\ pc' = "idle"
    /\ copy' = NoCopy
    /\ got' = Unset
    /\ UNCHANGED queue

Return(again) ==
    /\ pc' = "idle"
    /\ copy' = NoCopy
    /\ got' = Unset
    /\ queue' = (queue \/ again)

\* Reconcile withdraws when the Cluster is paused.
Begin ==
    /\ pc = "idle"
    /\ queue
    /\ queue' = FALSE
    /\ IF pause = "paused"
         THEN UNCHANGED <<pc, copy>>
         ELSE /\ pc' = "tcp"
              /\ copy' = [spec |-> view.spec, ep |-> view.ep, network |-> network]
    /\ UNCHANGED <<spec, ep, view, network, pause, tcp, address, tview, infra, iview,
                   got, changes, faults>>

TenantCurrent == tview = [tcp |-> tcp, address |-> address]

(***************************************************************************)
(* Get from the cache, project, and Create, Update or leave it, depending  *)
(* on whether that makes a difference to what was read.  Reconcile goes on *)
(* with the address of the object it has then, if there is one.            *)
(***************************************************************************)
CreateOrUpdateTenantControlPlane ==
    LET new == Projected(tview.tcp, copy.spec, copy.network)
        GoOn(reported) ==
          IF reported = Unset
            THEN Return(TRUE)
            ELSE pc' = "patch" /\ got' = reported /\ UNCHANGED <<copy, queue>>
    IN /\ pc = "tcp"
       /\ \/ /\ ~Supported(copy.spec.sans) \/ (new # tview.tcp /\ ~TenantCurrent)
             /\ Return(TRUE)
             /\ UNCHANGED tcp
          \/ /\ Supported(copy.spec.sans) /\ new = tview.tcp
             /\ GoOn(tview.address)
             /\ UNCHANGED tcp
          \/ /\ Supported(copy.spec.sans) /\ new # tview.tcp /\ TenantCurrent
             /\ tcp' = new
             /\ GoOn(address)
       /\ UNCHANGED <<spec, ep, view, network, pause, address, tview, infra, iview,
                      changes, faults>>

PatchControlPlaneEndpoint ==
    LET target == ControlPlaneEndpoint(copy.spec, got)
    IN /\ pc = "patch"
       /\ \/ /\ Refused(copy.spec, got)
             /\ Return(TRUE) /\ UNCHANGED ep
          \/ /\ ~Refused(copy.spec, got)
             /\ ep' = Merged(ep, copy.ep, [target EXCEPT !.port = Int32(@)])
             /\ copy' = [copy EXCEPT !.spec = Decoded(@, spec), !.ep = ep']
             /\ pc' = "infra"
             /\ UNCHANGED <<queue, got>>
       /\ UNCHANGED <<spec, view, network, pause, tcp, address, tview, infra, iview,
                      changes, faults>>

\* Mutant: the endpoint is written once.
MergedOnce(old, cached, target) == IF cached = NoAddress THEN target ELSE old

\* The patch helper compares with the cached object, field by field.
MergedInfra(old, cached, target) == Merged(old, cached, target)

\* The infrastructure cluster keeps 64 bits.  What follows does not change these.
PatchCluster ==
    /\ pc = "infra"
    /\ \/ Refused(copy.spec, got) /\ Return(TRUE) /\ UNCHANGED infra
       \/ /\ ~Refused(copy.spec, got)
          /\ infra' = MergedInfra(infra, iview, ControlPlaneEndpoint(copy.spec, got))
          /\ Return(FALSE)
    /\ UNCHANGED <<spec, ep, view, network, pause, tcp, address, tview, iview, changes,
                   faults>>

CallFails ==
    /\ pc # "idle"
    /\ faults < MaxFaults
    /\ faults' = faults + 1
    /\ Return(TRUE)
    /\ UNCHANGED <<spec, ep, view, network, pause, tcp, address, tview, infra, iview,
                   changes>>

-----------------------------------------------------------------------------
(***************************************************************************)
(* The caches, and everybody else.                                         *)
(***************************************************************************)

CacheSync ==
    /\ view # [spec |-> spec, ep |-> ep]
    /\ view' = [spec |-> spec, ep |-> ep]
    /\ queue' = TRUE
    /\ UNCHANGED <<spec, ep, network, pause, tcp, address, tview, infra, iview, pc, copy,
                   got, changes, faults>>

TenantCacheSync ==
    /\ ~TenantCurrent
    /\ tview' = [tcp |-> tcp, address |-> address]
    /\ queue' = TRUE
    /\ UNCHANGED <<spec, ep, view, network, pause, tcp, address, infra, iview, pc, copy,
                   got, changes, faults>>

\* Nothing watches the infrastructure cluster: its informer enqueues nothing.
InfraCacheSync ==
    /\ iview # infra
    /\ iview' = infra
    /\ UNCHANGED <<spec, ep, view, network, pause, tcp, address, tview, infra, queue, pc,
                   copy, got, changes, faults>>

Resync ==
    /\ ~queue
    /\ queue' = TRUE
    /\ UNCHANGED <<spec, ep, view, network, pause, tcp, address, tview, infra, iview, pc,
                   copy, got, changes, faults>>

Change ==
    /\ changes < MaxChanges
    /\ changes' = changes + 1
    /\ UNCHANGED <<ep, view, tcp, address, tview, infra, iview, queue, pc, copy, got,
                   faults>>

Write ==
    /\ tcp.exists
    /\ tcp.rev < MaxWrites
    /\ UNCHANGED <<spec, ep, view, network, pause, tview, infra, iview, queue, pc, copy,
                   got, changes, faults>>

\* The API server does not admit both an Ingress and a Gateway: setting one
\* means removing the other.
Edited(field, value) ==
    LET new == [spec EXCEPT !.rev = @ + 1]
    IN CASE field = "ingress" -> [new EXCEPT !.ingress = value, !.gateway = Unset]
         [] field = "gateway" -> [new EXCEPT !.gateway = value, !.ingress = Unset]
         [] field \in DOMAIN spec.annotations -> [new EXCEPT !.annotations[field] = value]
         [] OTHER -> [new EXCEPT ![field] = value]

UserEdits(field, value) ==
    /\ Change
    /\ spec' = Edited(field, value)
    /\ UNCHANGED <<network, pause>>

\* Nothing watches the Cluster.
NetworkChanges ==
    /\ Change
    /\ network' \in Networks
    /\ UNCHANGED <<spec, pause>>

\* Nor is anything enqueued when it is unpaused.
PauseChanges ==
    /\ Change
    /\ pause' = IF pause = "paused" THEN "over" ELSE "paused"
    /\ UNCHANGED <<spec, network>>

\* Somebody applies the TenantControlPlane, too, or annotates it.
OthersAnnotate(k, v) ==
    /\ Write
    /\ tcp' = [tcp EXCEPT !.rev = @ + 1, !.annotations[k] = v]
    /\ UNCHANGED address

StewardReports(a) ==
    /\ Write
    /\ address' = a
    /\ tcp' = [tcp EXCEPT !.rev = @ + 1]

-----------------------------------------------------------------------------
Step == CreateOrUpdateTenantControlPlane \/ PatchControlPlaneEndpoint \/ PatchCluster

Others ==
    \/ \E e \in Edits : UserEdits(e[1], e[2])
    \/ NetworkChanges \/ PauseChanges
    \/ \E k \in {"note", "lastApplied"}, v \in Values : OthersAnnotate(k, v)
    \/ \E a \in Reports : StewardReports(a)

Next ==
    \/ Begin \/ Step \/ CallFails
    \/ CacheSync \/ TenantCacheSync \/ InfraCacheSync \/ Resync
    \/ Others

Spec == Init /\ [][Next]_vars

\* The worker and the informers keep running.
FairSpec ==
    /\ Spec
    /\ WF_vars(Begin) /\ WF_vars(Step)
    /\ WF_vars(CacheSync) /\ WF_vars(TenantCacheSync) /\ WF_vars(InfraCacheSync)

-----------------------------------------------------------------------------
(***************************************************************************)
(* Safety.                                                                 *)
(***************************************************************************)

(***************************************************************************)
(* The TenantControlPlane is written by others, too: a reconciliation that *)
(* has read it earlier never takes an annotation of theirs away, and never *)
(* replaces its last-applied configuration by that of the                  *)
(* StewardControlPlane, on which their next apply depends.                 *)
(***************************************************************************)
OthersKept ==
    [][Step =>
         /\ tcp'.annotations["lastApplied"] = tcp.annotations["lastApplied"]
         /\ tcp.annotations["note"] # Unset => tcp'.annotations["note"] # Unset]_vars

\* What the StewardControlPlane asks for is in the TenantControlPlane.
Applied ==
    /\ tcp.plain = spec.plain
    /\ spec.ranges # Unset => tcp.ranges = spec.ranges
    /\ tcp.dns = ProjectedDNS(spec)
    /\ spec.annotations["note"] # Unset => tcp.annotations["note"] = spec.annotations["note"]
    /\ tcp.annotations["secretKey"] = spec.annotations["secretKey"]
    /\ \A h \in Hosts :
         [host |-> h, port |-> NoPort] \in tcp.sans <=>
            \/ [host |-> h, port |-> NoPort] \in spec.sans
            \/ \E front \in {spec.ingress, spec.gateway} \ {Unset} : front.host = h

\* The worker has nothing to do, and the caches have seen every write.
AtRest ==
    /\ pc = "idle" /\ ~queue
    /\ view = [spec |-> spec, ep |-> ep]
    /\ TenantCurrent

(***************************************************************************)
(* When everything is at rest, everything has been carried over: the spec  *)
(* as it is now to the TenantControlPlane, and the address as it is now,   *)
(* or the front's name, to the endpoint of the StewardControlPlane.  No    *)
(* event is used up by a reconciliation that had read something older, by  *)
(* a failed call or by a refused update, and carrying over comes to an     *)
(* end.  What nothing watches, the Cluster's network, the end of a pause   *)
(* and the infrastructure cluster, is left out.                            *)
(***************************************************************************)
RestIsSettled ==
    AtRest /\ pause = "never" =>
       /\ Supported(spec.sans) /\ Applied
       /\ address # Unset /\ ~Refused(spec, address)
       /\ ep = [ControlPlaneEndpoint(spec, address) EXCEPT !.port = Int32(@)]

-----------------------------------------------------------------------------
(***************************************************************************)
(* Liveness.                                                               *)
(***************************************************************************)

\* What the Cluster asks for is in the TenantControlPlane, too.
NetworkApplied ==
    network # Unset =>
       /\ tcp.domain = network.domain
       /\ network.port # Unset => tcp.port = network.port

(***************************************************************************)
(* The last version of the spec reaches the TenantControlPlane and stays   *)
(* there, whoever else writes to it and however late the caches are, and   *)
(* the certificate has the names that are asked for now and no others.     *)
(* What nothing watches, the Cluster's network and the end of a pause,     *)
(* gets there with the resync.                                             *)
(***************************************************************************)
TenantFollows ==
    /\ <>[](Supported(spec.sans) /\ pause = "never") => <>[]Applied
    /\ <>[](Supported(spec.sans) /\ pause # "paused") /\ []<><<Resync>>_vars =>
          <>[](Applied /\ NetworkApplied)

\* The reported address and the front's name can be made an endpoint.
Usable ==
    /\ Supported(spec.sans)
    /\ address # Unset
    /\ ~Refused(spec, address)
    /\ ControlPlaneEndpoint(spec, address).port < Int32Range \div 2

(***************************************************************************)
(* The StewardControlPlane ends up with the endpoint that the last spec    *)
(* and the last report call for, host and port: though a patch against a   *)
(* stale copy writes only one of the two.  This takes a reported port that *)
(* fits 16 bits with a sign, and a port of the host name that fits an      *)
(* int32; and after a pause it takes the resync.                           *)
(***************************************************************************)
EndpointFollows ==
    (\/ <>[](Usable /\ pause = "never")
     \/ <>[](Usable /\ pause # "paused") /\ []<><<Resync>>_vars)
    => <>[](ep = ControlPlaneEndpoint(spec, address))

(***************************************************************************)
(* The infrastructure cluster ends up with the same endpoint, though a     *)
(* copy keeps an Ingress or a Gateway that is gone, and the patch contains *)
(* only the fields in which the cached infrastructure cluster differs.     *)
(* This takes the resync, because nothing watches it.                      *)
(***************************************************************************)
InfraFollows ==
    <>[](Usable /\ pause # "paused") /\ []<><<Resync>>_vars
    => <>[](infra = ep /\ infra = ControlPlaneEndpoint(spec, address))
=============================================================================
