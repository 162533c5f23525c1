---------------------- MODULE MCTenantControlPlaneSync ----------------------
(***************************************************************************)
(* Constants for model-checking TenantControlPlaneSync.                    *)
(***************************************************************************)
EXTENDS TenantControlPlaneSync

CONSTANTS u, v, h1, h2

At(h, p) == [host |-> h, port |-> p]

\* Every rule of the projection: unsetting what was set, overriding, both kinds of
\* front, names the certificate cannot have.
AllEdits ==
    { <<"plain", v>>, <<"ranges", v>>, <<"ranges", Unset>>,
      <<"coreDNS", [ips |-> u]>>, <<"note", v>>,
      <<"secretKey", v>>, <<"secretKey", Unset>>,
      <<"sans", {At(h1, NoPort)}>>, <<"sans", {At(h2, 443)}>>,
      <<"ingress", At(h2, NoPort)>>, <<"ingress", At(h2, BadPort)>>, <<"ingress", Unset>>,
      <<"gateway", At(h2, NoPort)>>, <<"gateway", At(h1, 70000)>> }

AllNetworks == {Unset, [port |-> v, domain |-> u]}

\* A port that parses, one that does not.
AllReports == {At(h1, 6443), At(h1, 40000)}
=============================================================================
