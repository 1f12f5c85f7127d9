--------------------------- MODULE MCDecommission ---------------------------
(***************************************************************************)
(* Small instances of Decommission for TLC.                                *)
(***************************************************************************)
EXTENDS Decommission

CONSTANTS i1, g1, s1, v1, v2, v3, w1

\* Guests for which ArgoCD holds an ingress, a service and a webhook.
NetManaged == {<<"Ingress", i1>>, <<"LB", s1>>}
\* A guest whose workload ArgoCD holds.
StoManaged == {<<"Workload", v1>>}
\* A guest whose gateway ArgoCD holds.
LiveManaged == {<<"Gateway", g1>>}
EndsStuck == {<<"PV", v1>>}
=============================================================================
