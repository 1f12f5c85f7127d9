----------------------------- MODULE MCNetNSOps -----------------------------
(***************************************************************************)
(* Small instances of NetNSOps for TLC.                                    *)
(***************************************************************************)
EXTENDS NetNSOps, TLC

CONSTANTS z1, z2, s1, s2

TwoZones == (s1 :> z1) @@ (s2 :> z2)

\* A cluster, a network configuration older than the name field, one that says
\* nothing at all, and an allocation nobody can read.
Users == {[site |-> s1, kind |-> "kc", names |-> "this", vlan |-> "none"],
          [site |-> s1, kind |-> "nc", names |-> "none", vlan |-> "this"],
          [site |-> s1, kind |-> "ip", names |-> "unreadable", vlan |-> "none"]}
=============================================================================
