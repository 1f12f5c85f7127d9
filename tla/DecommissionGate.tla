-------------------------- MODULE DecommissionGate --------------------------
(***************************************************************************)
(* What a decommission promises, whatever the steps it takes: a cluster is *)
(* destroyed only after it has been found to hold nothing outside itself,  *)
(* or by an operator who waived that; and what was found stays true.  The  *)
(* gate is open from a clean verdict until it is withdrawn by another run. *)
(***************************************************************************)

CONSTANT Holdable    \* what a cluster may hold outside itself

VARIABLES
    held,        \* what the cluster holds
    gateOpen,    \* somebody relies on it holding nothing
    cluster,     \* the KubernetesCluster: "live", "deleting" or "absent"
    waived       \* it was deleted without the verdict

gateVars == <<held, gateOpen, cluster, waived>>

GateInit ==
    /\ held \subseteq Holdable
    /\ gateOpen = FALSE
    /\ cluster = "live"
    /\ waived = FALSE

\* Controllers acquire and release while nobody relies on anything.
Drift ==
    /\ ~gateOpen
    /\ held' \subseteq Holdable
    /\ UNCHANGED <<gateOpen, cluster, waived>>

Approve ==
    /\ ~gateOpen /\ held = {}
    /\ gateOpen' = TRUE
    /\ UNCHANGED <<held, cluster, waived>>

\* Nobody relies on the verdict any more: the cluster lives, or was deleted
\* without one.
Withdraw ==
    /\ gateOpen /\ (cluster = "live" \/ waived)
    /\ gateOpen' = FALSE
    /\ UNCHANGED <<held, cluster, waived>>

\* The irreversible step, with the verdict ...
Commit ==
    /\ gateOpen /\ cluster = "live"
    /\ cluster' = "deleting"
    /\ UNCHANGED <<held, gateOpen, waived>>

\* ... or without it.
CommitWaived ==
    /\ ~gateOpen /\ cluster = "live"
    /\ cluster' = "deleting"
    /\ waived' = TRUE
    /\ UNCHANGED <<held, gateOpen>>

Vanish ==
    /\ cluster = "deleting"
    /\ cluster' = "absent"
    /\ UNCHANGED <<held, gateOpen, waived>>

GateNext == Drift \/ Approve \/ Withdraw \/ Commit \/ CommitWaived \/ Vanish

GateSpec == GateInit /\ [][GateNext]_gateVars
=============================================================================
