------------------------------ MODULE Teardown ------------------------------
(***************************************************************************)
(* Phase 2 of a decommission (internal/decommission/mgmt.go): delete the   *)
(* KubernetesCluster, watch the vitistack operator dismantle what belongs  *)
(* to it, and read again for the verdict.  The operator is outside the     *)
(* repository.                                                             *)
(***************************************************************************)
EXTENDS Runner

CONSTANTS
    StaticIPs,        \* the IPAllocation CRD is installed in this zone
    Forgotten,        \* resources the operator never releases
    LateMachines      \* a reconcile in flight may create a machine again

\* Each kind of management-side resource that belongs to the cluster.
Resources == {"Machine", "NetworkConfiguration", "VIP", "IPAllocation"}

ASSUME TeardownAssumption ==
    /\ StaticIPs \in BOOLEAN /\ LateMachines \in BOOLEAN
    /\ Forgotten \subseteq Resources

VARIABLES
    kc,          \* the KubernetesCluster object
    owned,       \* the resources of the cluster that still exist
    leftovers    \* verifyTeardown found a problem so far

mgmtVars == <<kc, owned>>
teardownVars == <<kc, owned, leftovers, pc, failed>>

TeardownSteps == { "deleteKC", "waitMachines", "waitNCs", "waitVIP", "waitKC",
                   "ipAllocations", "verifyMachines", "verifyKC", "verifyVIP" }

TeardownTypeOK ==
    /\ kc \in {"live", "deleting", "absent"}
    /\ owned \subseteq Resources
    /\ leftovers \in BOOLEAN

TeardownInit ==
    /\ kc = "live"
    /\ owned = IF StaticIPs THEN Resources ELSE Resources \ {"IPAllocation"}
    /\ leftovers = FALSE

-----------------------------------------------------------------------------
(***************************************************************************)
(* The operator.  Nothing is dismantled before the cluster is deleted, and *)
(* the cluster's finalizer outlives its machines.                          *)
(***************************************************************************)
Release(r) ==
    /\ kc # "live"
    /\ r \in owned \ Forgotten
    /\ owned' = owned \ {r}
    /\ kc' = kc

\* A reconcile that began before the deletion finishes after it: a machine
\* and its network configuration come (back) into being.
CreateLateMachine ==
    /\ LateMachines /\ kc = "deleting" /\ "Machine" \notin owned
    /\ owned' = owned \cup {"Machine", "NetworkConfiguration"}
    /\ kc' = kc

ReleaseKC ==
    /\ kc = "deleting"
    /\ "Machine" \notin owned
    /\ kc' = "absent"
    /\ owned' = owned

OperatorNext == (\E r \in Resources : Release(r)) \/ CreateLateMachine \/ ReleaseKC


-----------------------------------------------------------------------------
Read == Answers("mgmt", TRUE)

\* A delete that fails other than with NotFound ends the run at once, though
\* the server may have carried it out.
deleteKC(notClean) ==
    /\ pc = "deleteKC"
    /\ \E answered \in Read :
         /\ \/ kc' = IF kc = "live" THEN "deleting" ELSE kc
            \/ ~answered /\ kc' = kc
         /\ pc' = IF answered THEN "waitMachines" ELSE notClean
    /\ UNCHANGED <<owned, leftovers, failed>>

\* Mutant of WaitReleased: the result of the wait is dropped.
WaitReleasedDropped(at, r, next) ==
    /\ waitUntil(at, r \notin owned, Read, next, FALSE, next)
    /\ UNCHANGED <<kc, owned, leftovers>>

WaitReleased(at, r, next) ==
    /\ waitUntil(at, r \notin owned, Read, next, TRUE, next)
    /\ UNCHANGED <<kc, owned, leftovers>>

waitKCGone ==
    /\ waitUntil("waitKC", kc = "absent", Read, "ipAllocations", TRUE, "ipAllocations")
    /\ UNCHANGED <<kc, owned, leftovers>>

\* One read, no wait: an allocation still there now is a leak.  Where the
\* CRD is not installed there is nothing to read.
checkIPAllocations ==
    /\ pc = "ipAllocations"
    /\ \E answered \in Read :
         failed' = (failed \/ ~answered \/ "IPAllocation" \in owned)
    /\ pc' = "verifyMachines"
    /\ UNCHANGED <<kc, owned, leftovers>>

Recheck(at, gone, next) ==
    /\ pc = at
    /\ \E answered \in Read : leftovers' = (leftovers \/ ~answered \/ ~gone)
    /\ pc' = next
    /\ UNCHANGED <<kc, owned, failed>>

\* Mutant of verifyTeardown: the problems are printed, not returned.
verifyTeardownPrinted(done, notClean) ==
    \/ Recheck("verifyMachines", "Machine" \notin owned, "verifyKC")
    \/ Recheck("verifyKC", kc = "absent", "verifyVIP")
    \/ Recheck("verifyVIP", "VIP" \notin owned, done)

verifyTeardown(done, notClean) ==
    \/ Recheck("verifyMachines", "Machine" \notin owned, "verifyKC")
    \/ Recheck("verifyKC", kc = "absent", "verifyVIP")
    \/ Recheck("verifyVIP", "VIP" \notin owned, IF failed \/ leftovers' THEN notClean ELSE done)

TeardownStep(done, notClean) ==
    \/ deleteKC(notClean)
    \/ WaitReleased("waitMachines", "Machine", "waitNCs")
    \/ WaitReleased("waitNCs", "NetworkConfiguration", "waitVIP")
    \/ WaitReleased("waitVIP", "VIP", "waitKC")
    \/ waitKCGone
    \/ checkIPAllocations
    \/ verifyTeardown(done, notClean)
=============================================================================
