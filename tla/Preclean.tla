------------------------------ MODULE Preclean ------------------------------
(***************************************************************************)
(* Phase 1 of a decommission (internal/decommission/guest.go): a pipeline  *)
(* of steps that stop what puts objects back, delete the objects that hold *)
(* external state, wait for the guest's controllers to release it, and     *)
(* then read everything again for the verdict.  Almost no step aborts the  *)
(* pipeline: a problem sets "failed", or is only warned about.             *)
(*                                                                         *)
(* A step that lists objects and deletes each is one action.  That loses   *)
(* no behaviour: an object that goes between the list and its delete is a  *)
(* NotFound, which is ignored, and one created in between is what it would *)
(* be if it were created just after.                                       *)
(***************************************************************************)
EXTENDS RORPurge

VARIABLE problems   \* what verifyPreclean has found so far: kinds of objects

precleanVars == <<guestVars, rorVars, pc, failed, problems>>

runnerVars == <<pc, failed, problems>>

\* The steps of preclean, in the order it calls them.
PrecleanSteps == {
    "sweep1", "stopArgo", "waitArgo", "stripAutosync", "sweep2", "startROR",
    "ingresses", "waitIngresses", "gateways", "waitGateways", "services", "waitServices",
    "scaleDown", "evict", "waitEvicted", "force", "waitForced",
    "pvcs", "waitPVCs", "waitVAs", "waitPVs", "collectROR",
    "verifyIngress", "verifyPVC", "verifyPV", "verifyVA", "verifyGateway", "verifyLB" }

PrecleanTypeOK ==
    /\ GuestTypeOK /\ RorTypeOK
    /\ failed \in BOOLEAN
    /\ problems \subseteq ExternalKinds

-----------------------------------------------------------------------------
(***************************************************************************)
(* Calls to the guest.                                                     *)
(***************************************************************************)
List(site) == Answers(site, guestUp)

\* May a patch be accepted?
Patch(site) == IF WritesRejected THEN {FALSE} ELSE List(site)

\* The sets of objects of S whose Delete (or patch) fails.
Refusals(site, S) ==
    LET refused == {o \in S : ~Accepts(o)}
    IN  {refused \cup more : more \in IF site \in Flaky THEN SUBSET S ELSE {{}}}

PodsWithPVC == OfKind("Pod")

\* Mutant of DeleteAll: it deletes the objects a step once knew of instead of
\* those it lists.
DeleteAllKnown(at, kind, next, onListError) ==
    /\ pc = at
    /\ deleting' = deleting \cup {o \in Objects : o[1] = kind}
    /\ pc' = next
    /\ UNCHANGED <<present, failed, argo, appset, autosync, guestUp, rorVars, problems>>

\* List the objects of a kind and delete each; a list or a delete that errs
\* blocks the verdict, and only a failed list skips the wait that follows.
DeleteAll(at, kind, next, onListError) ==
    /\ pc = at
    /\ \/ /\ FALSE \in List("list")
          /\ failed' = TRUE
          /\ pc' = onListError
          /\ UNCHANGED <<present, deleting>>
       \/ /\ TRUE \in List("list")
          /\ \E refused \in Refusals("delete", OfKind(kind)) :
               /\ Delete(OfKind(kind) \ refused)
               /\ failed' = (failed \/ refused # {})
          /\ pc' = next
    /\ UNCHANGED <<argo, appset, autosync, guestUp, rorVars, problems>>

WaitGone(at, kind, blocking, next) ==
    /\ waitUntil(at, OfKind(kind) = {}, List("list"), next, blocking, next)
    /\ UNCHANGED <<guestVars, rorVars, problems>>

-----------------------------------------------------------------------------
(***************************************************************************)
(* Stopping what puts objects back.                                        *)
(***************************************************************************)

\* Every failure of the webhook sweep is a warning only.
deleteAdmissionWebhooks(at, next) ==
    /\ pc = at
    /\ \/ FALSE \in List("list") /\ UNCHANGED <<present, deleting>>
       \/ /\ TRUE \in List("list")
          /\ \E refused \in Refusals("delete", OfKind("Webhook")) :
               Delete(OfKind("Webhook") \ refused)
    /\ pc' = next
    /\ UNCHANGED <<argo, appset, autosync, guestUp, rorVars, failed, problems>>

\* Any error reading the argocd namespace reads as "no ArgoCD here".  The
\* two controllers are scaled to zero; a failure of either is a warning, and
\* only a stopped application controller is waited for.
stopArgoCD ==
    /\ pc = "stopArgo"
    /\ \/ /\ argo = "none" \/ FALSE \in List("argo")
          /\ pc' = "sweep2"
          /\ UNCHANGED <<argo, appset>>
       \/ /\ argo # "none"
          /\ \E scaled \in Patch("argo"), appsetScaled \in Patch("argo") :
               /\ argo' = IF scaled /\ argo = "running" THEN "draining" ELSE argo
               /\ appset' = IF appsetScaled /\ appset = "running" THEN "draining" ELSE appset
               /\ pc' = IF scaled THEN "waitArgo" ELSE "stripAutosync"
    /\ UNCHANGED <<present, deleting, autosync, guestUp, rorVars, failed, problems>>

\* A controller that cannot be read counts as stopped.
waitArgoStopped ==
    /\ pc = "waitArgo"
    /\ argo = "stopped" \/ FALSE \in List("argo") \/ DeadlinesHit
    /\ pc' = "stripAutosync"
    /\ UNCHANGED <<guestVars, rorVars, failed, problems>>

\* Mutant of stripAutosync: a failure is only warned about.
stripAutosyncWarned ==
    /\ pc = "stripAutosync"
    /\ \/ FALSE \in List("list") \cup Patch("delete") /\ autosync' = autosync
       \/ TRUE \in List("list") \cap Patch("delete") /\ autosync' = FALSE
    /\ pc' = "sweep2"
    /\ UNCHANGED <<present, deleting, argo, appset, guestUp, rorVars, failed, problems>>

\* Whether or not ArgoCD is down, its Applications lose their sync policies;
\* failing at that blocks the verdict.
stripAutosync ==
    /\ pc = "stripAutosync"
    /\ \/ /\ FALSE \in List("list") \cup Patch("delete")
          /\ failed' = TRUE
          /\ autosync' = autosync
       \/ /\ TRUE \in List("list") \cap Patch("delete")
          /\ autosync' = FALSE
          /\ failed' = failed
    /\ pc' = "sweep2"
    /\ UNCHANGED <<present, deleting, argo, appset, guestUp, rorVars, problems>>

StartROR ==
    /\ startRORPurge("startROR", "ingresses")
    /\ UNCHANGED <<guestVars, problems>>

-----------------------------------------------------------------------------
(***************************************************************************)
(* Ingresses, gateways and LoadBalancer services.  Ingresses and gateways  *)
(* that outlive their wait block the verdict; services are left to it.     *)
(***************************************************************************)
deleteIngresses ==
    \/ DeleteAll("ingresses", "Ingress", "waitIngresses", "gateways")
    \/ WaitGone("waitIngresses", "Ingress", TRUE, "gateways")

deleteGateways ==
    \/ DeleteAll("gateways", "Gateway", "waitGateways", "services")
    \/ WaitGone("waitGateways", "Gateway", TRUE, "services")

deleteLBServices ==
    \/ DeleteAll("services", "LB", "waitServices", "scaleDown")
    \/ WaitGone("waitServices", "LB", FALSE, "scaleDown")

-----------------------------------------------------------------------------
(***************************************************************************)
(* Workloads, pods and volumes.                                            *)
(***************************************************************************)

\* Workloads are found through the pods that mount a claim.  Scaling one to
\* zero takes it out of the way at once and its failure is a warning; one an
\* operator's resource owns is deleted, and failing at that blocks.  Unless
\* PodGaps, the listing never falls between two pods of a workload.
scaleDownPVCWorkloads ==
    /\ pc = "scaleDown"
    /\ PodGaps \/ Gaps = {} \/ WritesRejected \/ ~guestUp
    /\ LET found == {<<"Workload", p[2]>> : p \in PodsWithPVC} \cap present
           owned == {w \in found : w[2] \in OperatorOwned}
           plain == found \ owned
       IN  \/ /\ FALSE \in List("list")
              /\ failed' = TRUE
              /\ UNCHANGED <<present, deleting>>
           \/ /\ TRUE \in List("list")
              /\ \E kept \in Refusals("scale", plain), refused \in Refusals("delete", owned) :
                   /\ present' = present \ (plain \ kept)
                   /\ deleting' = (deleting \ (plain \ kept)) \cup (owned \ refused)
                   /\ failed' = (failed \/ refused # {})
    /\ pc' = "evict"
    /\ UNCHANGED <<argo, appset, autosync, guestUp, rorVars, problems>>

\* Finding no pods, or failing to list them, ends the eviction at once; pods
\* that outlive their grace period are deleted again with none.
evictPVCMountingPods ==
    \/ DeleteAll("evict", "Pod", IF PodsWithPVC = {} THEN "pvcs" ELSE "waitEvicted", "pvcs")
    \/ /\ waitUntil("waitEvicted", PodsWithPVC = {}, List("list"), "pvcs", FALSE, "force")
       /\ UNCHANGED <<guestVars, rorVars, problems>>
    \/ WaitGone("waitForced", "Pod", TRUE, "pvcs")

\* Without a grace period a pod leaves the API at once.
forceEvict ==
    /\ pc = "force"
    /\ \/ /\ FALSE \in List("list")
          /\ failed' = TRUE
          /\ UNCHANGED <<present, deleting>>
       \/ /\ TRUE \in List("list")
          /\ \E refused \in Refusals("delete", PodsWithPVC) :
               /\ present' = present \ (PodsWithPVC \ refused)
               /\ deleting' = deleting \ (PodsWithPVC \ refused)
               /\ failed' = (failed \/ refused # {})
    /\ pc' = "waitForced"
    /\ UNCHANGED <<argo, appset, autosync, guestUp, rorVars, problems>>

\* Mutants of Releasables: one that does not ask whether the volume is gone,
\* and one that has the answer the wrong way round.
ReleasablesAttached == OfKind("VA") \cap deleting
ReleasablesInverted == {a \in OfKind("VA") \cap deleting : <<"PV", a[2]>> \in present}

\* The attachments a poll may release: Kubernetes has asked for the detach
\* (Terminating), and the volume the attacher would read is gone.
Releasables ==
    {a \in OfKind("VA") \cap deleting : <<"PV", a[2]>> \notin present}

\* One poll of the detach wait: it strips the finalizer of the releasable
\* attachments until one of them cannot be read or patched, and is satisfied
\* when no other attachment was listed.
releaseOrphanedVolumeAttachment ==
    /\ pc = "waitVAs"
    /\ TRUE \in List("list")
    /\ Releasables # {}
    /\ \E refused \in Refusals("delete", Releasables),
          unread \in IF FALSE \in List("list") THEN SUBSET Releasables ELSE {{}} :
         LET released == Releasables \ (refused \cup unread)
         IN  /\ present' = present \ released
             /\ deleting' = deleting \ released
             /\ pc' = IF OfKind("VA") = released THEN "waitPVs" ELSE "waitVAs"
    /\ UNCHANGED <<argo, appset, autosync, guestUp, rorVars, failed, problems>>

\* Three waits whose results the code drops: the verdict reads again.
deletePVCsAndWaitVolumes ==
    \/ DeleteAll("pvcs", "PVC", "waitPVCs", "collectROR")
    \/ WaitGone("waitPVCs", "PVC", FALSE, "waitVAs")
    \/ releaseOrphanedVolumeAttachment
    \/ WaitGone("waitVAs", "VA", FALSE, "waitPVs")
    \/ WaitGone("waitPVs", "PV", FALSE, "collectROR")

CollectROR ==
    /\ collectRORResult("collectROR", "verifyIngress")
    /\ UNCHANGED <<guestVars, rorVars, problems>>

-----------------------------------------------------------------------------
(***************************************************************************)
(* verifyPreclean reads each kind once more; an error or a leftover is a   *)
(* problem.  The last read is the verdict: clean, or not.                  *)
(***************************************************************************)
\* Mutant of Verify: a read that fails finds nothing.
VerifyLenient(at, kind, next) ==
    /\ pc = at
    /\ \E answered \in List("list") :
         problems' = IF answered /\ OfKind(kind) # {} THEN problems \cup {kind} ELSE problems
    /\ pc' = next
    /\ UNCHANGED <<guestVars, rorVars, failed>>

\* One read of the verdict.
Verify(at, kind, next) ==
    /\ pc = at
    /\ \E answered \in List("list") :
         problems' = IF answered /\ OfKind(kind) = {} THEN problems ELSE problems \cup {kind}
    /\ pc' = next
    /\ UNCHANGED <<guestVars, rorVars, failed>>

\* Mutant of verifyPreclean: the verdict forgets the problems of the steps.
verifyPrecleanReadOnly(clean, notClean) ==
    \/ Verify("verifyIngress", "Ingress", "verifyPVC")
    \/ Verify("verifyPVC", "PVC", "verifyPV")
    \/ Verify("verifyPV", "PV", "verifyVA")
    \/ Verify("verifyVA", "VA", "verifyGateway")
    \/ Verify("verifyGateway", "Gateway", "verifyLB")
    \/ Verify("verifyLB", "LB", IF problems' # {} THEN notClean ELSE clean)

verifyPreclean(clean, notClean) ==
    \/ Verify("verifyIngress", "Ingress", "verifyPVC")
    \/ Verify("verifyPVC", "PVC", "verifyPV")
    \/ Verify("verifyPV", "PV", "verifyVA")
    \/ Verify("verifyVA", "VA", "verifyGateway")
    \/ Verify("verifyGateway", "Gateway", "verifyLB")
    \/ Verify("verifyLB", "LB", IF failed \/ problems' # {} THEN notClean ELSE clean)

PrecleanStep(clean, notClean) ==
    \/ deleteAdmissionWebhooks("sweep1", "stopArgo")
    \/ stopArgoCD \/ waitArgoStopped \/ stripAutosync
    \/ deleteAdmissionWebhooks("sweep2", "startROR")
    \/ StartROR
    \/ deleteIngresses \/ deleteGateways \/ deleteLBServices
    \/ scaleDownPVCWorkloads \/ evictPVCMountingPods \/ forceEvict
    \/ deletePVCsAndWaitVolumes
    \/ CollectROR
    \/ verifyPreclean(clean, notClean)
=============================================================================
