------------------------- MODULE DecommissionProofs -------------------------
(***************************************************************************)
(* Theorems about Decommission, for every guest, every set of failing call *)
(* sites and every set of commands.                                        *)
(***************************************************************************)
EXTENDS Decommission, TLAPS

\* What a step of phase 1 leaves to the rest of the system.
Elsewhere == UNCHANGED <<mgmtVars, leftovers, mode, waived>>

-----------------------------------------------------------------------------
(***************************************************************************)
(* The steps of phase 1, one lemma for each shape.                         *)
(***************************************************************************)

\* Deleting objects that are present keeps every deletion mark on an object
\* that is present (the loops over List and Delete of guest.go).
LEMMA DeleteKeepsMarks ==
    ASSUME present \subseteq Objects, deleting \subseteq present,
           NEW S, S \subseteq present, Delete(S)
    PROVE  present' \subseteq Objects /\ deleting' \subseteq present'
  BY DEF Delete

\* What every step of phase 1 that only touches objects has in common.
LEMMA DeleteAllType ==
    ASSUME TypeOK, Elsewhere,
           NEW at, NEW kind, NEW next \in PrecleanSteps, NEW onListError \in PrecleanSteps,
           DeleteAll(at, kind, next, onListError)
    PROVE  TypeOK' /\ pc' \in PrecleanSteps
  <1>1. pc' \in PrecleanSteps /\ failed' \in BOOLEAN
    BY DEF DeleteAll, TypeOK, PrecleanTypeOK, Refusals
  <1>2. present' \subseteq Objects /\ deleting' \subseteq present'
    <2>1. CASE UNCHANGED <<present, deleting>>
      BY <2>1 DEF TypeOK, PrecleanTypeOK, GuestTypeOK
    <2>2. CASE \E refused \in Refusals("delete", OfKind(kind)) : Delete(OfKind(kind) \ refused)
      <3>1. PICK refused : Delete(OfKind(kind) \ refused)
        BY <2>2
      <3>2. OfKind(kind) \ refused \subseteq present
        BY DEF OfKind
      <3>. QED BY <3>1, <3>2, DeleteKeepsMarks DEF TypeOK, PrecleanTypeOK, GuestTypeOK
    <2>. QED BY <2>1, <2>2 DEF DeleteAll
  <1>3. UNCHANGED <<argo, appset, autosync, guestUp, rorVars, problems>>
    BY DEF DeleteAll
  <1>. QED
    BY <1>1, <1>2, <1>3 DEF TypeOK, PrecleanTypeOK, GuestTypeOK, RorTypeOK, TeardownTypeOK,
                            Elsewhere, rorVars, mgmtVars

LEMMA WaitGoneType ==
    ASSUME TypeOK, Elsewhere,
           NEW at, NEW kind, NEW blocking \in BOOLEAN, NEW next \in PrecleanSteps,
           WaitGone(at, kind, blocking, next)
    PROVE  TypeOK' /\ pc' \in PrecleanSteps
  <1>1. pc' \in PrecleanSteps /\ failed' \in BOOLEAN
    BY DEF WaitGone, waitUntil, TypeOK, PrecleanTypeOK
  <1>2. UNCHANGED <<guestVars, rorVars, problems>>
    BY DEF WaitGone
  <1>. QED
    BY <1>1, <1>2 DEF TypeOK, PrecleanTypeOK, GuestTypeOK, RorTypeOK, TeardownTypeOK,
                      Elsewhere, guestVars, rorVars, mgmtVars

LEMMA SweepType ==
    ASSUME TypeOK, Elsewhere,
           NEW at, NEW next \in PrecleanSteps, deleteAdmissionWebhooks(at, next)
    PROVE  TypeOK' /\ pc' \in PrecleanSteps
  <1>1. pc' \in PrecleanSteps /\ failed' = failed
    BY DEF deleteAdmissionWebhooks
  <1>2. present' \subseteq Objects /\ deleting' \subseteq present'
    <2>1. CASE UNCHANGED <<present, deleting>>
      BY <2>1 DEF TypeOK, PrecleanTypeOK, GuestTypeOK
    <2>2. CASE \E refused \in Refusals("delete", OfKind("Webhook")) :
                   Delete(OfKind("Webhook") \ refused)
      <3>1. PICK refused : Delete(OfKind("Webhook") \ refused)
        BY <2>2
      <3>2. OfKind("Webhook") \ refused \subseteq present
        BY DEF OfKind
      <3>. QED BY <3>1, <3>2, DeleteKeepsMarks DEF TypeOK, PrecleanTypeOK, GuestTypeOK
    <2>. QED BY <2>1, <2>2 DEF deleteAdmissionWebhooks
  <1>3. UNCHANGED <<argo, appset, autosync, guestUp, rorVars, problems>>
    BY DEF deleteAdmissionWebhooks
  <1>. QED
    BY <1>1, <1>2, <1>3 DEF TypeOK, PrecleanTypeOK, GuestTypeOK, RorTypeOK, TeardownTypeOK,
                            Elsewhere, rorVars, mgmtVars

\* Stopping ArgoCD and stripping its sync policies.
LEMMA StopArgoType ==
    ASSUME TypeOK, Elsewhere, stopArgoCD \/ waitArgoStopped \/ stripAutosync
    PROVE  TypeOK' /\ pc' \in PrecleanSteps
  <1>1. CASE stopArgoCD
    <2>1. /\ argo' \in {"none", "running", "draining", "stopped"}
          /\ appset' \in {"none", "running", "draining", "stopped"}
          /\ pc' \in PrecleanSteps
      BY <1>1 DEF stopArgoCD, PrecleanSteps, TypeOK, PrecleanTypeOK, GuestTypeOK
    <2>2. UNCHANGED <<present, deleting, autosync, guestUp, rorVars, failed, problems>>
      BY <1>1 DEF stopArgoCD
    <2>. QED
      BY <2>1, <2>2 DEF TypeOK, PrecleanTypeOK, GuestTypeOK, RorTypeOK, TeardownTypeOK,
                        Elsewhere, rorVars, mgmtVars
  <1>2. CASE waitArgoStopped
    <2>1. pc' \in PrecleanSteps
      BY <1>2 DEF waitArgoStopped, PrecleanSteps
    <2>2. UNCHANGED <<guestVars, rorVars, failed, problems>>
      BY <1>2 DEF waitArgoStopped
    <2>. QED
      BY <2>1, <2>2 DEF TypeOK, PrecleanTypeOK, GuestTypeOK, RorTypeOK, TeardownTypeOK,
                        Elsewhere, guestVars, rorVars, mgmtVars
  <1>3. CASE stripAutosync
    <2>1. pc' \in PrecleanSteps /\ autosync' \in BOOLEAN /\ failed' \in BOOLEAN
      BY <1>3 DEF stripAutosync, PrecleanSteps, TypeOK, PrecleanTypeOK, GuestTypeOK
    <2>2. UNCHANGED <<present, deleting, argo, appset, guestUp, rorVars, problems>>
      BY <1>3 DEF stripAutosync
    <2>. QED
      BY <2>1, <2>2 DEF TypeOK, PrecleanTypeOK, GuestTypeOK, RorTypeOK, TeardownTypeOK,
                        Elsewhere, rorVars, mgmtVars
  <1>. QED BY <1>1, <1>2, <1>3

\* Launching the deregistration, and folding its result into the run.
LEMMA RorStepType ==
    ASSUME TypeOK, Elsewhere, StartROR \/ CollectROR
    PROVE  TypeOK' /\ pc' \in PrecleanSteps
  <1>1. CASE StartROR
    <2>1. /\ failed' \in BOOLEAN /\ registered' = registered
          /\ pc' \in PrecleanSteps
          /\ purge' \in {"off", "polling", "forced", "guarded", "ok", "failed"}
      BY <1>1 DEF StartROR, startRORPurge, PrecleanSteps, TypeOK, PrecleanTypeOK, RorTypeOK
    <2>2. agents' \in {"none", "up", "away", "draining", "gone"}
      <3>1. agents' = agents \/ ScaleDownAgents
        BY <1>1 DEF StartROR, startRORPurge
      <3>. QED BY <3>1 DEF ScaleDownAgents, TypeOK, PrecleanTypeOK, RorTypeOK
    <2>3. UNCHANGED <<guestVars, problems>>
      BY <1>1 DEF StartROR
    <2>. QED
      BY <2>1, <2>2, <2>3 DEF TypeOK, PrecleanTypeOK, GuestTypeOK, RorTypeOK, TeardownTypeOK,
                              Elsewhere, guestVars, mgmtVars
  <1>2. CASE CollectROR
    <2>1. pc' \in PrecleanSteps /\ failed' \in BOOLEAN
      BY <1>2 DEF CollectROR, collectRORResult, PrecleanSteps, TypeOK, PrecleanTypeOK
    <2>2. UNCHANGED <<guestVars, rorVars, problems>>
      BY <1>2 DEF CollectROR
    <2>. QED
      BY <2>1, <2>2 DEF TypeOK, PrecleanTypeOK, GuestTypeOK, RorTypeOK, TeardownTypeOK,
                        Elsewhere, guestVars, rorVars, mgmtVars
  <1>. QED BY <1>1, <1>2

\* A step of phase 1 that changes only objects, and perhaps "failed".
LEMMA ObjectsType ==
    ASSUME TypeOK, Elsewhere,
           present' \subseteq Objects, deleting' \subseteq present', failed' \in BOOLEAN,
           pc' \in PrecleanSteps,
           UNCHANGED <<argo, appset, autosync, guestUp, rorVars, problems>>
    PROVE  TypeOK'
  BY DEF TypeOK, PrecleanTypeOK, GuestTypeOK, RorTypeOK, TeardownTypeOK,
         Elsewhere, rorVars, mgmtVars

LEMMA ScaleDownType ==
    ASSUME TypeOK, Elsewhere, scaleDownPVCWorkloads
    PROVE  TypeOK' /\ pc' \in PrecleanSteps
  <1>. DEFINE found == {<<"Workload", p[2]>> : p \in PodsWithPVC} \cap present
              owned0 == {w \in found : w[2] \in OperatorOwned}
              plain == found \ owned0
  <1>1. pc' \in PrecleanSteps /\ UNCHANGED <<argo, appset, autosync, guestUp, rorVars, problems>>
    BY DEF scaleDownPVCWorkloads, PrecleanSteps
  <1>2. \/ failed' = TRUE /\ UNCHANGED <<present, deleting>>
        \/ \E kept, refused :
             /\ present' = present \ (plain \ kept)
             /\ deleting' = (deleting \ (plain \ kept)) \cup (owned0 \ refused)
             /\ failed' = (failed \/ refused # {})
    BY DEF scaleDownPVCWorkloads
  <1>3. owned0 \subseteq present /\ plain \cap owned0 = {}
    OBVIOUS
  <1>. HIDE DEF plain, owned0
  <1>4. /\ present \subseteq Objects /\ deleting \subseteq present /\ failed \in BOOLEAN
    BY DEF TypeOK, PrecleanTypeOK, GuestTypeOK
  <1>5. present' \subseteq Objects /\ deleting' \subseteq present' /\ failed' \in BOOLEAN
    BY <1>2, <1>3, <1>4
  <1>. QED BY <1>1, <1>5, ObjectsType

LEMMA EvictType ==
    ASSUME TypeOK, Elsewhere, evictPVCMountingPods \/ forceEvict
    PROVE  TypeOK' /\ pc' \in PrecleanSteps
  <1>. USE DEF PrecleanSteps
  <1>1. CASE DeleteAll("evict", "Pod", IF PodsWithPVC = {} THEN "pvcs" ELSE "waitEvicted", "pvcs")
    BY <1>1, DeleteAllType
  <1>2. CASE /\ waitUntil("waitEvicted", PodsWithPVC = {}, List("list"), "pvcs", FALSE, "force")
             /\ UNCHANGED <<guestVars, rorVars, problems>>
    <2>1. pc' \in PrecleanSteps /\ failed' \in BOOLEAN
      BY <1>2 DEF waitUntil, TypeOK, PrecleanTypeOK
    <2>. QED
      BY <1>2, <2>1 DEF TypeOK, PrecleanTypeOK, GuestTypeOK, RorTypeOK, TeardownTypeOK,
                        Elsewhere, guestVars, rorVars, mgmtVars
  <1>3. CASE WaitGone("waitForced", "Pod", TRUE, "pvcs")
    BY <1>3, WaitGoneType
  <1>4. CASE forceEvict
    <2>1. pc' \in PrecleanSteps /\ UNCHANGED <<argo, appset, autosync, guestUp, rorVars, problems>>
      BY <1>4 DEF forceEvict
    <2>2. \/ failed' = TRUE /\ UNCHANGED <<present, deleting>>
          \/ \E refused : /\ present' = present \ (PodsWithPVC \ refused)
                          /\ deleting' = deleting \ (PodsWithPVC \ refused)
                          /\ failed' = (failed \/ refused # {})
      BY <1>4 DEF forceEvict
    <2>3. present' \subseteq Objects /\ deleting' \subseteq present' /\ failed' \in BOOLEAN
      BY <2>2 DEF TypeOK, PrecleanTypeOK, GuestTypeOK
    <2>. QED BY <2>1, <2>3, ObjectsType
  <1>. QED BY <1>1, <1>2, <1>3, <1>4 DEF evictPVCMountingPods

LEMMA VolumesType ==
    ASSUME TypeOK, Elsewhere, deletePVCsAndWaitVolumes
    PROVE  TypeOK' /\ pc' \in PrecleanSteps
  <1>. USE DEF PrecleanSteps
  <1>1. CASE DeleteAll("pvcs", "PVC", "waitPVCs", "collectROR")
    BY <1>1, DeleteAllType
  <1>2. CASE WaitGone("waitPVCs", "PVC", FALSE, "waitVAs")
    BY <1>2, WaitGoneType
  <1>3. CASE releaseOrphanedVolumeAttachment
    <2>1. PICK released : /\ present' = present \ released
                          /\ deleting' = deleting \ released
                          /\ pc' = IF OfKind("VA") = released THEN "waitPVs" ELSE "waitVAs"
      BY <1>3 DEF releaseOrphanedVolumeAttachment
    <2>2. UNCHANGED <<argo, appset, autosync, guestUp, rorVars, failed, problems>>
      BY <1>3 DEF releaseOrphanedVolumeAttachment
    <2>3. /\ present' \subseteq Objects /\ deleting' \subseteq present' /\ failed' \in BOOLEAN
          /\ pc' \in PrecleanSteps
      BY <2>1, <2>2 DEF TypeOK, PrecleanTypeOK, GuestTypeOK
    <2>. QED BY <2>2, <2>3, ObjectsType
  <1>4. CASE WaitGone("waitVAs", "VA", FALSE, "waitPVs")
    BY <1>4, WaitGoneType
  <1>5. CASE WaitGone("waitPVs", "PV", FALSE, "collectROR")
    BY <1>5, WaitGoneType
  <1>. QED BY <1>1, <1>2, <1>3, <1>4, <1>5 DEF deletePVCsAndWaitVolumes

\* A read of the verdict records a kind of object, and nothing else.
LEMMA VerifyType ==
    ASSUME TypeOK, Elsewhere,
           NEW at, NEW kind \in ExternalKinds, NEW next, Verify(at, kind, next),
           next \in PrecleanSteps \cup TeardownSteps \cup Ended
    PROVE  TypeOK' /\ pc' = next /\ failed' = failed
  <1>1. /\ pc' = next /\ failed' = failed
        /\ problems' = problems \/ problems' = problems \cup {kind}
        /\ UNCHANGED <<guestVars, rorVars>>
    BY DEF Verify
  <1>. QED
    BY <1>1 DEF TypeOK, PrecleanTypeOK, GuestTypeOK, RorTypeOK, TeardownTypeOK,
                Elsewhere, guestVars, rorVars, mgmtVars

-----------------------------------------------------------------------------
(***************************************************************************)
(* The two phases, and the world around them.                              *)
(***************************************************************************)

\* Where a clean verdict of phase 1 leads.
OnClean == IF mode = "delete" THEN "deleteKC" ELSE "precleaned"

\* A step of phase 1 stays in phase 1, ends the run as not clean, or is the
\* last read of a verdict that nothing stands against.
LEMMA Phase1Moves ==
    ASSUME TypeOK, Phase1
    PROVE  /\ TypeOK'
           /\ \/ pc' \in PrecleanSteps \cup {"notClean"}
              \/ pc' = OnClean /\ ~failed' /\ problems' = {}
  <1>1. Elsewhere /\ PrecleanStep(OnClean, "notClean")
    BY DEF Phase1, Elsewhere, OnClean
  <1>2. /\ PrecleanSteps \subseteq PrecleanSteps \cup TeardownSteps \cup Ended
        /\ {OnClean, "notClean"} \subseteq PrecleanSteps \cup TeardownSteps \cup Ended
    BY DEF OnClean, TeardownSteps, Ended
  <1>3. CASE deleteAdmissionWebhooks("sweep1", "stopArgo")
    <2>1. "stopArgo" \in PrecleanSteps
      BY DEF PrecleanSteps
    <2>. QED BY <1>1, <1>3, <2>1, SweepType
  <1>4. CASE stopArgoCD \/ waitArgoStopped \/ stripAutosync
    BY <1>1, <1>4, StopArgoType
  <1>5. CASE deleteAdmissionWebhooks("sweep2", "startROR")
    <2>1. "startROR" \in PrecleanSteps
      BY DEF PrecleanSteps
    <2>. QED BY <1>1, <1>5, <2>1, SweepType
  <1>6. CASE StartROR \/ CollectROR
    BY <1>1, <1>6, RorStepType
  <1>7. CASE deleteIngresses
    <2>1. {"waitIngresses", "gateways"} \subseteq PrecleanSteps
      BY DEF PrecleanSteps
    <2>. QED BY <1>1, <1>7, <2>1, DeleteAllType, WaitGoneType DEF deleteIngresses
  <1>8. CASE deleteGateways
    <2>1. {"waitGateways", "services"} \subseteq PrecleanSteps
      BY DEF PrecleanSteps
    <2>. QED BY <1>1, <1>8, <2>1, DeleteAllType, WaitGoneType DEF deleteGateways
  <1>9. CASE deleteLBServices
    <2>1. {"waitServices", "scaleDown"} \subseteq PrecleanSteps
      BY DEF PrecleanSteps
    <2>. QED BY <1>1, <1>9, <2>1, DeleteAllType, WaitGoneType DEF deleteLBServices
  <1>10. CASE scaleDownPVCWorkloads
    BY <1>1, <1>10, ScaleDownType
  <1>11. CASE evictPVCMountingPods \/ forceEvict
    BY <1>1, <1>11, EvictType
  <1>12. CASE deletePVCsAndWaitVolumes
    BY <1>1, <1>12, VolumesType
  <1>13. CASE verifyPreclean(OnClean, "notClean")
    <2>. USE <1>1
    <2>1. CASE Verify("verifyIngress", "Ingress", "verifyPVC")
      <3>1. "Ingress" \in ExternalKinds /\ "verifyPVC" \in PrecleanSteps
        BY DEF ExternalKinds, PrecleanSteps
      <3>. QED BY <2>1, <3>1, <1>2, VerifyType
    <2>2. CASE Verify("verifyPVC", "PVC", "verifyPV")
      <3>1. "PVC" \in ExternalKinds /\ "verifyPV" \in PrecleanSteps
        BY DEF ExternalKinds, PrecleanSteps
      <3>. QED BY <2>2, <3>1, <1>2, VerifyType
    <2>3. CASE Verify("verifyPV", "PV", "verifyVA")
      <3>1. "PV" \in ExternalKinds /\ "verifyVA" \in PrecleanSteps
        BY DEF ExternalKinds, PrecleanSteps
      <3>. QED BY <2>3, <3>1, <1>2, VerifyType
    <2>4. CASE Verify("verifyVA", "VA", "verifyGateway")
      <3>1. "VA" \in ExternalKinds /\ "verifyGateway" \in PrecleanSteps
        BY DEF ExternalKinds, PrecleanSteps
      <3>. QED BY <2>4, <3>1, <1>2, VerifyType
    <2>5. CASE Verify("verifyGateway", "Gateway", "verifyLB")
      <3>1. "Gateway" \in ExternalKinds /\ "verifyLB" \in PrecleanSteps
        BY DEF ExternalKinds, PrecleanSteps
      <3>. QED BY <2>5, <3>1, <1>2, VerifyType
    <2>6. CASE Verify("verifyLB", "LB", IF failed \/ problems' # {} THEN "notClean" ELSE OnClean)
      <3>1. "LB" \in ExternalKinds
        BY DEF ExternalKinds
      <3>2. PICK next : next = IF failed \/ problems' # {} THEN "notClean" ELSE OnClean
        OBVIOUS
      <3>3. Verify("verifyLB", "LB", next) /\ next \in PrecleanSteps \cup TeardownSteps \cup Ended
        BY <2>6, <3>2, <1>2
      <3>4. TypeOK' /\ pc' = next /\ failed' = failed
        BY <3>1, <3>3, VerifyType
      <3>. QED BY <3>2, <3>4
    <2>. QED BY <1>13, <2>1, <2>2, <2>3, <2>4, <2>5, <2>6 DEF verifyPreclean
  <1>. QED
    BY <1>1, <1>3, <1>4, <1>5, <1>6, <1>7, <1>8, <1>9, <1>10, <1>11, <1>12, <1>13
       DEF PrecleanStep

\* A step of phase 2 stays in it, past the deletion, or ends the run; only
\* the deletion changes the cluster, and only that changes "waived".
LEMMA Phase2Moves ==
    ASSUME TypeOK, Phase2
    PROVE  /\ TypeOK'
           /\ pc \in TeardownSteps
           /\ pc' \in (TeardownSteps \ {"deleteKC"}) \cup {"deleted", "notClean"}
           /\ pc # "deleteKC" => kc' = kc
  <1>1. /\ UNCHANGED <<guestVars, rorVars, problems, mode>>
        /\ waived' \in BOOLEAN
        /\ TeardownStep("deleted", "notClean")
    BY DEF Phase2, TypeOK
  <1>2. /\ kc' \in {"live", "deleting", "absent"} /\ owned' = owned
        /\ leftovers' \in BOOLEAN /\ failed' \in BOOLEAN
        /\ pc \in TeardownSteps
        /\ pc' \in (TeardownSteps \ {"deleteKC"}) \cup {"deleted", "notClean"}
        /\ pc # "deleteKC" => kc' = kc
    <2>. USE <1>1 DEF TypeOK, PrecleanTypeOK, TeardownTypeOK, TeardownSteps
    <2>1. CASE deleteKC("notClean")
      BY <2>1 DEF deleteKC
    <2>2. CASE \/ WaitReleased("waitMachines", "Machine", "waitNCs")
               \/ WaitReleased("waitNCs", "NetworkConfiguration", "waitVIP")
               \/ WaitReleased("waitVIP", "VIP", "waitKC")
      BY <2>2 DEF WaitReleased, waitUntil
    <2>3. CASE waitKCGone
      BY <2>3 DEF waitKCGone, waitUntil
    <2>4. CASE checkIPAllocations
      BY <2>4 DEF checkIPAllocations
    <2>5. CASE verifyTeardown("deleted", "notClean")
      BY <2>5 DEF verifyTeardown, Recheck
    <2>. QED BY <2>1, <2>2, <2>3, <2>4, <2>5 DEF TeardownStep
  <1>3. pc' \in PrecleanSteps \cup TeardownSteps \cup Ended
    BY <1>2 DEF Ended
  <1>. QED
    BY <1>1, <1>2, <1>3 DEF TypeOK, PrecleanTypeOK, GuestTypeOK, RorTypeOK, TeardownTypeOK,
                            guestVars, rorVars

LEMMA InitType == ASSUME Init PROVE TypeOK
  <1>1. PrecleanTypeOK
    <2>1. present \subseteq Objects /\ deleting \subseteq present
      <3>1. PICK gaps \in SUBSET (Volumes \ (Orphans \cup Bare)) :
               present = Objects \ (({"Workload", "Pod", "PVC", "PV"} \X Orphans)
                                      \cup ({"Workload"} \X Bare)
                                      \cup ({"Pod", "VA"} \X gaps))
        BY DEF Init, GuestInit
      <3>2. deleting = {"VA"} \X Orphans /\ Orphans \subseteq Volumes
        BY GuestAssumption DEF Init, GuestInit
      <3>3. ASSUME NEW o \in Orphans PROVE <<"VA", o>> \in present
        <4>1. <<"VA", o>> \in Objects
          BY <3>2 DEF Objects
        <4>2. /\ <<"VA", o>> \notin {"Workload", "Pod", "PVC", "PV"} \X Orphans
              /\ <<"VA", o>> \notin {"Workload"} \X Bare
              /\ <<"VA", o>> \notin {"Pod", "VA"} \X gaps
          OBVIOUS
        <4>. QED BY <3>1, <4>1, <4>2
      <3>. QED BY <3>1, <3>2, <3>3
    <2>2. /\ argo \in {"none", "running", "draining", "stopped"}
          /\ appset \in {"none", "running", "draining", "stopped"}
          /\ autosync \in BOOLEAN /\ guestUp \in BOOLEAN
      BY GuestAssumption DEF Init, GuestInit
    <2>3. RorTypeOK
      BY RorAssumption DEF Init, RorInit, RorTypeOK
    <2>. QED BY <2>1, <2>2, <2>3 DEF PrecleanTypeOK, GuestTypeOK, Init
  <1>2. TeardownTypeOK
    BY DEF Init, TeardownInit, TeardownTypeOK, Resources
  <1>3. /\ pc \in PrecleanSteps \cup TeardownSteps \cup Ended
        /\ mode \in AllModes /\ waived \in BOOLEAN
    BY DecommissionAssumption DEF Init, Ended
  <1>. QED BY <1>1, <1>2, <1>3 DEF TypeOK

LEMMA StartType == ASSUME TypeOK, NEW m \in Modes, Start(m) PROVE TypeOK'
  <1>1. pc' \in PrecleanSteps \cup TeardownSteps \cup Ended
    BY DEF Start, PrecleanSteps, TeardownSteps
  <1>. QED
    BY <1>1, DecommissionAssumption
       DEF Start, TypeOK, PrecleanTypeOK, GuestTypeOK, RorTypeOK, TeardownTypeOK,
           guestVars, mgmtVars

LEMMA KilledType == ASSUME TypeOK, Killed PROVE TypeOK'
  <1>1. pc' \in Ended
    BY DEF Killed, Ended
  <1>. QED
    BY <1>1 DEF Killed, TypeOK, PrecleanTypeOK, GuestTypeOK, RorTypeOK, TeardownTypeOK,
                guestVars, mgmtVars

LEMMA GuestStepType == ASSUME TypeOK, Guest PROVE TypeOK'
  <1>1. UNCHANGED <<rorVars, runnerVars, mgmtVars, leftovers, mode, waived>>
    BY DEF Guest, ApartFromGuest
  <1>2. GuestTypeOK'
    <2>. USE DEF TypeOK, PrecleanTypeOK, GuestTypeOK
    <2>1. CASE \E o \in Objects : Finish(o)
      BY <2>1 DEF Finish
    <2>2. CASE \E o \in Objects : Cascade(o)
      BY <2>2 DEF Cascade
    <2>3. CASE \E o \in Objects : Recreate(o)
      BY <2>3 DEF Recreate
    <2>4. CASE ArgoExits \/ ArgoRestart
      BY <2>4 DEF ArgoExits, ArgoRestart
    <2>5. CASE AppSetExits \/ AppSetRestores
      BY <2>5 DEF AppSetExits, AppSetRestores
    <2>. QED BY <2>1, <2>2, <2>3, <2>4, <2>5 DEF Guest, GuestNext
  <1>. QED
    BY <1>1, <1>2 DEF TypeOK, PrecleanTypeOK, RorTypeOK, TeardownTypeOK,
                      rorVars, runnerVars, mgmtVars

LEMMA GoroutineType == ASSUME TypeOK, Goroutine PROVE TypeOK'
  <1>1. UNCHANGED <<guestVars, runnerVars, mgmtVars, leftovers, mode, waived>>
    BY DEF Goroutine, ApartFromROR
  <1>2. RorTypeOK'
    BY DEF Goroutine, RorNext, AgentsRestart, AgentsExit, Heartbeat, PollAgents, PluginPurges,
           PluginFails, TypeOK, PrecleanTypeOK, RorTypeOK
  <1>. QED
    BY <1>1, <1>2 DEF TypeOK, PrecleanTypeOK, GuestTypeOK, TeardownTypeOK,
                      guestVars, runnerVars, mgmtVars

\* The operator releases a deleted cluster; it never deletes one.
LEMMA OperatorType ==
    ASSUME TypeOK, Operator
    PROVE  TypeOK' /\ (kc = "live" => kc' = kc)
  <1>1. /\ guestUp' \in BOOLEAN
        /\ UNCHANGED <<present, deleting, argo, appset, autosync, rorVars, runnerVars,
                       leftovers, mode, waived>>
    BY DEF Operator, ApartFromMgmt, TypeOK, PrecleanTypeOK, GuestTypeOK
  <1>2. /\ kc' \in {"live", "deleting", "absent"} /\ owned' \subseteq Resources
        /\ kc = "live" => kc' = kc
    BY DEF Operator, OperatorNext, Release, CreateLateMachine, ReleaseKC, Resources,
           TypeOK, TeardownTypeOK
  <1>. QED
    BY <1>1, <1>2 DEF TypeOK, PrecleanTypeOK, GuestTypeOK, RorTypeOK, TeardownTypeOK,
                      rorVars, runnerVars

LEMMA NextType == ASSUME TypeOK, [Next]_vars PROVE TypeOK'
  <1>1. CASE \E m \in Modes : Start(m)
    BY <1>1, StartType
  <1>2. CASE Killed
    BY <1>2, KilledType
  <1>3. CASE Phase1
    BY <1>3, Phase1Moves
  <1>4. CASE Phase2
    BY <1>4, Phase2Moves
  <1>5. CASE Goroutine
    BY <1>5, GoroutineType
  <1>6. CASE Guest
    BY <1>6, GuestStepType
  <1>7. CASE Operator
    BY <1>7, OperatorType
  <1>8. CASE UNCHANGED vars
    BY <1>8 DEF vars, TypeOK, PrecleanTypeOK, GuestTypeOK, RorTypeOK, TeardownTypeOK
  <1>. QED BY <1>1, <1>2, <1>3, <1>4, <1>5, <1>6, <1>7, <1>8 DEF Next

-----------------------------------------------------------------------------
(***************************************************************************)
(* The theorems.                                                           *)
(***************************************************************************)

\* Every state of a decommission is well formed; in particular only objects
\* that exist carry a deletion mark, in whatever order viti and the guest's
\* controllers delete and re-create them.
THEOREM TypeCorrect == Spec => []TypeOK
  <1>1. Init => TypeOK
    BY InitType
  <1>2. TypeOK /\ [Next]_vars => TypeOK'
    BY NextType
  <1>. QED BY <1>1, <1>2, PTL DEF Spec

\* What makes the deletion of a cluster follow a clean verdict: a process
\* that is in phase 2 is not a preclean, and one that is about to delete the
\* cluster after phase 1 still stands by that phase's verdict.
VerdictStands ==
    /\ pc \in TeardownSteps => mode # "preclean"
    /\ pc = "deleteKC" /\ mode = "delete" => ~failed /\ problems = {}

LEMMA InitVerdict == ASSUME Init PROVE VerdictStands
  BY DEF Init, VerdictStands, TeardownSteps

LEMMA NextVerdict == ASSUME TypeOK, VerdictStands, [Next]_vars PROVE VerdictStands'
  <1>. USE DEF VerdictStands
  <1>1. CASE \E m \in Modes : Start(m)
    BY <1>1 DEF Start, TeardownSteps
  <1>2. CASE Killed
    BY <1>2 DEF Killed, TeardownSteps
  <1>3. CASE Phase1
    <2>1. "deleteKC" \notin PrecleanSteps /\ PrecleanSteps \cap TeardownSteps = {}
      BY DEF PrecleanSteps, TeardownSteps
    <2>2. {"notClean", "precleaned"} \cap TeardownSteps = {}
      BY DEF TeardownSteps
    <2>3. mode' = mode
      BY <1>3 DEF Phase1
    <2>. QED BY <1>3, <2>1, <2>2, <2>3, Phase1Moves DEF OnClean
  <1>4. CASE Phase2
    <2>1. mode' = mode
      BY <1>4 DEF Phase2
    <2>2. pc \in TeardownSteps /\ pc' # "deleteKC"
      BY <1>4, Phase2Moves
    <2>. QED BY <2>1, <2>2
  <1>5. CASE UNCHANGED <<pc, mode, failed, problems>>
    BY <1>5
  <1>6. CASE Goroutine \/ Guest \/ Operator \/ UNCHANGED vars
    BY <1>5, <1>6 DEF Goroutine, ApartFromROR, Guest, ApartFromGuest, Operator, ApartFromMgmt,
                      runnerVars, vars
  <1>. QED BY <1>1, <1>2, <1>3, <1>4, <1>6 DEF Next

\* "Phase 2 runs only if phase 1 is verifiably clean": whatever fails,
\* whoever kills the process and however often it is started again, a live
\* cluster is deleted only by a run that skips phase 1 or stands by a clean
\* verdict of it.
THEOREM DeletionIsGated == Spec => DeletedOnlyAfterVerdict
  <1>1. Init => TypeOK /\ VerdictStands
    BY InitType, InitVerdict
  <1>2. TypeOK /\ VerdictStands /\ [Next]_vars => (TypeOK /\ VerdictStands)'
    BY NextType, NextVerdict
  <1>3. TypeOK /\ VerdictStands /\ [Next]_vars =>
          [kc = "live" /\ kc' # "live" =>
             \/ mode = "skipPreclean"
             \/ mode = "delete" /\ ~failed /\ problems = {}]_vars
    <2>. SUFFICES ASSUME TypeOK, VerdictStands, Next, kc = "live", kc' # "live"
                  PROVE  \/ mode = "skipPreclean"
                         \/ mode = "delete" /\ ~failed /\ problems = {}
      OBVIOUS
    <2>1. Phase2
      BY OperatorType DEF Next, Start, Killed, Phase1, Goroutine, ApartFromROR,
                          Guest, ApartFromGuest, mgmtVars
    <2>2. pc = "deleteKC" /\ "deleteKC" \in TeardownSteps
      BY <2>1, Phase2Moves DEF TeardownSteps
    <2>3. mode \in {"delete", "skipPreclean"}
      BY <2>2 DEF VerdictStands, TypeOK, AllModes
    <2>. QED BY <2>2, <2>3 DEF VerdictStands
  <1>. QED BY <1>1, <1>2, <1>3, PTL DEF Spec, DeletedOnlyAfterVerdict

\* A step of phase 1 takes no object with external state out of the API but
\* the attachments releaseOrphanedVolumeAttachments names.
LEMMA Phase1Removes ==
    ASSUME Phase1, NEW o \in External, o \in present \ present'
    PROVE  o[1] = "VA" /\ o \in deleting /\ <<"PV", o[2]>> \notin present
  <1>. USE DEF External, ExternalKinds
  <1>1. PrecleanStep(OnClean, "notClean")
    BY DEF Phase1, OnClean
  <1>2. ASSUME NEW S, Delete(S) PROVE o[1] = "Webhook"
    BY <1>2 DEF Delete, LeavesAtOnce
  <1>3. CASE releaseOrphanedVolumeAttachment
    <2>1. o \in Releasables
      BY <1>3 DEF releaseOrphanedVolumeAttachment
    <2>. QED BY <2>1 DEF Releasables, OfKind
  <1>4. CASE scaleDownPVCWorkloads
    <2>. DEFINE found == {<<"Workload", p[2]>> : p \in PodsWithPVC} \cap present
    <2>1. \A w \in found : w[1] = "Workload"
      OBVIOUS
    <2>2. o \in found
      BY <1>4 DEF scaleDownPVCWorkloads
    <2>. QED BY <2>1, <2>2
  <1>5. CASE forceEvict
    <2>1. o \in PodsWithPVC
      BY <1>5 DEF forceEvict
    <2>. QED BY <2>1 DEF PodsWithPVC, OfKind
  <1>6. ASSUME NEW at, NEW kind, NEW next, NEW onListError, DeleteAll(at, kind, next, onListError)
        PROVE  FALSE
    BY <1>2, <1>6 DEF DeleteAll
  <1>7. ASSUME NEW at, NEW next, deleteAdmissionWebhooks(at, next) PROVE FALSE
    BY <1>2, <1>7 DEF deleteAdmissionWebhooks
  <1>8. ASSUME NEW at, NEW kind, NEW blocking, NEW next, WaitGone(at, kind, blocking, next) PROVE FALSE
    BY <1>8 DEF WaitGone, guestVars
  <1>9. CASE deleteIngresses \/ deleteGateways \/ deleteLBServices
    BY <1>6, <1>8, <1>9 DEF deleteIngresses, deleteGateways, deleteLBServices
  <1>10. CASE evictPVCMountingPods
    BY <1>6, <1>8, <1>10 DEF evictPVCMountingPods, guestVars
  <1>11. CASE deletePVCsAndWaitVolumes
    BY <1>3, <1>6, <1>8, <1>11 DEF deletePVCsAndWaitVolumes
  <1>12. CASE stopArgoCD \/ waitArgoStopped \/ stripAutosync \/ StartROR \/ CollectROR
    BY <1>12 DEF stopArgoCD, waitArgoStopped, stripAutosync, StartROR, CollectROR, guestVars
  <1>13. CASE verifyPreclean(OnClean, "notClean")
    BY <1>13 DEF verifyPreclean, Verify, guestVars
  <1>. QED
    BY <1>1, <1>4, <1>5, <1>7, <1>9, <1>10, <1>11, <1>12, <1>13 DEF PrecleanStep

\* Finalizers are never forced: for every guest and every failing call, what
\* holds external state leaves the API through its own controller.
THEOREM FinalizersUntouched == Spec => FinalizersKept
  <1>1. Phase1 => \A o \in External \cap (present \ present') :
                      o[1] = "VA" /\ o \in deleting /\ <<"PV", o[2]>> \notin present
    BY Phase1Removes
  <1>2. [Next]_vars =>
          [Phase1 => \A o \in External \cap (present \ present') :
                      o[1] = "VA" /\ o \in deleting /\ <<"PV", o[2]>> \notin present]_vars
    BY <1>1
  <1>. QED BY <1>2, PTL DEF Spec, FinalizersKept

-----------------------------------------------------------------------------
(***************************************************************************)
(* Phase 2: what the reads of verifyTeardown add up to.                    *)
(***************************************************************************)

\* Until the last read nothing is known but what the reads so far saw; what
\* they saw stays true, because an absent cluster has no machine and gets none.
TeardownInv ==
    /\ kc = "absent" => "Machine" \notin owned
    /\ pc = "verifyVIP" /\ ~failed /\ ~leftovers => kc = "absent"
    /\ DeletedMeansDead

LEMMA Phase2Teardown ==
    ASSUME TypeOK, TeardownInv, Phase2
    PROVE  TeardownInv'
  <1>1. TeardownStep("deleted", "notClean")
    BY DEF Phase2
  <1>2. CASE deleteKC("notClean")
    <2>1. /\ owned' = owned /\ pc' \in {"waitMachines", "notClean"}
          /\ kc' = kc \/ kc' = "deleting"
      BY <1>2 DEF deleteKC
    <2>. QED BY <2>1 DEF TeardownInv, DeletedMeansDead
  <1>3. CASE \/ WaitReleased("waitMachines", "Machine", "waitNCs")
             \/ WaitReleased("waitNCs", "NetworkConfiguration", "waitVIP")
             \/ WaitReleased("waitVIP", "VIP", "waitKC")
             \/ waitKCGone \/ checkIPAllocations
    <2>1. /\ UNCHANGED <<kc, owned>>
          /\ pc' \in {"waitNCs", "waitVIP", "waitKC", "ipAllocations", "verifyMachines"}
      BY <1>3 DEF WaitReleased, waitKCGone, waitUntil, checkIPAllocations
    <2>. QED BY <2>1 DEF TeardownInv, DeletedMeansDead
  <1>4. CASE verifyTeardown("deleted", "notClean")
    <2>1. UNCHANGED <<kc, owned, failed>>
      BY <1>4 DEF verifyTeardown, Recheck
    <2>2. CASE Recheck("verifyMachines", "Machine" \notin owned, "verifyKC")
      BY <2>1, <2>2 DEF Recheck, TeardownInv, DeletedMeansDead
    <2>3. CASE Recheck("verifyKC", kc = "absent", "verifyVIP")
      BY <2>1, <2>3 DEF Recheck, TeardownInv, DeletedMeansDead
    <2>4. CASE Recheck("verifyVIP", "VIP" \notin owned,
                       IF failed \/ leftovers' THEN "notClean" ELSE "deleted")
      BY <2>1, <2>4 DEF Recheck, TeardownInv, DeletedMeansDead
    <2>. QED BY <1>4, <2>2, <2>3, <2>4 DEF verifyTeardown
  <1>. QED BY <1>1, <1>2, <1>3, <1>4 DEF TeardownStep

LEMMA NextTeardown == ASSUME TypeOK, TeardownInv, [Next]_vars PROVE TeardownInv'
  <1>1. CASE \E m \in Modes : Start(m)
    BY <1>1 DEF Start, mgmtVars, TeardownInv, DeletedMeansDead
  <1>2. CASE Killed
    BY <1>2 DEF Killed, mgmtVars, TeardownInv, DeletedMeansDead
  <1>3. CASE Phase1
    <2>1. UNCHANGED <<kc, owned>> /\ pc' \notin {"verifyVIP", "deleted"}
      <3>1. pc' \in PrecleanSteps \cup {"notClean", OnClean}
        BY <1>3, Phase1Moves
      <3>. QED BY <1>3, <3>1 DEF Phase1, mgmtVars, PrecleanSteps, OnClean
    <2>. QED BY <2>1 DEF TeardownInv, DeletedMeansDead
  <1>4. CASE Phase2
    BY <1>4, Phase2Teardown
  <1>5. CASE Goroutine \/ Guest \/ UNCHANGED vars
    <2>1. UNCHANGED <<kc, owned, pc, failed, leftovers>>
      BY <1>5 DEF Goroutine, ApartFromROR, Guest, ApartFromGuest, vars, runnerVars, mgmtVars
    <2>. QED BY <2>1 DEF TeardownInv, DeletedMeansDead
  <1>6. CASE Operator
    <2>1. UNCHANGED <<pc, failed, leftovers>>
      BY <1>6 DEF Operator, ApartFromMgmt, runnerVars
    <2>2. CASE \E r \in Resources : Release(r)
      BY <2>1, <2>2 DEF Release, TeardownInv, DeletedMeansDead
    <2>3. CASE CreateLateMachine
      BY <2>1, <2>3 DEF CreateLateMachine, TeardownInv, DeletedMeansDead
    <2>4. CASE ReleaseKC
      BY <2>1, <2>4 DEF ReleaseKC, TeardownInv, DeletedMeansDead
    <2>. QED BY <1>6, <2>2, <2>3, <2>4 DEF Operator, OperatorNext
  <1>. QED BY <1>1, <1>2, <1>3, <1>4, <1>5, <1>6 DEF Next

\* "The cluster was fully deleted" is never said of a cluster that still has
\* an object, a machine or an API address, even if a reconcile in flight
\* creates machines again between two reads of the verdict.
THEOREM DeadWhenDeleted == Spec => []DeletedMeansDead
  <1>1. Init => TypeOK /\ TeardownInv
    BY InitType DEF Init, TeardownInit, TeardownInv, DeletedMeansDead
  <1>2. TypeOK /\ TeardownInv /\ [Next]_vars => (TypeOK /\ TeardownInv)'
    BY NextType, NextTeardown
  <1>3. TypeOK /\ TeardownInv => DeletedMeansDead
    BY DEF TeardownInv
  <1>. QED BY <1>1, <1>2, <1>3, PTL DEF Spec

\* The steps of phase 2 after each of its waits.
AfterIPs      == {"verifyMachines", "verifyKC", "verifyVIP"}
AfterKC       == {"ipAllocations"} \cup AfterIPs
AfterVIP      == {"waitKC"} \cup AfterKC
AfterNCs      == {"waitVIP"} \cup AfterVIP
AfterMachines == {"waitNCs"} \cup AfterNCs

ReleasedInv ==
    /\ ~failed /\ pc \in AfterMachines => "Machine" \notin owned
    /\ ~failed /\ pc \in AfterNCs => "NetworkConfiguration" \notin owned
    /\ ~failed /\ pc \in AfterVIP => "VIP" \notin owned
    /\ ~failed /\ pc \in AfterIPs => "IPAllocation" \notin owned
    /\ DeletedMeansReleased

LEMMA Phase2Releases ==
    ASSUME TypeOK, TeardownInv, ReleasedInv, Phase2
    PROVE  ReleasedInv'
  <1>. USE DEF AfterMachines, AfterNCs, AfterVIP, AfterKC, AfterIPs, ReleasedInv, DeletedMeansReleased
  <1>1. TeardownStep("deleted", "notClean")
    BY DEF Phase2
  <1>2. CASE deleteKC("notClean")
    BY <1>2 DEF deleteKC
  <1>3. CASE WaitReleased("waitMachines", "Machine", "waitNCs")
    BY <1>3 DEF WaitReleased, waitUntil
  <1>4. CASE WaitReleased("waitNCs", "NetworkConfiguration", "waitVIP")
    BY <1>4 DEF WaitReleased, waitUntil
  <1>5. CASE WaitReleased("waitVIP", "VIP", "waitKC")
    BY <1>5 DEF WaitReleased, waitUntil
  <1>6. CASE waitKCGone
    BY <1>6 DEF waitKCGone, waitUntil
  <1>7. CASE checkIPAllocations
    BY <1>7 DEF checkIPAllocations
  <1>8. CASE verifyTeardown("deleted", "notClean")
    <2>1. CASE \/ Recheck("verifyMachines", "Machine" \notin owned, "verifyKC")
               \/ Recheck("verifyKC", kc = "absent", "verifyVIP")
      BY <2>1 DEF Recheck
    <2>2. CASE Recheck("verifyVIP", "VIP" \notin owned,
                       IF failed \/ leftovers' THEN "notClean" ELSE "deleted")
      <3>1. /\ UNCHANGED <<kc, owned, failed>> /\ pc = "verifyVIP" /\ leftovers \in BOOLEAN
            /\ pc' = IF failed \/ leftovers' THEN "notClean" ELSE "deleted"
            /\ ~leftovers' => ~leftovers
        BY <2>2 DEF Recheck, TypeOK, TeardownTypeOK
      <3>2. ~failed /\ ~leftovers' => owned = {} /\ kc = "absent"
        BY <3>1 DEF TeardownInv, TypeOK, TeardownTypeOK, Resources
      <3>. QED BY <3>1, <3>2
    <2>. QED BY <1>8, <2>1, <2>2 DEF verifyTeardown
  <1>. QED BY <1>1, <1>2, <1>3, <1>4, <1>5, <1>6, <1>7, <1>8 DEF TeardownStep

LEMMA NextReleases ==
    ASSUME ~LateMachines, TypeOK, TeardownInv, ReleasedInv, [Next]_vars
    PROVE  ReleasedInv'
  <1>. USE DEF AfterMachines, AfterNCs, AfterVIP, AfterKC, AfterIPs, ReleasedInv, DeletedMeansReleased
  <1>1. CASE (\E m \in Modes : Start(m)) \/ Killed
    <2>1. pc' \in {"sweep1", "deleteKC", "idle"}
      BY <1>1 DEF Start, Killed
    <2>. QED BY <2>1
  <1>2. CASE Phase1
    <2>1. pc' \in PrecleanSteps \cup {"notClean", OnClean}
      BY <1>2, Phase1Moves
    <2>2. pc' \notin AfterMachines \cup {"deleted"}
      BY <2>1 DEF PrecleanSteps, OnClean
    <2>. QED BY <2>2
  <1>3. CASE Phase2
    BY <1>3, Phase2Releases
  <1>4. CASE Goroutine \/ Guest \/ UNCHANGED vars
    <2>1. UNCHANGED <<kc, owned, pc, failed>>
      BY <1>4 DEF Goroutine, ApartFromROR, Guest, ApartFromGuest, vars, runnerVars, mgmtVars
    <2>. QED BY <2>1
  <1>5. CASE Operator
    <2>1. UNCHANGED <<pc, failed>>
      BY <1>5 DEF Operator, ApartFromMgmt, runnerVars
    <2>2. owned' \subseteq owned /\ (kc = "absent" => kc' = "absent")
      BY <1>5 DEF Operator, OperatorNext, Release, CreateLateMachine, ReleaseKC
    <2>. QED BY <2>1, <2>2
  <1>. QED BY <1>1, <1>2, <1>3, <1>4, <1>5 DEF Next

\* Where no reconcile in flight creates a machine after the deletion, a run
\* that says "fully deleted" leaves no resource of the cluster: every wait of
\* phase 2 that gives up blocks that message.
THEOREM ReleasedWhenDeleted == ASSUME ~LateMachines PROVE Spec => []DeletedMeansReleased
  <1>1. Init => TypeOK /\ TeardownInv /\ ReleasedInv
    BY InitType DEF Init, TeardownInit, TeardownInv, DeletedMeansDead, ReleasedInv,
                    DeletedMeansReleased, AfterMachines, AfterNCs, AfterVIP, AfterKC, AfterIPs
  <1>2. TypeOK /\ TeardownInv /\ ReleasedInv /\ [Next]_vars => (TypeOK /\ TeardownInv /\ ReleasedInv)'
    BY NextType, NextTeardown, NextReleases
  <1>3. ReleasedInv => DeletedMeansReleased
    BY DEF ReleasedInv
  <1>. QED BY <1>1, <1>2, <1>3, PTL DEF Spec

=============================================================================
