-------------------------- MODULE CleanVerdictProofs --------------------------
(***************************************************************************)
(* A clean verdict is never false, on these conditions: the calls that are *)
(* only warned about do not fail, no ApplicationSet writes sync policies,  *)
(* a workload is never caught between two pods, and a webhook that rejects *)
(* every write is not kept by a finalizer, nor there at all where the ROR  *)
(* agents' scale-down would be rejected with only a warning.  TLC finds a  *)
(* false verdict without any one of them.                                  *)
(***************************************************************************)
EXTENDS DecommissionProofs

Quiescible ==
    /\ {"argo", "scale", "agents"} \cap Flaky = {}
    /\ ~HasAppSet
    /\ ~PodGaps
    /\ StaleHooks \cap HeldHooks = {}
    /\ InRor => StaleHooks = {}

LiveWorkloads == OfKind("Workload") \ deleting

\* Nothing is held, and nothing is left that would acquire anything: no
\* ArgoCD that syncs, no workload, no pod, no ROR agent.
Quiet ==
    /\ Held = {}
    /\ ~autosync
    /\ LiveWorkloads = {} /\ PodsWithPVC = {}
    /\ agents \in {"none", "gone"}

\* FromX: the steps of phase 1 from X on.
FromVerifyLB      == {"verifyLB"}
FromVerifyGateway == {"verifyGateway"} \cup FromVerifyLB
FromVerifyVA      == {"verifyVA"} \cup FromVerifyGateway
FromVerifyPV      == {"verifyPV"} \cup FromVerifyVA
FromVerifyPVC     == {"verifyPVC"} \cup FromVerifyPV
FromVerify        == {"verifyIngress"} \cup FromVerifyPVC
FromPVCs          == {"pvcs", "waitPVCs", "waitVAs", "waitPVs", "collectROR"} \cup FromVerify
FromWaitEvicted   == {"waitEvicted", "force", "waitForced"} \cup FromPVCs
FromWaitIngresses == {"waitIngresses", "gateways", "waitGateways", "services", "waitServices",
                      "scaleDown", "evict"} \cup FromWaitEvicted
FromIngresses     == {"ingresses"} \cup FromWaitIngresses

\* What a phase 1 that has not failed knows about ArgoCD, ...
ArgoQuiet ==
    /\ argo = "none" => ~autosync
    /\ appset = "none"
    /\ ~failed /\ pc \in {"sweep2", "startROR", "ingresses"} => ~autosync \/ ~guestUp
    /\ ~failed /\ pc \in FromWaitIngresses => ~autosync

\* ... about workloads and their pods (a workload whose pod is missing while
\* writes are rejected got there with ArgoCD's help), ...
WorkloadsQuiet ==
    /\ \A w \in StaleHooks : <<"Webhook", w>> \notin deleting
    /\ WritesRejected /\ Gaps # {} => autosync
    /\ ~failed /\ pc = "evict" => LiveWorkloads = {} \/ WritesRejected
    /\ ~failed /\ pc \in FromWaitEvicted => LiveWorkloads = {}
    /\ ~failed /\ pc \in FromPVCs => PodsWithPVC = {}

\* ... about ROR, ...
RorQuiet ==
    /\ (agents = "none") = ~InRor
    /\ agents = "none" => ~registered
    /\ purge \in {"polling", "guarded", "failed"} => agents \in {"draining", "gone"}
    /\ purge \in {"forced", "ok"} => agents = "gone"
    /\ purge = "ok" => ~registered
    /\ ~failed /\ pc \in FromIngresses => agents = "none" \/ purge # "off"
    /\ ~failed /\ pc \in FromVerify => agents = "none" \/ purge = "ok"

\* ... and from the reads of its verdict so far.
ReadSoFar ==
    ~failed /\ problems = {} =>
        /\ pc \in FromVerifyPVC => OfKind("Ingress") = {}
        /\ pc \in FromVerifyPV => OfKind("PVC") = {}
        /\ pc \in FromVerifyVA => OfKind("PV") = {}
        /\ pc \in FromVerifyGateway => OfKind("VA") = {}
        /\ pc \in FromVerifyLB => OfKind("Gateway") = {}

CleanInv ==
    /\ TypeOK /\ VerdictStands
    /\ ArgoQuiet /\ WorkloadsQuiet /\ RorQuiet /\ ReadSoFar
    /\ ReliesOnVerdict => Quiet

-----------------------------------------------------------------------------
(***************************************************************************)
(* What a step of phase 1 can do to the guest.                             *)
(***************************************************************************)

\* It creates nothing, takes no mark back, and removes nothing but webhooks
\* while writes are rejected; it never resumes a sync policy, and forgets
\* neither a failure nor a problem.
Gentle ==
    /\ present' \subseteq present
    /\ deleting \cap present' \subseteq deleting'
    /\ \A o \in present \ present' : o[1] = "Webhook" \/ ~WritesRejected
    /\ \A w \in StaleHooks : <<"Webhook", w>> \notin deleting'
    /\ guestUp' = guestUp /\ registered' = registered
    /\ autosync' = autosync \/ (~autosync' /\ ~WritesRejected)
    /\ argo = "none" <=> argo' = "none"
    /\ appset = "none" => appset' = "none"
    /\ failed => failed'
    /\ problems \subseteq problems'

LEMMA DeleteIsGentle ==
    ASSUME Quiescible, deleting \subseteq present,
           \A w \in StaleHooks : <<"Webhook", w>> \notin deleting,
           NEW S, S \subseteq present, \A o \in S : Accepts(o), Delete(S)
    PROVE  /\ present' \subseteq present
           /\ deleting \cap present' \subseteq deleting'
           /\ \A o \in present \ present' : o[1] = "Webhook" \/ ~WritesRejected
           /\ \A w \in StaleHooks : <<"Webhook", w>> \notin deleting'
  <1>1. present' = present \ {o \in S : LeavesAtOnce(o)} /\ deleting' = (deleting \cup S) \cap present'
    BY DEF Delete
  <1>2. \A o \in present \ present' : o[1] = "Webhook"
    BY <1>1 DEF LeavesAtOnce
  <1>3. ASSUME NEW w \in StaleHooks PROVE <<"Webhook", w>> \notin deleting'
    <2>1. LeavesAtOnce(<<"Webhook", w>>)
      BY DEF LeavesAtOnce, Quiescible
    <2>. QED BY <1>1, <2>1
  <1>. QED BY <1>1, <1>2, <1>3

LEMMA AcceptedOnly ==
    ASSUME NEW site, NEW S, NEW refused \in Refusals(site, S)
    PROVE  \A o \in S \ refused : Accepts(o)
  BY DEF Refusals

LEMMA DeleteAllGentle ==
    ASSUME Quiescible, TypeOK, \A w \in StaleHooks : <<"Webhook", w>> \notin deleting,
           NEW at, NEW kind, NEW next, NEW onListError, DeleteAll(at, kind, next, onListError)
    PROVE  Gentle
  <1>1. UNCHANGED <<argo, appset, autosync, guestUp, rorVars, problems>> /\ (failed => failed')
    BY DEF DeleteAll, TypeOK, PrecleanTypeOK
  <1>2. CASE UNCHANGED <<present, deleting>>
    BY <1>1, <1>2 DEF Gentle, rorVars
  <1>3. CASE \E refused \in Refusals("delete", OfKind(kind)) : Delete(OfKind(kind) \ refused)
    <2>1. PICK refused \in Refusals("delete", OfKind(kind)) : Delete(OfKind(kind) \ refused)
      BY <1>3
    <2>2. OfKind(kind) \ refused \subseteq present /\ deleting \subseteq present
      BY DEF OfKind, TypeOK, PrecleanTypeOK, GuestTypeOK
    <2>3. \A o \in OfKind(kind) \ refused : Accepts(o)
      BY AcceptedOnly
    <2>4. /\ present' \subseteq present
          /\ deleting \cap present' \subseteq deleting'
          /\ \A o \in present \ present' : o[1] = "Webhook" \/ ~WritesRejected
          /\ \A w \in StaleHooks : <<"Webhook", w>> \notin deleting'
      BY <2>1, <2>2, <2>3, DeleteIsGentle
    <2>. QED BY <1>1, <2>4 DEF Gentle, rorVars
  <1>. QED BY <1>2, <1>3 DEF DeleteAll

LEMMA SweepGentle ==
    ASSUME Quiescible, TypeOK, \A w \in StaleHooks : <<"Webhook", w>> \notin deleting,
           NEW at, NEW next, deleteAdmissionWebhooks(at, next)
    PROVE  Gentle
  <1>1. UNCHANGED <<argo, appset, autosync, guestUp, rorVars, failed, problems>>
    BY DEF deleteAdmissionWebhooks
  <1>2. CASE UNCHANGED <<present, deleting>>
    BY <1>1, <1>2 DEF Gentle, rorVars
  <1>3. CASE \E refused \in Refusals("delete", OfKind("Webhook")) :
                 Delete(OfKind("Webhook") \ refused)
    <2>1. PICK refused \in Refusals("delete", OfKind("Webhook")) :
                 Delete(OfKind("Webhook") \ refused)
      BY <1>3
    <2>2. OfKind("Webhook") \ refused \subseteq present /\ deleting \subseteq present
      BY DEF OfKind, TypeOK, PrecleanTypeOK, GuestTypeOK
    <2>3. \A o \in OfKind("Webhook") \ refused : Accepts(o)
      BY AcceptedOnly
    <2>4. /\ present' \subseteq present
          /\ deleting \cap present' \subseteq deleting'
          /\ \A o \in present \ present' : o[1] = "Webhook" \/ ~WritesRejected
          /\ \A w \in StaleHooks : <<"Webhook", w>> \notin deleting'
      BY <2>1, <2>2, <2>3, DeleteIsGentle
    <2>. QED BY <1>1, <2>4 DEF Gentle, rorVars
  <1>. QED BY <1>2, <1>3 DEF deleteAdmissionWebhooks

\* Waits and reads leave the guest alone.
LEMMA IdleGentle ==
    ASSUME \A w \in StaleHooks : <<"Webhook", w>> \notin deleting,
           UNCHANGED <<guestVars, registered>>, failed => failed', problems \subseteq problems'
    PROVE  Gentle
  BY DEF Gentle, guestVars

LEMMA WaitGentle ==
    ASSUME \A w \in StaleHooks : <<"Webhook", w>> \notin deleting,
           NEW at, NEW kind, NEW blocking, NEW next, WaitGone(at, kind, blocking, next)
    PROVE  Gentle
  <1>1. UNCHANGED <<guestVars, registered, problems>>
    BY DEF WaitGone, rorVars
  <1>2. failed => failed'
    BY DEF WaitGone, waitUntil
  <1>. QED BY <1>1, <1>2, IdleGentle

LEMMA VerifyGentle ==
    ASSUME \A w \in StaleHooks : <<"Webhook", w>> \notin deleting,
           NEW at, NEW kind, NEW next, Verify(at, kind, next)
    PROVE  Gentle
  <1>1. UNCHANGED <<guestVars, registered, failed>>
    BY DEF Verify, rorVars
  <1>2. problems \subseteq problems'
    BY DEF Verify
  <1>. QED BY <1>1, <1>2, IdleGentle

LEMMA Phase1Gentle ==
    ASSUME Quiescible, TypeOK, \A w \in StaleHooks : <<"Webhook", w>> \notin deleting, Phase1
    PROVE  Gentle
  <1>. DEFINE step == PrecleanStep(OnClean, "notClean")
  <1>1. step
    BY DEF Phase1, OnClean
  <1>2. CASE \/ deleteAdmissionWebhooks("sweep1", "stopArgo")
             \/ deleteAdmissionWebhooks("sweep2", "startROR")
    BY <1>2, SweepGentle
  <1>3. CASE stopArgoCD
    <2>1. UNCHANGED <<present, deleting, autosync, guestUp, rorVars, failed, problems>>
      BY <1>3 DEF stopArgoCD
    <2>2. (argo = "none" <=> argo' = "none") /\ (appset = "none" => appset' = "none")
      BY <1>3 DEF stopArgoCD
    <2>. QED BY <2>1, <2>2 DEF Gentle, rorVars
  <1>4. CASE waitArgoStopped \/ CollectROR
    <2>1. UNCHANGED <<guestVars, registered, problems>>
      BY <1>4 DEF waitArgoStopped, CollectROR, rorVars
    <2>2. failed => failed'
      BY <1>4 DEF waitArgoStopped, CollectROR, collectRORResult
    <2>. QED BY <2>1, <2>2, IdleGentle
  <1>5. CASE stripAutosync
    <2>1. UNCHANGED <<present, deleting, argo, appset, guestUp, rorVars, problems>>
      BY <1>5 DEF stripAutosync
    <2>2. /\ failed => failed'
          /\ autosync' = autosync \/ (~autosync' /\ ~WritesRejected)
      <3>1. CASE TRUE \in List("list") \cap Patch("delete") /\ autosync' = FALSE /\ failed' = failed
        BY <3>1 DEF Patch
      <3>2. CASE failed' = TRUE /\ autosync' = autosync
        BY <3>2
      <3>. QED BY <1>5, <3>1, <3>2 DEF stripAutosync
    <2>. QED BY <2>1, <2>2 DEF Gentle, rorVars
  <1>6. CASE StartROR
    <2>1. UNCHANGED <<guestVars, registered, problems>>
      BY <1>6 DEF StartROR, startRORPurge
    <2>2. failed => failed'
      BY <1>6 DEF StartROR, startRORPurge
    <2>. QED BY <2>1, <2>2, IdleGentle
  <1>7. CASE deleteIngresses \/ deleteGateways \/ deleteLBServices
    BY <1>7, WaitGentle, DeleteAllGentle DEF deleteIngresses, deleteGateways, deleteLBServices
  <1>8. CASE scaleDownPVCWorkloads
    <2>. DEFINE found == {<<"Workload", p[2]>> : p \in PodsWithPVC} \cap present
                taken == {w \in found : w[2] \in OperatorOwned}
                plain == found \ taken
    <2>1. UNCHANGED <<argo, appset, autosync, guestUp, rorVars, problems>>
      BY <1>8 DEF scaleDownPVCWorkloads
    <2>2. CASE failed' = TRUE /\ UNCHANGED <<present, deleting>>
      BY <2>1, <2>2 DEF Gentle, rorVars
    <2>3. CASE \E kept \in Refusals("scale", plain), refused \in Refusals("delete", taken) :
                 /\ present' = present \ (plain \ kept)
                 /\ deleting' = (deleting \ (plain \ kept)) \cup (taken \ refused)
                 /\ failed' = (failed \/ refused # {})
      <3>1. PICK kept \in Refusals("scale", plain), refused \in Refusals("delete", taken) :
                 /\ present' = present \ (plain \ kept)
                 /\ deleting' = (deleting \ (plain \ kept)) \cup (taken \ refused)
                 /\ failed' = (failed \/ refused # {})
        BY <2>3
      <3>2. \A o \in plain \ kept : Accepts(o)
        BY AcceptedOnly
      <3>3. \A o \in plain \cup taken : o[1] = "Workload"
        OBVIOUS
      <3>. HIDE DEF plain, taken
      <3>4. \A o \in plain \ kept : ~WritesRejected
        BY <3>2, <3>3 DEF Accepts
      <3>5. \A w \in StaleHooks : <<"Webhook", w>> \notin deleting'
        <4>1. ASSUME NEW w \in StaleHooks PROVE <<"Webhook", w>> \notin taken
          BY <3>3
        <4>. QED BY <3>1, <4>1
      <3>6. failed => failed'
        BY <3>1
      <3>. QED BY <2>1, <3>1, <3>4, <3>5, <3>6 DEF Gentle, rorVars
    <2>. QED BY <1>8, <2>2, <2>3 DEF scaleDownPVCWorkloads
  <1>9. CASE evictPVCMountingPods
    <2>1. CASE /\ waitUntil("waitEvicted", PodsWithPVC = {}, List("list"), "pvcs", FALSE, "force")
               /\ UNCHANGED <<guestVars, rorVars, problems>>
      <3>1. failed => failed'
        BY <2>1 DEF waitUntil
      <3>. QED BY <2>1, <3>1, IdleGentle DEF rorVars
    <2>. QED BY <1>9, <2>1, WaitGentle, DeleteAllGentle DEF evictPVCMountingPods
  <1>10. CASE forceEvict
    <2>1. UNCHANGED <<argo, appset, autosync, guestUp, rorVars, problems>>
      BY <1>10 DEF forceEvict
    <2>2. CASE failed' = TRUE /\ UNCHANGED <<present, deleting>>
      BY <2>1, <2>2 DEF Gentle, rorVars
    <2>3. CASE \E refused \in Refusals("delete", PodsWithPVC) :
                 /\ present' = present \ (PodsWithPVC \ refused)
                 /\ deleting' = deleting \ (PodsWithPVC \ refused)
                 /\ failed' = (failed \/ refused # {})
      <3>1. PICK refused \in Refusals("delete", PodsWithPVC) :
                 /\ present' = present \ (PodsWithPVC \ refused)
                 /\ deleting' = deleting \ (PodsWithPVC \ refused)
                 /\ failed' = (failed \/ refused # {})
        BY <2>3
      <3>2. \A o \in PodsWithPVC \ refused : Accepts(o) /\ o[1] = "Pod"
        BY AcceptedOnly DEF PodsWithPVC, OfKind
      <3>. QED BY <2>1, <3>1, <3>2 DEF Gentle, Accepts, rorVars
    <2>. QED BY <1>10, <2>2, <2>3 DEF forceEvict
  <1>11. CASE deletePVCsAndWaitVolumes
    <2>1. CASE releaseOrphanedVolumeAttachment
      <3>1. PICK refused \in Refusals("delete", Releasables), unread \in SUBSET Releasables :
                 /\ present' = present \ (Releasables \ (refused \cup unread))
                 /\ deleting' = deleting \ (Releasables \ (refused \cup unread))
        BY <2>1 DEF releaseOrphanedVolumeAttachment
      <3>2. UNCHANGED <<argo, appset, autosync, guestUp, rorVars, failed, problems>>
        BY <2>1 DEF releaseOrphanedVolumeAttachment
      <3>3. \A o \in Releasables \ refused : Accepts(o) /\ o[1] = "VA"
        BY AcceptedOnly DEF Releasables, OfKind
      <3>. QED BY <3>1, <3>2, <3>3 DEF Gentle, Accepts, rorVars
    <2>. QED BY <1>11, <2>1, WaitGentle, DeleteAllGentle DEF deletePVCsAndWaitVolumes
  <1>12. CASE verifyPreclean(OnClean, "notClean")
    BY <1>12, VerifyGentle DEF verifyPreclean
  <1>. QED
    BY <1>1, <1>2, <1>3, <1>4, <1>5, <1>6, <1>7, <1>8, <1>9, <1>10, <1>11, <1>12 DEF PrecleanStep

-----------------------------------------------------------------------------
(***************************************************************************)
(* Which step of phase 1 leads where.                                      *)
(***************************************************************************)
EvictPods == DeleteAll("evict", "Pod", IF PodsWithPVC = {} THEN "pvcs" ELSE "waitEvicted", "pvcs")

Networking == {"waitIngresses", "gateways", "waitGateways", "services", "waitServices", "scaleDown"}
VolumeWaits == {"pvcs", "waitPVCs", "waitVAs", "waitPVs", "collectROR"}

EarlyEdge ==
    \/ pc' \in {"stopArgo", "waitArgo", "stripAutosync"}
    \/ pc' = "sweep2" /\ (stopArgoCD \/ stripAutosync)
    \/ pc = "sweep2" /\ pc' = "startROR"
    \/ pc = "startROR" /\ pc' = "ingresses" /\ StartROR
    \/ /\ pc = "ingresses" /\ pc' \in {"waitIngresses", "gateways"}
       /\ ~failed' => guestUp
    \/ pc \in Networking /\ pc' \in Networking

VolumeEdge ==
    \/ pc = "scaleDown" /\ pc' = "evict" /\ scaleDownPVCWorkloads
    \/ pc = "evict" /\ pc' \in {"waitEvicted", "pvcs"} /\ EvictPods
    \/ pc \in {"waitEvicted", "force"} /\ pc' \in {"force", "waitForced"}
    \/ /\ pc \in {"waitEvicted", "waitForced"} /\ pc' = "pvcs"
       /\ ~failed' => PodsWithPVC = {}
    \/ pc \in VolumeWaits /\ pc' \in VolumeWaits
    \/ pc = "collectROR" /\ pc' = "verifyIngress" /\ CollectROR

VerdictEdge ==
    \/ pc = "verifyIngress" /\ pc' = "verifyPVC" /\ Verify("verifyIngress", "Ingress", "verifyPVC")
    \/ pc = "verifyPVC" /\ pc' = "verifyPV" /\ Verify("verifyPVC", "PVC", "verifyPV")
    \/ pc = "verifyPV" /\ pc' = "verifyVA" /\ Verify("verifyPV", "PV", "verifyVA")
    \/ pc = "verifyVA" /\ pc' = "verifyGateway" /\ Verify("verifyVA", "VA", "verifyGateway")
    \/ pc = "verifyGateway" /\ pc' = "verifyLB" /\ Verify("verifyGateway", "Gateway", "verifyLB")
    \/ /\ pc = "verifyLB" /\ pc' \in {"notClean", "deleteKC", "precleaned"}
       /\ Verify("verifyLB", "LB", IF failed \/ problems' # {} THEN "notClean" ELSE OnClean)

LEMMA Phase1Edges ==
    ASSUME TypeOK, Phase1
    PROVE  EarlyEdge \/ VolumeEdge \/ VerdictEdge
  <1>1. PrecleanStep(OnClean, "notClean")
    BY DEF Phase1, OnClean
  <1>2. CASE \/ deleteAdmissionWebhooks("sweep1", "stopArgo")
             \/ deleteAdmissionWebhooks("sweep2", "startROR")
    BY <1>2 DEF deleteAdmissionWebhooks, EarlyEdge
  <1>3. CASE stopArgoCD \/ waitArgoStopped \/ stripAutosync
    <2>1. pc' \in {"sweep2", "waitArgo", "stripAutosync"} /\ (waitArgoStopped => pc' = "stripAutosync")
      BY <1>3 DEF stopArgoCD, waitArgoStopped, stripAutosync
    <2>. QED BY <1>3, <2>1 DEF EarlyEdge
  <1>4. CASE StartROR
    BY <1>4 DEF StartROR, startRORPurge, EarlyEdge
  <1>5. CASE deleteIngresses \/ deleteGateways \/ deleteLBServices
    <2>1. CASE DeleteAll("ingresses", "Ingress", "waitIngresses", "gateways")
      BY <2>1 DEF DeleteAll, List, Answers, EarlyEdge
    <2>2. CASE \/ WaitGone("waitIngresses", "Ingress", TRUE, "gateways")
               \/ deleteGateways \/ deleteLBServices
      <3>1. pc \in Networking /\ pc' \in Networking
        BY <2>2 DEF deleteGateways, deleteLBServices, DeleteAll, WaitGone, waitUntil, Networking
      <3>. QED BY <3>1 DEF EarlyEdge
    <2>. QED BY <1>5, <2>1, <2>2 DEF deleteIngresses
  <1>6. CASE scaleDownPVCWorkloads
    BY <1>6 DEF scaleDownPVCWorkloads, VolumeEdge
  <1>7. CASE evictPVCMountingPods \/ forceEvict
    <2>1. CASE EvictPods
      BY <2>1 DEF EvictPods, DeleteAll, VolumeEdge
    <2>2. CASE waitUntil("waitEvicted", PodsWithPVC = {}, List("list"), "pvcs", FALSE, "force")
      BY <2>2 DEF waitUntil, VolumeEdge
    <2>3. CASE WaitGone("waitForced", "Pod", TRUE, "pvcs")
      BY <2>3 DEF WaitGone, waitUntil, PodsWithPVC, VolumeEdge
    <2>4. CASE forceEvict
      BY <2>4 DEF forceEvict, VolumeEdge
    <2>. QED BY <1>7, <2>1, <2>2, <2>3, <2>4 DEF evictPVCMountingPods, EvictPods
  <1>8. CASE deletePVCsAndWaitVolumes
    <2>1. pc \in VolumeWaits /\ pc' \in VolumeWaits
      <3>1. CASE releaseOrphanedVolumeAttachment
        BY <3>1 DEF releaseOrphanedVolumeAttachment, VolumeWaits
      <3>2. CASE DeleteAll("pvcs", "PVC", "waitPVCs", "collectROR")
        BY <3>2 DEF DeleteAll, VolumeWaits
      <3>. QED BY <1>8, <3>1, <3>2 DEF deletePVCsAndWaitVolumes, WaitGone, waitUntil, VolumeWaits
    <2>. QED BY <2>1 DEF VolumeEdge
  <1>9. CASE CollectROR
    BY <1>9 DEF CollectROR, collectRORResult, VolumeEdge
  <1>10. CASE verifyPreclean(OnClean, "notClean")
    BY <1>10 DEF verifyPreclean, Verify, OnClean, VerdictEdge
  <1>. QED
    BY <1>1, <1>2, <1>3, <1>4, <1>5, <1>6, <1>7, <1>8, <1>9, <1>10 DEF PrecleanStep

ReadLB == Verify("verifyLB", "LB", IF failed \/ problems' # {} THEN "notClean" ELSE OnClean)

\* The same, seen from where a step leads.
ComesFrom ==
    /\ pc' = "sweep2" => stopArgoCD \/ stripAutosync
    /\ pc' = "startROR" => pc = "sweep2"
    /\ pc' = "ingresses" => pc = "startROR" /\ StartROR
    /\ pc' \in FromIngresses => pc \in FromIngresses \/ StartROR
    /\ pc' \in FromWaitIngresses =>
         pc \in FromWaitIngresses \/ (pc = "ingresses" /\ (~failed' => guestUp))
    /\ pc' = "evict" => scaleDownPVCWorkloads
    /\ pc' \in FromWaitEvicted => pc \in FromWaitEvicted \/ (pc = "evict" /\ EvictPods)
    /\ pc' \in FromPVCs =>
         \/ pc \in FromPVCs
         \/ pc = "evict" /\ EvictPods /\ pc' = "pvcs"
         \/ ~failed' => PodsWithPVC = {}
    /\ pc' \in FromVerify => pc \in FromVerify \/ (pc = "collectROR" /\ CollectROR)
    /\ pc' \in {"deleteKC", "precleaned"} => pc = "verifyLB" /\ ReadLB

ReadsFrom ==
    /\ pc' \in FromVerifyPVC => pc \in FromVerifyPVC \/ Verify("verifyIngress", "Ingress", "verifyPVC")
    /\ pc' \in FromVerifyPV => pc \in FromVerifyPV \/ Verify("verifyPVC", "PVC", "verifyPV")
    /\ pc' \in FromVerifyVA => pc \in FromVerifyVA \/ Verify("verifyPV", "PV", "verifyVA")
    /\ pc' \in FromVerifyGateway =>
         pc \in FromVerifyGateway \/ Verify("verifyVA", "VA", "verifyGateway")
    /\ pc' \in FromVerifyLB => Verify("verifyGateway", "Gateway", "verifyLB")

LEMMA Phase1Comes ==
    ASSUME TypeOK, Phase1
    PROVE  ComesFrom /\ ReadsFrom
  <1>. USE DEF FromVerifyLB, FromVerifyGateway, FromVerifyVA, FromVerifyPV, FromVerifyPVC, FromVerify,
               FromPVCs, FromWaitEvicted, FromWaitIngresses, FromIngresses
  <1>1. CASE EarlyEdge
    <2>1. pc' \in {"stopArgo", "waitArgo", "stripAutosync", "sweep2", "startROR", "ingresses"}
                    \cup Networking
      BY <1>1 DEF EarlyEdge, Networking
    <2>2. ReadsFrom
      BY <2>1 DEF ReadsFrom, Networking
    <2>3. ComesFrom
      BY <1>1 DEF EarlyEdge, ComesFrom, Networking
    <2>. QED BY <2>2, <2>3
  <1>2. CASE VolumeEdge
    <2>1. ReadsFrom
      BY <1>2 DEF VolumeEdge, VolumeWaits, ReadsFrom
    <2>2. ComesFrom
      BY <1>2 DEF VolumeEdge, VolumeWaits, ComesFrom
    <2>. QED BY <2>1, <2>2
  <1>3. CASE VerdictEdge
    <2>1. ReadsFrom
      BY <1>3 DEF VerdictEdge, ReadsFrom
    <2>2. ComesFrom
      BY <1>3 DEF VerdictEdge, ComesFrom, ReadLB
    <2>. QED BY <2>1, <2>2
  <1>. QED BY <1>1, <1>2, <1>3, Phase1Edges

-----------------------------------------------------------------------------
(***************************************************************************)
(* Phase 1 keeps each part of the invariant.                               *)
(***************************************************************************)
LEMMA Phase1Argo ==
    ASSUME Quiescible, CleanInv, Phase1
    PROVE  ArgoQuiet'
  <1>1. Gentle /\ ComesFrom
    BY Phase1Gentle, Phase1Comes DEF CleanInv, WorkloadsQuiet
  <1>2. (argo' = "none" => ~autosync') /\ appset' = "none"
    BY <1>1 DEF Gentle, CleanInv, ArgoQuiet
  <1>3. ASSUME ~failed', pc' \in {"sweep2", "startROR", "ingresses"}
        PROVE  ~autosync' \/ ~guestUp'
    <2>1. ~failed /\ guestUp' = guestUp /\ (autosync' = autosync \/ ~autosync')
      BY <1>1, <1>3 DEF Gentle
    <2>2. CASE stopArgoCD
      <3>1. argo = "none" \/ FALSE \in List("argo") \/ pc' # "sweep2"
        BY <2>2 DEF stopArgoCD
      <3>2. FALSE \in List("argo") => ~guestUp
        BY DEF List, Answers, Quiescible
      <3>3. pc' = "sweep2"
        BY <1>3, <2>2 DEF stopArgoCD
      <3>. QED BY <2>1, <3>1, <3>2, <3>3 DEF CleanInv, ArgoQuiet
    <2>3. CASE stripAutosync
      BY <1>3, <2>3 DEF stripAutosync
    <2>4. CASE pc \in {"sweep2", "startROR"}
      BY <2>1, <2>4 DEF CleanInv, ArgoQuiet
    <2>. QED BY <1>1, <1>3, <2>2, <2>3, <2>4 DEF ComesFrom
  <1>4. ASSUME ~failed', pc' \in FromWaitIngresses
        PROVE  ~autosync'
    BY <1>1, <1>4 DEF Gentle, ComesFrom, CleanInv, ArgoQuiet
  <1>. QED BY <1>2, <1>3, <1>4 DEF ArgoQuiet

\* With writes rejected, a workload caught without its pod has ArgoCD to thank.
LEMMA GapsShrink ==
    ASSUME TypeOK, Gentle, WritesRejected
    PROVE  Gaps' \subseteq Gaps
  <1>1. \A v \in Volumes : <<"Pod", v>> \in present => <<"Pod", v>> \in present'
    BY DEF Gentle
  <1>2. \A o \in present' \ deleting' : o \in present \ deleting
    BY DEF Gentle
  <1>. QED BY <1>1, <1>2 DEF Gaps

LEMMA ScaledDown ==
    ASSUME Quiescible, TypeOK, scaleDownPVCWorkloads, ~failed'
    PROVE  LiveWorkloads' = {} \/ WritesRejected'
  <1>. DEFINE found == {<<"Workload", p[2]>> : p \in PodsWithPVC} \cap present
              taken == {w \in found : w[2] \in OperatorOwned}
              plain == found \ taken
  <1>1. PICK kept \in Refusals("scale", plain), refused \in Refusals("delete", taken) :
               /\ present' = present \ (plain \ kept)
               /\ deleting' = (deleting \ (plain \ kept)) \cup (taken \ refused)
               /\ failed' = (failed \/ refused # {})
    BY DEF scaleDownPVCWorkloads
  <1>2. refused = {}
    BY <1>1
  <1>3. guestUp /\ (Gaps = {} \/ WritesRejected)
    BY DEF scaleDownPVCWorkloads, List, Answers, Quiescible
  <1>4. CASE WritesRejected
    <2>1. PICK w \in StaleHooks : <<"Webhook", w>> \in present
      BY <1>4 DEF WritesRejected
    <2>2. <<"Webhook", w>> \notin plain
      OBVIOUS
    <2>. QED BY <1>1, <2>1, <2>2 DEF WritesRejected
  <1>5. CASE Gaps = {} /\ ~WritesRejected
    <2>1. kept = {}
      BY <1>1, <1>3, <1>5 DEF Refusals, Quiescible, Accepts
    <2>2. ASSUME NEW w \in present, w[1] = "Workload", w \notin deleting
          PROVE  w \in found
      <3>1. w = <<"Workload", w[2]>> /\ w[2] \in Volumes
        BY <2>2 DEF TypeOK, PrecleanTypeOK, GuestTypeOK, Objects
      <3>2. <<"Pod", w[2]>> \in PodsWithPVC
        BY <1>5, <2>2, <3>1 DEF Gaps, PodsWithPVC, OfKind
      <3>. QED BY <3>1, <3>2
    <2>3. ASSUME NEW w \in LiveWorkloads' PROVE FALSE
      <3>1. w \in present' /\ w \notin deleting' /\ w[1] = "Workload"
        BY <2>3 DEF LiveWorkloads, OfKind
      <3>2. w \in present /\ w \notin plain /\ w \notin taken
        BY <1>1, <1>2, <2>1, <3>1
      <3>3. w \notin deleting
        BY <1>1, <3>1, <3>2
      <3>. QED BY <2>2, <3>1, <3>2, <3>3
    <2>. QED BY <2>3
  <1>. QED BY <1>3, <1>4, <1>5

LEMMA Evicted ==
    ASSUME Quiescible, CleanInv, EvictPods, ~failed'
    PROVE  LiveWorkloads = {} /\ (pc' = "pvcs" => PodsWithPVC = {})
  <1>1. /\ pc = "evict" /\ guestUp /\ ~failed
        /\ pc' = IF PodsWithPVC = {} THEN "pvcs" ELSE "waitEvicted"
        /\ {} \in Refusals("delete", OfKind("Pod"))
    <2>1. PICK refused \in Refusals("delete", OfKind("Pod")) : failed' = (failed \/ refused # {})
      BY DEF EvictPods, DeleteAll
    <2>. QED BY <2>1 DEF EvictPods, DeleteAll, List, Answers
  <1>2. \A o \in OfKind("Pod") : Accepts(o)
    BY <1>1 DEF Refusals
  <1>3. ASSUME LiveWorkloads # {} PROVE FALSE
    <2>1. WritesRejected
      BY <1>1, <1>3 DEF CleanInv, WorkloadsQuiet
    <2>2. OfKind("Pod") = {}
      BY <1>2, <2>1 DEF Accepts, OfKind
    <2>3. PICK w \in LiveWorkloads : TRUE
      BY <1>3
    <2>4. w = <<"Workload", w[2]>> /\ w[2] \in Volumes /\ w \in present \ deleting
      BY <2>3 DEF LiveWorkloads, OfKind, CleanInv, TypeOK, PrecleanTypeOK, GuestTypeOK, Objects
    <2>5. w[2] \in Gaps
      BY <2>2, <2>4 DEF Gaps, OfKind
    <2>6. autosync
      BY <2>1, <2>5 DEF CleanInv, WorkloadsQuiet
    <2>7. pc \in FromWaitIngresses
      BY <1>1 DEF FromWaitIngresses
    <2>. QED BY <1>1, <2>6, <2>7 DEF CleanInv, ArgoQuiet
  <1>. QED BY <1>1, <1>3

LEMMA Phase1Workloads ==
    ASSUME Quiescible, CleanInv, Phase1
    PROVE  WorkloadsQuiet'
  <1>1. Gentle /\ ComesFrom /\ TypeOK
    BY Phase1Gentle, Phase1Comes DEF CleanInv, WorkloadsQuiet
  <1>2. /\ \A o \in present' \ deleting' : o \in present \ deleting
        /\ present' \subseteq present
    BY <1>1 DEF Gentle
  <1>3. LiveWorkloads' \subseteq LiveWorkloads /\ PodsWithPVC' \subseteq PodsWithPVC
    BY <1>2 DEF LiveWorkloads, PodsWithPVC, OfKind
  <1>4. WritesRejected' => WritesRejected
    BY <1>2 DEF WritesRejected
  <1>5. WritesRejected' /\ Gaps' # {} => autosync'
    BY <1>1, <1>4, GapsShrink DEF Gentle, CleanInv, WorkloadsQuiet
  <1>6. ~failed' /\ pc' = "evict" => LiveWorkloads' = {} \/ WritesRejected'
    BY <1>1, ScaledDown DEF ComesFrom
  <1>7. ~failed' => ~failed
    BY <1>1 DEF Gentle
  <1>8. ~failed' /\ pc' \in FromWaitEvicted => LiveWorkloads' = {}
    BY <1>1, <1>3, <1>7, Evicted DEF ComesFrom, CleanInv, WorkloadsQuiet
  <1>9. ~failed' /\ pc' \in FromPVCs => PodsWithPVC' = {}
    BY <1>1, <1>3, <1>7, Evicted DEF ComesFrom, CleanInv, WorkloadsQuiet
  <1>. QED BY <1>1, <1>5, <1>6, <1>8, <1>9 DEF WorkloadsQuiet, Gentle

LEMMA StartedRor ==
    ASSUME Quiescible, CleanInv, StartROR
    PROVE  /\ RorQuiet'
           /\ agents \in {"none", "gone"} => agents' = agents
  <1>1. /\ registered' = registered /\ agents \in {"none", "up", "away", "draining", "gone"}
        /\ purge' \in {purge, "polling"} /\ pc = "startROR" /\ pc' = "ingresses"
    BY DEF StartROR, startRORPurge, CleanInv, TypeOK, PrecleanTypeOK, RorTypeOK
  <1>2. ScaleDownAgents /\ guestUp /\ agents # "none" => agents' \in {"draining", "gone"}
    <2>1. ASSUME ScaleDownAgents, guestUp, agents # "none"
          PROVE  agents' \in {"draining", "gone"}
      <3>1. ~WritesRejected
        BY <2>1 DEF CleanInv, RorQuiet, Quiescible, WritesRejected
      <3>2. Answers("agents", guestUp) = {TRUE}
        BY <2>1 DEF Answers, Quiescible
      <3>. QED BY <1>1, <2>1, <3>1, <3>2 DEF ScaleDownAgents
    <2>. QED BY <2>1
  <1>3. /\ agents = "none" => agents' = "none"
        /\ agents \in {"draining", "gone"} => agents' = agents
        /\ agents # "none" => agents' # "none"
        /\ purge' # purge => agents' \in {"draining", "gone"}
        /\ ~failed' => agents = "none" \/ purge' = "polling"
    <2>1. CASE agents = "none"
      BY <2>1 DEF StartROR, startRORPurge
    <2>2. CASE agents # "none" /\ agents' = agents /\ purge' = purge /\ failed' = TRUE
      BY <2>2
    <2>3. CASE agents # "none" /\ ScaleDownAgents /\ guestUp
      <3>1. agents \in {"draining", "gone"} => agents' = agents
        BY <2>3 DEF ScaleDownAgents
      <3>2. ~failed' => purge' = "polling"
        BY <2>3 DEF StartROR, startRORPurge
      <3>. QED BY <1>1, <1>2, <2>3, <3>1, <3>2
    <2>4. CASE agents # "none"
      <3>1. \A answered \in Answers("ror", guestUp) : answered => guestUp
        BY DEF Answers
      <3>. QED BY <2>2, <2>3, <2>4, <3>1 DEF StartROR, startRORPurge
    <2>. QED BY <2>1, <2>4
  <1>4. pc' \notin FromVerify
    BY <1>1 DEF FromVerify, FromVerifyPVC, FromVerifyPV, FromVerifyVA, FromVerifyGateway, FromVerifyLB
  <1>. QED BY <1>1, <1>3, <1>4 DEF RorQuiet, CleanInv

LEMMA Phase1RorVars ==
    ASSUME Phase1
    PROVE  StartROR \/ UNCHANGED rorVars
  <1>1. PrecleanStep(OnClean, "notClean")
    BY DEF Phase1, OnClean
  <1>. QED
    BY <1>1 DEF PrecleanStep, deleteAdmissionWebhooks, stopArgoCD, waitArgoStopped, stripAutosync,
                deleteIngresses, deleteGateways, deleteLBServices, DeleteAll, WaitGone,
                scaleDownPVCWorkloads, evictPVCMountingPods, forceEvict,
                deletePVCsAndWaitVolumes, releaseOrphanedVolumeAttachment,
                CollectROR, verifyPreclean, Verify

LEMMA Phase1Ror ==
    ASSUME Quiescible, CleanInv, Phase1
    PROVE  RorQuiet' /\ (agents \in {"none", "gone"} => agents' = agents)
  <1>1. Gentle /\ ComesFrom
    BY Phase1Gentle, Phase1Comes DEF CleanInv, WorkloadsQuiet
  <1>2. CASE StartROR
    BY <1>2, StartedRor
  <1>3. CASE UNCHANGED rorVars /\ ~StartROR
    <2>1. UNCHANGED <<agents, registered, purge>>
      BY <1>3 DEF rorVars
    <2>2. ~failed' => ~failed
      BY <1>1 DEF Gentle
    <2>3. ~failed' /\ pc' \in FromIngresses => agents = "none" \/ purge # "off"
      BY <1>1, <1>3, <2>2 DEF ComesFrom, CleanInv, RorQuiet
    <2>4. ASSUME ~failed', pc = "collectROR", CollectROR
          PROVE  agents = "none" \/ purge = "ok"
      <3>1. pc \in FromIngresses
        BY <2>4 DEF FromIngresses, FromWaitIngresses, FromWaitEvicted, FromPVCs
      <3>2. purge = "off" \/ purge = "ok"
        BY <2>4 DEF CollectROR, collectRORResult
      <3>. QED BY <2>2, <2>4, <3>1, <3>2 DEF CleanInv, RorQuiet
    <2>5. ~failed' /\ pc' \in FromVerify => agents = "none" \/ purge = "ok"
      BY <1>1, <2>2, <2>4 DEF ComesFrom, CleanInv, RorQuiet
    <2>. QED BY <2>1, <2>3, <2>5 DEF CleanInv, RorQuiet
  <1>. QED BY <1>2, <1>3, Phase1RorVars

LEMMA AReadFindsNothing ==
    ASSUME NEW at, NEW kind, NEW next, Verify(at, kind, next), problems' = {}
    PROVE  OfKind(kind) = {} /\ failed' = failed /\ pc = at
  BY DEF Verify

LEMMA Phase1Reads ==
    ASSUME Quiescible, CleanInv, Phase1
    PROVE  ReadSoFar'
  <1>1. Gentle /\ ReadsFrom
    BY Phase1Gentle, Phase1Comes DEF CleanInv, WorkloadsQuiet
  <1>2. \A kind \in Kinds : OfKind(kind)' \subseteq OfKind(kind)
    BY <1>1 DEF Gentle, OfKind
  <1>3. SUFFICES ASSUME ~failed', problems' = {} PROVE ReadSoFar'
    BY DEF ReadSoFar
  <1>4. ~failed /\ problems = {}
    BY <1>1, <1>3 DEF Gentle
  <1>5. pc' \in FromVerifyPVC => OfKind("Ingress")' = {}
    BY <1>1, <1>2, <1>3, <1>4, AReadFindsNothing DEF ReadsFrom, CleanInv, ReadSoFar, Kinds
  <1>6. pc' \in FromVerifyPV => OfKind("PVC")' = {}
    BY <1>1, <1>2, <1>3, <1>4, AReadFindsNothing DEF ReadsFrom, CleanInv, ReadSoFar, Kinds
  <1>7. pc' \in FromVerifyVA => OfKind("PV")' = {}
    BY <1>1, <1>2, <1>3, <1>4, AReadFindsNothing DEF ReadsFrom, CleanInv, ReadSoFar, Kinds
  <1>8. pc' \in FromVerifyGateway => OfKind("VA")' = {}
    BY <1>1, <1>2, <1>3, <1>4, AReadFindsNothing DEF ReadsFrom, CleanInv, ReadSoFar, Kinds
  <1>9. pc' \in FromVerifyLB => OfKind("Gateway")' = {}
    BY <1>1, <1>2, <1>3, <1>4, AReadFindsNothing DEF ReadsFrom, Kinds
  <1>. QED BY <1>5, <1>6, <1>7, <1>8, <1>9 DEF ReadSoFar

LEMMA Phase1Quiet ==
    ASSUME Quiescible, CleanInv, Phase1, ReliesOnVerdict'
    PROVE  Quiet'
  <1>1. Gentle /\ ComesFrom /\ TypeOK
    BY Phase1Gentle, Phase1Comes DEF CleanInv, WorkloadsQuiet
  <1>2. UNCHANGED <<kc, waived, mode>>
    BY DEF Phase1, mgmtVars
  <1>3. agents \in {"none", "gone"} => agents' = agents
    BY Phase1Ror
  <1>4. ASSUME Quiet PROVE Quiet'
    <2>1. /\ present' \subseteq present
          /\ \A o \in present' \ deleting' : o \in present \ deleting
          /\ registered' = registered
          /\ autosync' = autosync \/ ~autosync'
      BY <1>1 DEF Gentle
    <2>2. Held' = {}
      BY <1>4, <2>1 DEF Quiet, Held
    <2>3. LiveWorkloads' = {} /\ PodsWithPVC' = {}
      BY <1>4, <2>1 DEF Quiet, LiveWorkloads, PodsWithPVC, OfKind
    <2>. QED BY <1>3, <1>4, <2>1, <2>2, <2>3 DEF Quiet
  <1>5. ASSUME pc' \in {"deleteKC", "precleaned"} PROVE Quiet
    <2>1. pc = "verifyLB" /\ ReadLB
      BY <1>1, <1>5 DEF ComesFrom
    <2>2. ~failed /\ problems' = {} /\ problems = {}
      <3>1. pc' = IF failed \/ problems' # {} THEN "notClean" ELSE OnClean
        BY <2>1 DEF ReadLB, Verify
      <3>. QED BY <1>1, <1>5, <3>1 DEF Gentle
    <2>3. OfKind("LB") = {}
      BY <2>1, <2>2, AReadFindsNothing DEF ReadLB
    <2>4. /\ pc \in FromVerify /\ pc \in FromPVCs /\ pc \in FromWaitEvicted
          /\ pc \in FromVerifyPVC /\ pc \in FromVerifyPV /\ pc \in FromVerifyVA
          /\ pc \in FromVerifyGateway /\ pc \in FromVerifyLB /\ pc \in FromWaitIngresses
      BY <2>1 DEF FromVerify, FromVerifyPVC, FromVerifyPV, FromVerifyVA, FromVerifyGateway,
                  FromVerifyLB, FromPVCs, FromWaitEvicted, FromWaitIngresses
    <2>5. /\ OfKind("Ingress") = {} /\ OfKind("PVC") = {} /\ OfKind("PV") = {}
          /\ OfKind("VA") = {} /\ OfKind("Gateway") = {}
      BY <2>2, <2>4 DEF CleanInv, ReadSoFar
    <2>6. External \cap present = {}
      BY <2>3, <2>5 DEF External, ExternalKinds, OfKind
    <2>7. ~registered /\ agents \in {"none", "gone"}
      BY <2>2, <2>4 DEF CleanInv, RorQuiet
    <2>8. LiveWorkloads = {} /\ PodsWithPVC = {} /\ ~autosync
      BY <2>2, <2>4 DEF CleanInv, WorkloadsQuiet, ArgoQuiet
    <2>. QED BY <2>6, <2>7, <2>8 DEF Quiet, Held
  <1>. QED BY <1>2, <1>4, <1>5 DEF ReliesOnVerdict, CleanInv

-----------------------------------------------------------------------------
(***************************************************************************)
(* The guest's own controllers.                                            *)
(***************************************************************************)

\* A controller that releases, or exits, disturbs nothing that is quiet.
Shrinks ==
    /\ present' \subseteq present
    /\ \A o \in present' \ deleting' : o \in present \ deleting
    /\ \A o \in present \ present' : Accepts(o)
    /\ \A w \in StaleHooks : <<"Webhook", w>> \in present => <<"Webhook", w>> \in present'
    /\ \A w \in StaleHooks : <<"Webhook", w>> \notin deleting'

GuestCalm == UNCHANGED <<autosync, guestUp>> /\ appset' = "none" /\ (argo' = "none" => argo = "none")

LEMMA GuestSteps ==
    ASSUME CleanInv, Guest
    PROVE  GuestCalm /\ (Shrinks \/ \E o \in Objects : Recreate(o))
  <1>1. appset = "none" /\ \A w \in StaleHooks : <<"Webhook", w>> \notin deleting
    BY DEF CleanInv, ArgoQuiet, WorkloadsQuiet
  <1>2. ASSUME NEW o \in Objects, Finish(o) PROVE GuestCalm /\ Shrinks
    BY <1>1, <1>2 DEF Finish, GuestCalm, Shrinks
  <1>3. ASSUME NEW o \in Objects, Cascade(o) PROVE GuestCalm /\ Shrinks
    <2>1. o[1] # "Webhook"
      BY <1>3 DEF Cascade, Orphaned
    <2>. QED BY <1>1, <1>3, <2>1 DEF Cascade, GuestCalm, Shrinks
  <1>4. ASSUME NEW o \in Objects, Recreate(o) PROVE GuestCalm
    BY <1>1, <1>4 DEF Recreate, GuestCalm
  <1>5. CASE ArgoExits \/ ArgoRestart \/ AppSetExits \/ AppSetRestores
    BY <1>1, <1>5 DEF ArgoExits, ArgoRestart, AppSetExits, AppSetRestores, GuestCalm, Shrinks
  <1>. QED BY <1>2, <1>3, <1>4, <1>5 DEF Guest, GuestNext

LEMMA GuestArgo ==
    ASSUME CleanInv, Guest
    PROVE  ArgoQuiet' /\ RorQuiet'
  <1>1. GuestCalm /\ UNCHANGED <<rorVars, runnerVars>>
    BY GuestSteps DEF Guest, ApartFromGuest
  <1>. QED BY <1>1 DEF GuestCalm, ArgoQuiet, RorQuiet, CleanInv, rorVars, runnerVars

LEMMA ShrinkingKeeps ==
    ASSUME CleanInv, Guest, GuestCalm, Shrinks
    PROVE  WorkloadsQuiet' /\ ReadSoFar' /\ (Quiet => Quiet')
  <1>1. UNCHANGED <<agents, registered, purge, pc, failed, problems>>
    BY DEF Guest, ApartFromGuest, rorVars, runnerVars
  <1>2. \A kind \in Kinds : OfKind(kind)' \subseteq OfKind(kind)
    BY DEF Shrinks, OfKind
  <1>3. LiveWorkloads' \subseteq LiveWorkloads /\ PodsWithPVC' \subseteq PodsWithPVC
    BY DEF Shrinks, LiveWorkloads, PodsWithPVC, OfKind
  <1>4. WritesRejected' = WritesRejected
    BY DEF Shrinks, WritesRejected
  <1>5. WritesRejected => Gaps' \subseteq Gaps
    <2>1. WritesRejected => \A v \in Volumes : <<"Pod", v>> \in present => <<"Pod", v>> \in present'
      BY DEF Shrinks, Accepts
    <2>. QED BY <2>1 DEF Shrinks, Gaps
  <1>6. WorkloadsQuiet'
    BY <1>1, <1>3, <1>4, <1>5 DEF WorkloadsQuiet, CleanInv, Shrinks, GuestCalm
  <1>7. ReadSoFar'
    BY <1>1, <1>2 DEF ReadSoFar, CleanInv, Kinds
  <1>8. Quiet => Quiet'
    BY <1>1, <1>3 DEF Quiet, Held, Shrinks, GuestCalm
  <1>. QED BY <1>6, <1>7, <1>8

LEMMA RecreatedKind ==
    ASSUME NEW o \in Objects, Recreate(o), ~autosync
    PROVE  /\ OwnerWants(o) /\ ~WritesRejected
           /\ o[1] \in {"LB", "Pod", "PVC", "PV", "VA"}
           /\ o = <<o[1], o[2]>>
  <1>1. o = <<o[1], o[2]>>
    BY DEF Objects
  <1>2. OwnerWants(o) /\ o[1] \in {"LB", "Pod", "PVC", "PV", "VA"}
    BY DEF Recreate, ArgoActive, OwnerWants
  <1>3. ~WritesRejected
    BY <1>2 DEF Recreate, Accepts
  <1>. QED BY <1>1, <1>2, <1>3

LEMMA RecreatingKeeps ==
    ASSUME CleanInv, Guest, GuestCalm, NEW o \in Objects, Recreate(o)
    PROVE  WorkloadsQuiet' /\ ReadSoFar' /\ (Quiet => Quiet')
  <1>1. UNCHANGED <<agents, registered, purge, pc, failed, problems>>
    BY DEF Guest, ApartFromGuest, rorVars, runnerVars
  <1>2. present' = present \cup {o} /\ deleting' = deleting /\ autosync' = autosync
    BY DEF Recreate
  <1>3. \A kind : kind # o[1] => OfKind(kind)' = OfKind(kind)
    BY <1>2 DEF OfKind
  <1>4. ~autosync => ~WritesRejected'
    <2>1. ASSUME ~autosync, NEW w \in StaleHooks, <<"Webhook", w>> \in present'
          PROVE  FALSE
      <3>1. o[1] # "Webhook" /\ ~WritesRejected
        BY <2>1, RecreatedKind
      <3>. QED BY <1>2, <2>1, <3>1 DEF WritesRejected
    <2>. QED BY <2>1 DEF WritesRejected
  <1>5. ~autosync => LiveWorkloads' = LiveWorkloads
    BY <1>2, <1>3, RecreatedKind DEF LiveWorkloads
  <1>6. ~autosync /\ LiveWorkloads = {} => o[1] \in {"LB", "PV", "VA"} /\ OwnerWants(o)
    <2>1. ASSUME ~autosync, LiveWorkloads = {}, o[1] \in {"Pod", "PVC"} PROVE FALSE
      <3>1. <<"Workload", o[2]>> \in present \ deleting
        BY <2>1, RecreatedKind DEF OwnerWants
      <3>. QED BY <2>1, <3>1 DEF LiveWorkloads, OfKind
    <2>. QED BY <2>1, RecreatedKind
  <1>7. ~autosync /\ LiveWorkloads = {} => PodsWithPVC' = PodsWithPVC
    BY <1>3, <1>6 DEF PodsWithPVC
  <1>8. WritesRejected => WritesRejected'
    BY <1>2 DEF WritesRejected
  <1>9. /\ pc \in FromPVCs => pc \in FromWaitEvicted
        /\ pc \in FromWaitEvicted \/ pc = "evict" => pc \in FromWaitIngresses
    BY DEF FromWaitEvicted, FromWaitIngresses
  <1>10. WorkloadsQuiet'
    <2>1. ~failed /\ pc \in FromWaitIngresses => ~autosync
      BY DEF CleanInv, ArgoQuiet
    <2>. QED BY <1>1, <1>2, <1>4, <1>5, <1>7, <1>8, <1>9, <2>1 DEF CleanInv, WorkloadsQuiet
  <1>11. ReadSoFar'
    <2>1. SUFFICES ASSUME ~failed, problems = {}, pc \in FromVerifyPVC PROVE ReadSoFar'
      BY <1>1 DEF ReadSoFar, FromVerifyPVC, FromVerifyPV, FromVerifyVA, FromVerifyGateway, FromVerifyLB
    <2>2. pc \in FromWaitIngresses /\ pc \in FromWaitEvicted /\ pc \in FromPVCs
      BY <2>1 DEF FromWaitIngresses, FromWaitEvicted, FromPVCs, FromVerify
    <2>3. ~autosync /\ LiveWorkloads = {} /\ PodsWithPVC = {}
      BY <2>1, <2>2 DEF CleanInv, ArgoQuiet, WorkloadsQuiet
    <2>4. OfKind("Ingress")' = OfKind("Ingress") /\ OfKind("PVC")' = OfKind("PVC")
          /\ OfKind("Gateway")' = OfKind("Gateway")
      BY <1>3, <1>6, <2>3
    <2>5. OfKind("VA")' = OfKind("VA")
      <3>1. ASSUME o[1] = "VA" PROVE FALSE
        <4>1. <<"Pod", o[2]>> \in present
          BY <1>6, <2>3, <3>1 DEF OwnerWants
        <4>. QED BY <2>3, <4>1 DEF PodsWithPVC, OfKind
      <3>. QED BY <1>3, <3>1
    <2>6. OfKind("PVC") = {} => OfKind("PV")' = OfKind("PV")
      <3>1. ASSUME o[1] = "PV", OfKind("PVC") = {} PROVE FALSE
        <4>1. <<"PVC", o[2]>> \in present
          BY <1>6, <2>3, <3>1 DEF OwnerWants
        <4>. QED BY <3>1, <4>1 DEF OfKind
      <3>. QED BY <1>3, <3>1
    <2>7. pc \in FromVerifyVA => pc \in FromVerifyPV
      BY DEF FromVerifyPV
    <2>. QED BY <1>1, <2>1, <2>4, <2>5, <2>6, <2>7 DEF CleanInv, ReadSoFar
  <1>12. ASSUME Quiet PROVE Quiet'
    <2>1. o[1] \in {"LB", "PV", "VA"} /\ OwnerWants(o)
      BY <1>6, <1>12 DEF Quiet
    <2>2. <<"Gateway", o[2]>> \notin present /\ <<"PVC", o[2]>> \notin present
      BY <1>12 DEF Quiet, Held, External, ExternalKinds, CleanInv, TypeOK, PrecleanTypeOK, GuestTypeOK
    <2>3. <<"Pod", o[2]>> \notin present
      BY <1>12 DEF Quiet, PodsWithPVC, OfKind
    <2>. QED BY <2>1, <2>2, <2>3 DEF OwnerWants
  <1>. QED BY <1>10, <1>11, <1>12

LEMMA GuestKeeps ==
    ASSUME CleanInv, Guest
    PROVE  CleanInv'
  <1>1. WorkloadsQuiet' /\ ReadSoFar' /\ (Quiet => Quiet')
    BY GuestSteps, ShrinkingKeeps, RecreatingKeeps
  <1>2. UNCHANGED <<runnerVars, mgmtVars, mode, waived>>
    BY DEF Guest, ApartFromGuest
  <1>3. VerdictStands' /\ (ReliesOnVerdict' = ReliesOnVerdict)
    BY <1>2 DEF CleanInv, VerdictStands, ReliesOnVerdict, runnerVars, mgmtVars
  <1>. QED BY <1>1, <1>3, GuestArgo, GuestStepType DEF CleanInv

-----------------------------------------------------------------------------
(***************************************************************************)
(* The goroutine, the operator, and the process itself.                    *)
(***************************************************************************)
LEMMA GoroutineKeeps ==
    ASSUME CleanInv, Goroutine
    PROVE  CleanInv'
  <1>1. UNCHANGED <<guestVars, runnerVars, mgmtVars, leftovers, mode, waived>>
    BY DEF Goroutine, ApartFromROR
  <1>2. UNCHANGED <<present, deleting, argo, appset, autosync, guestUp, pc, failed, problems,
                    kc, owned, mode, waived>>
    BY <1>1 DEF guestVars, runnerVars, mgmtVars
  <1>3. VerdictStands' /\ (ReliesOnVerdict' = ReliesOnVerdict)
    BY <1>2 DEF CleanInv, VerdictStands, ReliesOnVerdict
  <1>4. ArgoQuiet' /\ WorkloadsQuiet' /\ ReadSoFar'
    BY <1>2 DEF CleanInv, ArgoQuiet, WorkloadsQuiet, ReadSoFar, LiveWorkloads, PodsWithPVC, OfKind,
                WritesRejected, Gaps
  <1>5. RorQuiet' /\ (Quiet => Quiet')
    <2>1. agents \in {"none", "up", "away", "draining", "gone"}
      BY DEF CleanInv, TypeOK, PrecleanTypeOK, RorTypeOK
    <2>2. RorNext
      BY DEF Goroutine
    <2>3. Quiet' = (/\ External \cap present = {} /\ ~registered'
                    /\ ~autosync /\ LiveWorkloads = {} /\ PodsWithPVC = {}
                    /\ agents' \in {"none", "gone"})
      BY <1>2 DEF Quiet, Held, LiveWorkloads, PodsWithPVC, OfKind
    <2>4. Quiet => External \cap present = {} /\ ~registered
      BY DEF Quiet, Held
    <2>5. CASE AgentsRestart \/ AgentsExit \/ Heartbeat
      <3>1. /\ purge' = purge
            /\ agents \in {"none", "gone"} => agents' = agents /\ registered' = registered
            /\ agents \in {"draining", "gone"} => agents' \in {"draining", "gone"}
            /\ (agents' = "none") = (agents = "none")
            /\ agents = "none" => registered' = registered
        BY <2>1, <2>5 DEF AgentsRestart, AgentsExit, Heartbeat
      <3>2. RorQuiet'
        BY <1>2, <3>1 DEF CleanInv, RorQuiet
      <3>. QED BY <2>3, <2>4, <3>1, <3>2 DEF Quiet
    <2>6. CASE PollAgents \/ PluginPurges \/ PluginFails
      <3>1. /\ agents' = agents
            /\ registered' = registered \/ ~registered'
            /\ purge \in {"polling", "guarded", "forced"} /\ purge' \in {"forced", "guarded", "ok", "failed"}
            /\ purge' = "forced" => agents \in {"away", "gone"} /\ purge = "polling"
            /\ purge' = "ok" => ~registered' /\ (purge = "forced" \/ agents \notin {"up", "draining"})
        BY <2>6 DEF PollAgents, PluginPurges, PluginFails
      <3>2. RorQuiet'
        BY <1>2, <3>1 DEF CleanInv, RorQuiet
      <3>. QED BY <2>3, <2>4, <3>1, <3>2 DEF Quiet
    <2>. QED BY <2>2, <2>5, <2>6 DEF RorNext
  <1>. QED BY <1>3, <1>4, <1>5, GoroutineType DEF CleanInv

LEMMA OperatorKeeps ==
    ASSUME CleanInv, Operator
    PROVE  CleanInv'
  <1>1. /\ UNCHANGED <<present, deleting, argo, appset, autosync, rorVars, runnerVars, mode, waived>>
        /\ guestUp' => guestUp
    BY DEF Operator, ApartFromMgmt
  <1>2. UNCHANGED <<agents, registered, purge, pc, failed, problems>>
    BY <1>1 DEF rorVars, runnerVars
  <1>3. kc = "live" => kc' = kc
    BY OperatorType DEF CleanInv
  <1>4. VerdictStands' /\ (ReliesOnVerdict' => ReliesOnVerdict)
    BY <1>1, <1>2, <1>3 DEF CleanInv, VerdictStands, ReliesOnVerdict
  <1>5. ArgoQuiet' /\ WorkloadsQuiet' /\ RorQuiet' /\ ReadSoFar'
    BY <1>1, <1>2 DEF CleanInv, ArgoQuiet, WorkloadsQuiet, RorQuiet, ReadSoFar, LiveWorkloads,
                      PodsWithPVC, OfKind, WritesRejected, Gaps
  <1>6. Quiet => Quiet'
    BY <1>1, <1>2 DEF Quiet, Held, LiveWorkloads, PodsWithPVC, OfKind
  <1>. QED BY <1>4, <1>5, <1>6, OperatorType DEF CleanInv

\* Outside phase 1 little is claimed.
LEMMA OffPhase1 ==
    ASSUME CleanInv, UNCHANGED <<guestVars, agents, registered>>,
           pc' \notin PrecleanSteps \/ pc' = "sweep1", purge' \in {purge, "off"}
    PROVE  ArgoQuiet' /\ WorkloadsQuiet' /\ RorQuiet' /\ ReadSoFar' /\ (Quiet => Quiet')
  <1>1. UNCHANGED <<present, deleting, argo, appset, autosync, guestUp, agents, registered>>
    BY DEF guestVars
  <1>2. /\ FromVerifyPVC \subseteq FromVerify /\ FromVerify \subseteq FromPVCs
        /\ FromVerifyPV \subseteq FromVerifyPVC /\ FromVerifyVA \subseteq FromVerifyPV
        /\ FromVerifyGateway \subseteq FromVerifyVA /\ FromVerifyLB \subseteq FromVerifyGateway
    BY DEF FromPVCs, FromVerify, FromVerifyPVC, FromVerifyPV, FromVerifyVA, FromVerifyGateway
  <1>3. /\ FromPVCs \subseteq FromWaitEvicted /\ FromWaitEvicted \subseteq FromWaitIngresses
        /\ FromWaitIngresses \subseteq FromIngresses
    BY DEF FromIngresses, FromWaitIngresses, FromWaitEvicted
  <1>4. pc' \notin FromIngresses
    BY DEF PrecleanSteps, FromVerifyLB, FromVerifyGateway, FromVerifyVA, FromVerifyPV, FromVerifyPVC,
           FromVerify, FromPVCs, FromWaitEvicted, FromWaitIngresses, FromIngresses
  <1>5. pc' \notin {"sweep2", "startROR", "ingresses", "evict"}
    BY <1>4 DEF PrecleanSteps, FromIngresses, FromWaitIngresses
  <1>6. ArgoQuiet'
    BY <1>1, <1>3, <1>4, <1>5 DEF CleanInv, ArgoQuiet
  <1>7. WorkloadsQuiet'
    BY <1>1, <1>3, <1>4, <1>5 DEF CleanInv, WorkloadsQuiet, WritesRejected, Gaps
  <1>8. RorQuiet'
    BY <1>1, <1>2, <1>3, <1>4 DEF CleanInv, RorQuiet
  <1>9. ReadSoFar'
    BY <1>2, <1>3, <1>4 DEF ReadSoFar
  <1>10. Quiet => Quiet'
    BY <1>1 DEF Quiet, Held, LiveWorkloads, PodsWithPVC, OfKind
  <1>. QED BY <1>6, <1>7, <1>8, <1>9, <1>10

LEMMA ProcessKeeps ==
    ASSUME CleanInv, (\E m \in Modes : Start(m)) \/ Killed \/ Phase2
    PROVE  CleanInv'
  <1>1. TypeOK' /\ VerdictStands'
    BY NextType, NextVerdict DEF CleanInv, Next
  <1>2. CASE \E m \in Modes : Start(m)
    <2>1. PICK m \in Modes : Start(m)
      BY <1>2
    <2>2. /\ pc' \in {"sweep1", "deleteKC"} /\ purge' = "off"
          /\ pc' = "deleteKC" => mode' = "skipPreclean"
          /\ UNCHANGED <<guestVars, agents, registered, kc, waived>>
      BY <2>1 DEF Start, mgmtVars
    <2>3. ReliesOnVerdict' => ReliesOnVerdict
      BY <2>2 DEF ReliesOnVerdict
    <2>4. "deleteKC" \notin PrecleanSteps
      BY DEF PrecleanSteps
    <2>. QED BY <1>1, <2>2, <2>3, <2>4, OffPhase1 DEF CleanInv
  <1>3. CASE Killed
    <2>1. /\ pc' = "idle" /\ purge' = "off"
          /\ UNCHANGED <<guestVars, agents, registered, kc, waived>>
      BY <1>3 DEF Killed, mgmtVars
    <2>2. ReliesOnVerdict' => ReliesOnVerdict
      BY <2>1 DEF ReliesOnVerdict
    <2>3. "idle" \notin PrecleanSteps
      BY DEF PrecleanSteps
    <2>. QED BY <1>1, <2>1, <2>2, <2>3, OffPhase1 DEF CleanInv
  <1>4. CASE Phase2
    <2>1. /\ UNCHANGED <<guestVars, agents, registered, purge, mode>>
          /\ waived' = (waived \/ (mode = "skipPreclean" /\ kc = "live" /\ kc' # "live"))
      BY <1>4 DEF Phase2, rorVars
    <2>2. /\ pc \in TeardownSteps
          /\ pc' \in (TeardownSteps \ {"deleteKC"}) \cup {"deleted", "notClean"}
          /\ pc # "deleteKC" => kc' = kc
      BY <1>4, Phase2Moves DEF CleanInv
    <2>3. pc' \notin PrecleanSteps /\ pc' \notin {"deleteKC", "precleaned"}
      BY <2>2 DEF PrecleanSteps, TeardownSteps
    <2>4. mode \in {"delete", "skipPreclean"}
      BY <2>2 DEF CleanInv, VerdictStands, TypeOK, AllModes
    <2>5. ReliesOnVerdict' => ReliesOnVerdict
      BY <2>1, <2>2, <2>3, <2>4 DEF ReliesOnVerdict
    <2>. QED BY <1>1, <2>1, <2>3, <2>5, OffPhase1 DEF CleanInv
  <1>. QED BY <1>2, <1>3, <1>4

-----------------------------------------------------------------------------
(***************************************************************************)
(* The theorem.                                                            *)
(***************************************************************************)
LEMMA InitClean ==
    ASSUME Quiescible, Init
    PROVE  CleanInv
  <1>1. PICK gaps \in SUBSET (Volumes \ (Orphans \cup Bare)) :
               /\ gaps = {} \/ PodGaps
               /\ present = Objects \ (({"Workload", "Pod", "PVC", "PV"} \X Orphans)
                                         \cup ({"Workload"} \X Bare)
                                         \cup ({"Pod", "VA"} \X gaps))
    BY DEF Init, GuestInit
  <1>2. Gaps = {}
    <2>1. ASSUME NEW v \in Volumes, <<"Workload", v>> \in present PROVE <<"Pod", v>> \in present
      <3>1. v \notin Orphans /\ gaps = {}
        BY <1>1, <2>1 DEF Quiescible
      <3>2. <<"Pod", v>> \in Objects
        BY DEF Objects
      <3>. QED BY <1>1, <3>1, <3>2
    <2>. QED BY <2>1 DEF Gaps
  <1>3. \A w \in StaleHooks : <<"Webhook", w>> \notin deleting
    BY DEF Init, GuestInit
  <1>4. pc = "idle" /\ kc = "live" /\ purge = "off" /\ registered = InRor
        /\ agents = (IF InRor THEN "up" ELSE "none")
        /\ autosync = HasArgo /\ argo = (IF HasArgo THEN "running" ELSE "none") /\ appset = "none"
    BY DEF Init, GuestInit, RorInit, TeardownInit, Quiescible
  <1>5. pc \notin FromIngresses \cup FromWaitIngresses \cup FromWaitEvicted \cup FromPVCs
                    \cup FromVerify \cup FromVerifyPVC \cup FromVerifyPV \cup FromVerifyVA
                    \cup FromVerifyGateway \cup FromVerifyLB
    BY <1>4 DEF FromVerifyLB, FromVerifyGateway, FromVerifyVA, FromVerifyPV, FromVerifyPVC,
                FromVerify, FromPVCs, FromWaitEvicted, FromWaitIngresses, FromIngresses
  <1>6. ArgoQuiet /\ RorQuiet
    BY <1>4, <1>5, GuestAssumption, RorAssumption DEF ArgoQuiet, RorQuiet
  <1>7. WorkloadsQuiet /\ ReadSoFar /\ ~ReliesOnVerdict
    BY <1>2, <1>3, <1>4, <1>5 DEF WorkloadsQuiet, ReadSoFar, ReliesOnVerdict
  <1>. QED BY <1>6, <1>7, InitType, InitVerdict DEF CleanInv

LEMMA NextClean ==
    ASSUME Quiescible, CleanInv, [Next]_vars
    PROVE  CleanInv'
  <1>1. CASE Phase1
    <2>1. TypeOK' /\ VerdictStands'
      BY NextType, NextVerdict DEF CleanInv
    <2>. QED
      BY <1>1, <2>1, Phase1Argo, Phase1Workloads, Phase1Ror, Phase1Reads, Phase1Quiet DEF CleanInv
  <1>2. CASE Guest
    BY <1>2, GuestKeeps
  <1>3. CASE Goroutine
    BY <1>3, GoroutineKeeps
  <1>4. CASE Operator
    BY <1>4, OperatorKeeps
  <1>5. CASE UNCHANGED vars
    BY <1>5 DEF vars, CleanInv, TypeOK, PrecleanTypeOK, GuestTypeOK, RorTypeOK, TeardownTypeOK,
                VerdictStands, ArgoQuiet, WorkloadsQuiet, RorQuiet, ReadSoFar, Quiet, Held,
                LiveWorkloads, PodsWithPVC, OfKind, WritesRejected, Gaps, ReliesOnVerdict
  <1>. QED BY <1>1, <1>2, <1>3, <1>4, <1>5, ProcessKeeps DEF Next

\* No false clean verdict: from the last read of verifyPreclean on, and for
\* good, the guest holds nothing outside itself, in whatever order viti, its
\* goroutine, the guest's controllers and the operator take their steps and
\* however often the process is killed and started again.
THEOREM NoFalseClean == ASSUME Quiescible PROVE Spec => []CleanMeansReleased
  <1>1. Init => CleanInv
    BY InitClean
  <1>2. CleanInv /\ [Next]_vars => CleanInv'
    BY NextClean
  <1>3. CleanInv => CleanMeansReleased
    BY DEF CleanInv, Quiet, CleanMeansReleased
  <1>. QED BY <1>1, <1>2, <1>3, PTL DEF Spec

=============================================================================
