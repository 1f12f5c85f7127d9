------------------------ MODULE DecommissionGateProofs ------------------------
(***************************************************************************)
(* A decommission implements its gate: on the conditions under which a     *)
(* clean verdict is never false, every step of viti, its goroutine, the    *)
(* guest and the operator is a step of DecommissionGate or a stutter.      *)
(***************************************************************************)
EXTENDS CleanVerdictProofs

GateInv == CleanInv /\ (waived => kc # "live")

LEMMA HeldIsHoldable == ASSUME TypeOK PROVE Held \subseteq External \cup {Registration}
  BY DEF Held

\* What makes Held change, and what does not.
LEMMA HeldStays ==
    ASSUME UNCHANGED <<present, registered>>
    PROVE  Held' = Held
  BY DEF Held

\* Only phase 2 deletes the cluster, only the operator finishes that, and
\* neither touches the guest's objects or the registry.
LEMMA ClusterSteps ==
    ASSUME GateInv, Next
    PROVE  \/ UNCHANGED <<kc, waived>>
           \/ /\ Held' = Held /\ kc = "live" /\ kc' = "deleting"
              /\ \/ ReliesOnVerdict /\ ReliesOnVerdict' /\ waived' = waived
                 \/ ~ReliesOnVerdict /\ ~ReliesOnVerdict' /\ waived' = TRUE
           \/ /\ Held' = Held /\ kc = "deleting" /\ kc' = "absent"
              /\ ReliesOnVerdict' = ReliesOnVerdict /\ waived' = waived
  <1>1. kc \in {"live", "deleting", "absent"} /\ waived \in BOOLEAN /\ mode \in AllModes
    BY DEF GateInv, CleanInv, TypeOK, TeardownTypeOK
  <1>2. CASE Phase2
    <2>1. /\ waived' = (waived \/ (mode = "skipPreclean" /\ kc = "live" /\ kc' # "live"))
          /\ mode' = mode /\ UNCHANGED <<present, registered>>
      BY <1>2 DEF Phase2, guestVars, rorVars
    <2>2. /\ pc \in TeardownSteps
          /\ pc' \in (TeardownSteps \ {"deleteKC"}) \cup {"deleted", "notClean"}
          /\ pc # "deleteKC" => kc' = kc
      BY <1>2, Phase2Moves DEF GateInv, CleanInv
    <2>3. pc = "deleteKC" => kc' = kc \/ (kc = "live" /\ kc' = "deleting")
      <3>1. TeardownStep("deleted", "notClean")
        BY <1>2 DEF Phase2
      <3>2. pc = "deleteKC" => deleteKC("notClean")
        BY <3>1 DEF TeardownStep, WaitReleased, waitKCGone, waitUntil, checkIPAllocations,
                    verifyTeardown, Recheck
      <3>. QED BY <3>2 DEF deleteKC
    <2>4. mode \in {"delete", "skipPreclean"}
      BY <1>1, <2>2 DEF GateInv, CleanInv, VerdictStands, AllModes
    <2>5. pc' \notin {"deleteKC", "precleaned"} /\ pc # "precleaned"
      BY <2>2 DEF TeardownSteps
    <2>6. CASE kc' = kc
      BY <1>1, <2>1, <2>6
    <2>7. CASE pc = "deleteKC" /\ kc = "live" /\ kc' = "deleting"
      <3>1. ~waived
        BY <2>7 DEF GateInv
      <3>2. Held' = Held
        BY <2>1, HeldStays
      <3>3. CASE mode = "delete"
        BY <1>1, <2>1, <2>7, <3>1, <3>2, <3>3 DEF ReliesOnVerdict
      <3>4. CASE mode = "skipPreclean"
        BY <1>1, <2>1, <2>5, <2>7, <3>1, <3>2, <3>4 DEF ReliesOnVerdict
      <3>. QED BY <2>4, <3>3, <3>4
    <2>. QED BY <2>2, <2>3, <2>6, <2>7
  <1>3. CASE Operator
    <2>1. UNCHANGED <<present, registered, pc, mode, waived>>
      BY <1>3 DEF Operator, ApartFromMgmt, rorVars, runnerVars
    <2>2. kc' = kc \/ (kc = "deleting" /\ kc' = "absent")
      BY <1>3 DEF Operator, OperatorNext, Release, CreateLateMachine, ReleaseKC
    <2>. QED BY <2>1, <2>2, HeldStays DEF ReliesOnVerdict
  <1>4. CASE (\E m \in Modes : Start(m)) \/ Killed \/ Phase1 \/ Goroutine \/ Guest
    BY <1>4 DEF Start, Killed, Phase1, Goroutine, ApartFromROR, Guest, ApartFromGuest, mgmtVars
  <1>. QED BY <1>2, <1>3, <1>4 DEF Next

\* The gate opens and closes between two moves of the guest.
LEMMA GateMoves ==
    ASSUME GateInv, Next, UNCHANGED <<kc, waived>>, ReliesOnVerdict' # ReliesOnVerdict
    PROVE  Held' = Held
  <1>1. CASE (\E m \in Modes : Start(m)) \/ Killed \/ Phase2
    <2>1. UNCHANGED <<present, registered>>
      BY <1>1 DEF Start, Killed, Phase2, guestVars, rorVars
    <2>. QED BY <2>1, HeldStays
  <1>2. CASE Goroutine \/ Guest \/ Operator
    <2>1. UNCHANGED <<pc, mode>>
      BY <1>2 DEF Goroutine, ApartFromROR, Guest, ApartFromGuest, Operator, ApartFromMgmt, runnerVars
    <2>. QED BY <2>1 DEF ReliesOnVerdict
  <1>3. CASE Phase1
    <2>1. ComesFrom /\ (EarlyEdge \/ VolumeEdge \/ VerdictEdge)
      BY <1>3, Phase1Comes, Phase1Edges DEF GateInv, CleanInv
    <2>2. pc \notin {"deleteKC", "precleaned"}
      <3>1. PrecleanStep(OnClean, "notClean")
        BY <1>3 DEF Phase1, OnClean
      <3>. QED
        BY <3>1 DEF PrecleanStep, deleteAdmissionWebhooks, stopArgoCD, waitArgoStopped, stripAutosync,
                    StartROR, startRORPurge, deleteIngresses, deleteGateways, deleteLBServices,
                    DeleteAll, WaitGone, waitUntil, scaleDownPVCWorkloads, evictPVCMountingPods,
                    forceEvict, deletePVCsAndWaitVolumes, releaseOrphanedVolumeAttachment,
                    CollectROR, collectRORResult, verifyPreclean, Verify
    <2>3. pc' \in {"deleteKC", "precleaned"}
      BY <1>3, <2>2 DEF ReliesOnVerdict
    <2>4. UNCHANGED <<present, registered>>
      BY <2>1, <2>3 DEF ComesFrom, ReadLB, Verify, guestVars, rorVars
    <2>. QED BY <2>4, HeldStays
  <1>. QED BY <1>1, <1>2, <1>3 DEF Next

LEMMA StepImplements ==
    ASSUME GateInv, GateInv', [Next]_vars
    PROVE  [Gate!GateNext]_(Gate!gateVars)
  <1>. USE DEF Gate!GateNext, Gate!gateVars, Gate!Drift, Gate!Approve, Gate!Withdraw, Gate!Commit,
               Gate!CommitWaived, Gate!Vanish
  <1>1. CASE UNCHANGED vars
    BY <1>1 DEF vars, Held, ReliesOnVerdict
  <1>2. CASE Next
    <2>1. /\ ReliesOnVerdict => Held = {}
          /\ ReliesOnVerdict' => Held' = {}
      BY DEF GateInv, CleanInv, Quiet
    <2>2. Held' \subseteq External \cup {Registration}
      BY DEF Held
    <2>3. ReliesOnVerdict \in BOOLEAN /\ ReliesOnVerdict' \in BOOLEAN /\ waived \in BOOLEAN
      BY DEF ReliesOnVerdict, GateInv, CleanInv, TypeOK
    <2>4. CASE UNCHANGED <<kc, waived>> /\ ReliesOnVerdict' = ReliesOnVerdict
      BY <2>1, <2>2, <2>3, <2>4
    <2>5. CASE UNCHANGED <<kc, waived>> /\ ReliesOnVerdict' # ReliesOnVerdict
      <3>1. Held' = Held
        BY <1>2, <2>5, GateMoves
      <3>2. ReliesOnVerdict => kc = "live" \/ waived
        BY <2>5 DEF ReliesOnVerdict
      <3>. QED BY <2>1, <2>3, <2>5, <3>1, <3>2
    <2>6. CASE ~UNCHANGED <<kc, waived>>
      BY <1>2, <2>3, <2>6, ClusterSteps
    <2>. QED BY <2>4, <2>5, <2>6
  <1>. QED BY <1>1, <1>2

LEMMA NextGate == ASSUME Quiescible, GateInv, [Next]_vars PROVE GateInv'
  <1>1. CleanInv'
    BY NextClean DEF GateInv
  <1>2. waived' => kc' # "live"
    <2>1. CASE UNCHANGED vars
      BY <2>1 DEF vars, GateInv
    <2>2. CASE Next
      BY <2>2, ClusterSteps DEF GateInv
    <2>. QED BY <2>1, <2>2
  <1>. QED BY <1>1, <1>2 DEF GateInv

\* The detailed pipeline implements the gate: a cluster is destroyed only
\* after it was found to hold nothing outside itself, or by an operator who
\* waived that, and what was found stays true.
THEOREM GateRefinement == ASSUME Quiescible PROVE Spec => ImplementsGate
  <1>1. Init => GateInv
    BY InitClean DEF GateInv, Init
  <1>2. Init => Gate!GateInit
    <2>1. Init => ReliesOnVerdict = FALSE
      BY DEF Init, TeardownInit, ReliesOnVerdict
    <2>. QED BY <2>1, InitType, HeldIsHoldable DEF Init, TeardownInit, Gate!GateInit
  <1>3. GateInv /\ [Next]_vars => GateInv'
    BY NextGate
  <1>4. GateInv /\ GateInv' /\ [Next]_vars => [Gate!GateNext]_(Gate!gateVars)
    BY StepImplements
  <1>. QED BY <1>1, <1>2, <1>3, <1>4, PTL DEF Spec, ImplementsGate, Gate!GateSpec
===============================================================================
