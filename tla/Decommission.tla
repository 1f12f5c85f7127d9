---------------------------- MODULE Decommission ----------------------------
(***************************************************************************)
(* The decommission of a guest cluster: `viti kc delete`, with or without  *)
(* --skip-preclean, and `viti kc preclean`.  One process at a time runs    *)
(* Runner.Run or Runner.RunPreclean against the two clusters; it may be    *)
(* killed at any step (the commands install no signal handler, so the      *)
(* context of a run is never cancelled) and started again.                 *)
(***************************************************************************)
EXTENDS Preclean, Teardown

CONSTANT Modes   \* the commands operators use: a subset of AllModes

AllModes == {"delete", "preclean", "skipPreclean"}

ASSUME DecommissionAssumption == Modes \subseteq AllModes

VARIABLES
    mode,        \* the command of the current, or latest, process
    waived       \* history: a run with --skip-preclean deleted the cluster

vars == <<present, deleting, argo, appset, autosync, guestUp,
          agents, registered, purge, pc, failed, problems,
          kc, owned, leftovers, mode, waived>>

\* Between processes: none yet, killed, or how the latest one ended.
Ended == {"idle", "precleaned", "notClean", "deleted"}

TypeOK ==
    /\ PrecleanTypeOK /\ TeardownTypeOK
    /\ pc \in PrecleanSteps \cup TeardownSteps \cup Ended
    /\ mode \in AllModes
    /\ waived \in BOOLEAN

Init ==
    /\ GuestInit /\ RorInit /\ TeardownInit
    /\ pc = "idle" /\ failed = FALSE /\ problems = {}
    /\ mode \in Modes
    /\ waived = FALSE

-----------------------------------------------------------------------------
\* The command finds the KubernetesCluster, and builds a fresh Runner.  A
\* cluster that is gone is not found, and there is nothing to run.
Start(m) ==
    /\ pc \in Ended
    /\ kc # "absent"
    /\ mode' = m
    /\ pc' = IF m = "skipPreclean" THEN "deleteKC" ELSE "sweep1"
    /\ failed' = FALSE /\ problems' = {} /\ leftovers' = FALSE
    /\ purge' = "off"
    /\ UNCHANGED <<guestVars, agents, registered, mgmtVars, waived>>

\* The process is killed, and its goroutine with it.  The API calls it made
\* stand.
Killed ==
    /\ pc \notin Ended
    /\ pc' = "idle"
    /\ purge' = "off"
    /\ UNCHANGED <<guestVars, agents, registered, failed, problems, mgmtVars,
                   leftovers, mode, waived>>

\* Mutant of Phase1: `preclean` runs on into phase 2 as `delete` does.
Phase1RunsOn ==
    /\ PrecleanStep("deleteKC", "notClean")
    /\ UNCHANGED <<mgmtVars, leftovers, mode, waived>>

\* Phase 1; Run continues to phase 2 only from its clean verdict.
Phase1 ==
    /\ PrecleanStep(IF mode = "delete" THEN "deleteKC" ELSE "precleaned", "notClean")
    /\ UNCHANGED <<mgmtVars, leftovers, mode, waived>>

Phase2 ==
    /\ TeardownStep("deleted", "notClean")
    /\ waived' = (waived \/ (mode = "skipPreclean" /\ kc = "live" /\ kc' # "live"))
    /\ UNCHANGED <<guestVars, rorVars, problems, mode>>

\* What the goroutine that deregisters the cluster, and the world outside the
\* process, leave alone.
ApartFromROR   == UNCHANGED <<guestVars, runnerVars, mgmtVars, leftovers, mode, waived>>
ApartFromGuest == UNCHANGED <<rorVars, runnerVars, mgmtVars, leftovers, mode, waived>>

\* The guest lives on its machines.
ApartFromMgmt ==
    /\ guestUp' = (guestUp /\ "Machine" \in owned')
    /\ UNCHANGED <<present, deleting, argo, appset, autosync, rorVars, runnerVars,
                   leftovers, mode, waived>>

Goroutine == RorNext /\ ApartFromROR
Guest     == GuestNext /\ ApartFromGuest
Operator  == OperatorNext /\ ApartFromMgmt

Next ==
    \/ \E m \in Modes : Start(m)
    \/ Killed
    \/ Phase1 \/ Phase2
    \/ Goroutine \/ Guest \/ Operator

Spec == Init /\ [][Next]_vars

-----------------------------------------------------------------------------
(***************************************************************************)
(* Fairness.  Every wait of the process has a deadline and every call      *)
(* returns, so a process that is not killed keeps taking steps; so do the  *)
(* controllers that release.  Nothing obliges an operator to start a run,  *)
(* a process to be killed, or ArgoCD to put anything back.                 *)
(***************************************************************************)
Fairness ==
    /\ WF_vars(Phase1) /\ WF_vars(Phase2)
    /\ \A o \in Objects : WF_vars((Finish(o) \/ Cascade(o)) /\ ApartFromGuest)
    /\ WF_vars(ArgoExits /\ ApartFromGuest) /\ WF_vars(AppSetExits /\ ApartFromGuest)
    /\ WF_vars(AgentsExit /\ ApartFromROR)
    /\ WF_vars((PollAgents \/ PluginPurges \/ PluginFails) /\ ApartFromROR)
    /\ \A r \in Resources : WF_vars(Release(r) /\ ApartFromMgmt)
    /\ WF_vars(ReleaseKC /\ ApartFromMgmt)

\* One process, started once and not killed.
OneRun ==
    \/ pc = "idle" /\ \E m \in Modes : Start(m)
    \/ Phase1 \/ Phase2
    \/ Goroutine \/ Guest \/ Operator

FairSpec == Init /\ [][OneRun]_vars /\ Fairness

-----------------------------------------------------------------------------
(***************************************************************************)
(* Properties.                                                             *)
(***************************************************************************)

\* Somebody relies on a clean verdict of phase 1: it has just been given, or
\* the cluster was deleted on the strength of it.
ReliesOnVerdict ==
    \/ pc = "precleaned"
    \/ pc = "deleteKC" /\ mode = "delete"
    \/ kc # "live" /\ ~waived

Registration == <<"Registration", "ROR">>

\* What the cluster holds outside itself: addresses, records, volumes, and
\* its entry in the ROR registry.
Held == (External \cap present) \cup (IF registered THEN {Registration} ELSE {})

\* "once the VMs are gone, anything phase 1 missed is leaked" (README,
\* Decommissioning a cluster): from a clean verdict on, and for good, the
\* guest holds nothing outside itself, whatever its controllers still do.
CleanMeansReleased == ReliesOnVerdict => Held = {}

\* The run as a gate before an irreversible step: no step, kill or restart
\* destroys a cluster that holds something, except by --skip-preclean.
Gate == INSTANCE DecommissionGate WITH
            Holdable <- External \cup {Registration},
            held     <- Held,
            gateOpen <- ReliesOnVerdict,
            cluster  <- kc

ImplementsGate == Gate!GateSpec

\* "Phase 2 runs only if phase 1 is verifiably clean" (README): the cluster
\* is deleted by a run that skips phase 1, or by one in which no step of
\* phase 1 failed and no read of its verdict found or missed anything; and
\* never by `viti kc preclean`.
DeletedOnlyAfterVerdict ==
    [][kc = "live" /\ kc' # "live" =>
         \/ mode = "skipPreclean"
         \/ mode = "delete" /\ ~failed /\ problems = {}]_vars

\* Finalizers are "never touched", a stuck one is left intact (README and
\* guest.go): phase 1 itself takes nothing that holds external state out of
\* the API, but an attachment whose detach was asked for and whose volume is
\* gone, which nobody else could.
FinalizersKept ==
    [][Phase1 => \A o \in External \cap (present \ present') :
                    o[1] = "VA" /\ o \in deleting /\ <<"PV", o[2]>> \notin present]_vars

\* A run that reports the cluster fully deleted leaves nothing of it behind
\* that could run or answer: no object, no machine, no API address.
DeletedMeansDead ==
    pc = "deleted" => kc = "absent" /\ owned \cap {"Machine", "VIP"} = {}

\* ... and no network configuration or node address either ("until they are
\* verifiably gone", README).
DeletedMeansReleased == pc = "deleted" => kc = "absent" /\ owned = {}

\* Against controllers that all do their work, a full run whose waits are
\* long enough decommissions the cluster: no step waits for something a
\* later step would have set going.
HealthyRunSucceeds == (pc = "sweep1" /\ mode = "delete") ~> (pc = "deleted")

\* Whatever is broken, a run ends with a verdict: every wait is bounded.
RunEnds == (pc \notin Ended) ~> (pc \in Ended)
=============================================================================
