------------------------------ MODULE RORPurge ------------------------------
(***************************************************************************)
(* The deregistration of a cluster from the ROR registry, which preclean   *)
(* runs in a goroutine beside its other steps (internal/decommission/      *)
(* ror.go).  The registry, the agents that report to it from the guest and *)
(* the plugin that deletes the entry are outside the repository.           *)
(***************************************************************************)
EXTENDS Runner, GuestCluster

CONSTANTS
    InRor,       \* the cluster is registered: the nhn-ror namespace exists
    RorFaults    \* what the run finds wrong: subset of RorProblems

RorProblems == {"no secret", "no cluster id", "no plugin", "purge fails"}

ASSUME RorAssumption == InRor \in BOOLEAN /\ RorFaults \subseteq RorProblems

VARIABLES
    agents,      \* the ROR agents' pods ("none": the cluster is not in ROR)
    registered,  \* the registry holds an entry for the cluster
    purge        \* the goroutine of runRORPurge ("off": r.ror is nil)

rorVars == <<agents, registered, purge>>

RorTypeOK ==
    /\ agents \in {"none", "up", "away", "draining", "gone"}
    /\ registered \in BOOLEAN
    /\ purge \in {"off", "polling", "forced", "guarded", "ok", "failed"}

RorInit ==
    /\ agents = IF InRor THEN "up" ELSE "none"
    /\ registered = InRor
    /\ purge = "off"

-----------------------------------------------------------------------------
(***************************************************************************)
(* The agents.  "away" pods belong to a deployment that still wants them.  *)
(***************************************************************************)
AgentsRestart ==
    /\ guestUp
    /\ \/ agents = "up" /\ agents' = "away"
       \/ agents = "away" /\ agents' = "up"
    /\ UNCHANGED <<registered, purge>>

AgentsExit ==
    /\ guestUp /\ agents = "draining"
    /\ agents' = "gone"
    /\ UNCHANGED <<registered, purge>>

\* An agent that runs reports in, which registers the cluster.
Heartbeat ==
    /\ guestUp /\ agents \in {"up", "draining"} /\ ~registered
    /\ registered' = TRUE
    /\ UNCHANGED <<agents, purge>>

-----------------------------------------------------------------------------
(***************************************************************************)
(* startRORPurge.  Only an absent nhn-ror namespace means "not in ROR"; a  *)
(* failed read of it, a missing secret, identity or plugin blocks the      *)
(* verdict.  A scale-down of the agents that fails is only warned about.   *)
(***************************************************************************)
ScaleDownAgents ==
    \E answered \in Answers("agents", guestUp) :
        agents' = IF ~answered \/ WritesRejected THEN agents
                  ELSE CASE agents = "up" -> "draining"
                         [] agents = "away" -> "gone"
                         [] OTHER -> agents

startRORPurge(at, next) ==
    /\ pc = at
    /\ pc' = next
    /\ registered' = registered
    /\ \E answered \in Answers("ror", guestUp), broken \in {"nothing"} \cup (RorFaults \ {"purge fails"}) :
         \/ /\ answered /\ agents = "none"
            /\ UNCHANGED <<failed, agents, purge>>
         \/ /\ ~answered \/ (agents # "none" /\ broken = "no secret")
            /\ failed' = TRUE
            /\ UNCHANGED <<agents, purge>>
         \/ /\ answered /\ agents # "none" /\ broken \in {"no cluster id", "no plugin"}
            /\ failed' = TRUE
            /\ ScaleDownAgents
            /\ purge' = purge
         \/ /\ answered /\ agents # "none" /\ broken = "nothing"
            /\ failed' = failed
            /\ ScaleDownAgents
            /\ purge' = "polling"

-----------------------------------------------------------------------------
(***************************************************************************)
(* runRORPurge, concurrent with the steps that follow startRORPurge: up to *)
(* twelve polls for the agents' pods, then the plugin, with --force only   *)
(* when a poll found no pods.                                              *)
(***************************************************************************)
PollAgents ==
    /\ purge = "polling"
    /\ \/ /\ agents \in {"away", "gone"}
          /\ TRUE \in Answers("list", guestUp)
          /\ purge' = "forced"
       \/ /\ DeadlinesHit
          /\ agents \notin {"away", "gone"} \/ FALSE \in Answers("list", guestUp)
          /\ purge' = "guarded"
    /\ UNCHANGED <<agents, registered>>

\* The plugin deletes the entry; without --force it waits for the registry's
\* inactivity guard, which a running agent keeps from passing.
PluginPurges ==
    /\ purge \in {"forced", "guarded"}
    /\ purge = "forced" \/ agents \notin {"up", "draining"}
    /\ registered' = FALSE
    /\ purge' = "ok"
    /\ UNCHANGED agents

PluginFails ==
    /\ purge \in {"forced", "guarded"}
    /\ "purge fails" \in RorFaults
    /\ purge' = "failed"
    /\ UNCHANGED <<agents, registered>>

\* Mutant of collectRORResult: it waits for the goroutine however long.
collectRORResultUnbounded(at, next) ==
    /\ pc = at
    /\ \/ purge = "off" /\ failed' = failed
       \/ purge \in {"ok", "failed"} /\ failed' = (failed \/ purge = "failed")
    /\ pc' = next

\* collectRORResult folds the outcome into the run, or gives up after 25
\* minutes; a purge that did not succeed blocks the verdict.
collectRORResult(at, next) ==
    /\ pc = at
    /\ \/ purge = "off" /\ failed' = failed
       \/ purge \in {"ok", "failed"} /\ failed' = (failed \/ purge = "failed")
       \/ DeadlinesHit /\ purge \in {"polling", "forced", "guarded"} /\ failed' = TRUE
    /\ pc' = next

RorNext == AgentsRestart \/ AgentsExit \/ Heartbeat \/ PollAgents \/ PluginPurges \/ PluginFails

=============================================================================
