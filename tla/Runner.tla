------------------------------- MODULE Runner -------------------------------
(***************************************************************************)
(* The part of internal/decommission that both phases share: the Runner,   *)
(* its sticky "failed" flag, and the polling loop every wait goes through. *)
(* A Runner is sequential; pc names the next call it makes.                *)
(***************************************************************************)

CONSTANTS
    Flaky,         \* the call sites at which an API call may return an error
    DeadlinesHit   \* TRUE: a wait may reach its deadline before its condition

VARIABLES
    pc,            \* the step of decommission.Run the process is about to make
    failed         \* Runner.failed: some problem blocks a clean verdict

\* The call sites told apart by what the code does with their errors.
CallSites == { "list",     \* a List or Get of a deletion step, a wait or a verdict
               "delete",   \* a Delete of an object, or the autosync patch
               "argo",     \* the reads and scale patches of stopArgoCD
               "scale",    \* the reads and patches that scale a workload down
               "ror",      \* the reads of startRORPurge
               "agents",   \* the scale-down of the ROR agents
               "mgmt" }    \* every call to the management cluster

ASSUME RunnerAssumption ==
    /\ Flaky \subseteq CallSites
    /\ DeadlinesHit \in BOOLEAN

\* May a call at this site be answered?  TRUE: answered, FALSE: an error.
\* A server that is down answers nothing.
Answers(site, up) ==
    IF ~up THEN {FALSE} ELSE IF site \in Flaky THEN BOOLEAN ELSE {TRUE}

(***************************************************************************)
(* waitUntil polls a condition.  A poll that errs, or finds the condition  *)
(* false, changes nothing and is repeated (a stuttering step); a poll that *)
(* is answered and finds it true ends the wait; a poll that does neither   *)
(* once the deadline has passed ends it as a failure, which blocks the     *)
(* verdict only where the caller says so.                                  *)
(***************************************************************************)
waitUntil(at, done, answers, next, blocking, onTimeout) ==
    /\ pc = at
    /\ \/ /\ done
          /\ TRUE \in answers
          /\ pc' = next
          /\ failed' = failed
       \/ /\ DeadlinesHit
          /\ ~done \/ FALSE \in answers
          /\ pc' = onTimeout
          /\ failed' = (failed \/ blocking)
=============================================================================
