---------------------------- MODULE ScaleCluster ----------------------------
(***************************************************************************)
(* `viti kc scale`: replica counts (patchScale) and node pools             *)
(* (patchPoolEdit).  A run reads the cluster, resolves an edit against     *)
(* that, shows it, waits at a prompt, and then reads the cluster again,    *)
(* verifies and patches under the optimistic lock, up to MaxAttempts times *)
(* while others write.  Meanwhile the operators rewrite status, and        *)
(* autoscalers, kubectl and other runs edit the topology.                  *)
(***************************************************************************)
EXTENDS Integers, Sequences, FiniteSets, SequencesExt

CONSTANTS
    Operators,    \* runs of the command, each at one terminal
    Asks,         \* Asks[p]: what run p may be asked for, a subset of Actions
    PoolNames,    \* names of node pools
    Unnamed,      \* the empty name, which several pools may share
    Classes,      \* machine classes
    MaxReplicas,  \* bound: no pool has, or is asked to have, more nodes
    MaxControl,   \* bound: the same for the control plane
    MaxPools,     \* bound: nobody sets out to add a pool beyond it
    MaxTargets,   \* bound: how many targets one run scales
    MaxAttempts   \* retry.DefaultRetry: 5 in the source

ASSUME ScaleAssumption ==
    /\ MaxReplicas \in Nat \ {0} /\ MaxControl \in Nat \ {0} /\ MaxPools \in Nat \ {0}
    /\ MaxTargets \in Nat \ {0} /\ MaxAttempts \in Nat \ {0}

VARIABLES
    topology,   \* the cluster's spec.topology: [cp, pools]
    pc,         \* pc[p]: where run p is
    plan,       \* plan[p]: the edit it shows and, once approved, makes
    patch,      \* patch[p]: the merge patch of its current attempt
    fresh,      \* fresh[p]: nobody wrote the object since that read
    attempts    \* attempts[p]: attempts that met a conflict

vars == <<topology, pc, plan, patch, fresh, attempts>>

Pool == [name: PoolNames, replicas: 0..MaxReplicas, class: Classes]
Topology == [cp: 1..MaxControl, pools: Seq(Pool)]
Ended == {"succeeded", "nothing", "failed"}
Steps == {"idle", "prompt", "attempt", "patch", "answer"} \cup Ended

Named(pools, n) == {i \in DOMAIN pools : pools[i].name = n}
Names(pools) == {pools[i].name : i \in DOMAIN pools}

\* What the CRD's validation and the people who write it make sure of: control
\* planes for an etcd quorum, workers, and pools told apart by name.
Viable(t) ==
    /\ t.cp % 2 = 1
    /\ t.pools # <<>>
    /\ \A i, j \in DOMAIN t.pools :
         t.pools[i].name = t.pools[j].name => i = j \/ t.pools[i].name = Unnamed

ViableTopologies ==
    {t \in [cp: 1..MaxControl, pools: BoundedSeq(Pool, MaxPools)] : Viable(t)}

\* Before there is a plan, or a patch; and when the process is gone.
NoPlan == [kind |-> "none"]
NoPatch == [f \in {} |-> 0]

Init ==
    /\ topology \in ViableTopologies
    /\ pc = [p \in Operators |-> "idle"]
    /\ plan = [p \in Operators |-> NoPlan]
    /\ patch = [p \in Operators |-> NoPatch]
    /\ fresh = [p \in Operators |-> FALSE]
    /\ attempts = [p \in Operators |-> 0]

-----------------------------------------------------------------------------
(***************************************************************************)
(* Flags.                                                                  *)
(***************************************************************************)
Flags == {"controlplane", "nodepool", "add-nodepool", "delete-nodepool",
          "from-pool", "machineclass", "replicas", "name"}
ScaleFlags == {"controlplane", "nodepool"}
AddFlags == {"from-pool", "machineclass", "replicas", "name"}

\* One action per run; what only describes a new pool needs --add-nodepool;
\* without a terminal there is nobody to ask.
checkPoolEditFlags(given, tty) ==
    /\ ~ {"add-nodepool", "delete-nodepool"} \subseteq given
    /\ "add-nodepool" \notin given => given \cap AddFlags = {}
    /\ given \cap {"add-nodepool", "delete-nodepool"} # {} => given \cap ScaleFlags = {}
    /\ "add-nodepool" \in given /\ ~tty => {"machineclass", "replicas"} \subseteq given

\* What a run was asked to do; "ask" is the interactive picker.
Action(given, tty) ==
    IF ~ checkPoolEditFlags(given, tty) THEN "refuse"
    ELSE CASE "add-nodepool" \in given    -> "add"
           [] "delete-nodepool" \in given -> "delete"
           [] given \cap ScaleFlags # {}  -> "scale"
           [] OTHER                       -> IF tty THEN "ask" ELSE "refuse"

\* What the flags can ask for.
Actions == {Action(given, tty) : given \in SUBSET Flags, tty \in BOOLEAN} \ {"refuse"}

-----------------------------------------------------------------------------
(***************************************************************************)
(* Replica counts.                                                         *)
(***************************************************************************)
\* parseCount: 5, or +2 and -1.
Bound(i) == IF i = 0 THEN MaxControl ELSE MaxReplicas
Counts(i) == [delta: {FALSE}, value: 0..Bound(i)] \cup [delta: {TRUE}, value: -Bound(i)..Bound(i)]

resolve(c, current) == IF c.delta THEN current + c.value ELSE c.value

\* Targets of a cluster: the control plane, 0, and the indices of its pools.
Current(t, i) == IF i = 0 THEN t.cp ELSE t.pools[i].replicas

validate(i, desired) ==
    /\ desired \in 0..Bound(i)
    /\ i = 0 => desired % 2 = 1

Change(t, i, desired) ==
    [index |-> i, name |-> IF i = 0 THEN Unnamed ELSE t.pools[i].name,
     current |-> Current(t, i), desired |-> desired]

\* The targets a run can name: by flags any that have a name, and of pools
\* that share one the first; in the picker any one.
Targets(t, how) ==
    IF how = "ask" THEN {{i} : i \in 0..Len(t.pools)}
    ELSE {T \in SUBSET (0..Len(t.pools)) :
            /\ T # {} /\ Cardinality(T) <= MaxTargets
            /\ \A i \in T : i # 0 => t.pools[i].name # Unnamed}

\* newChange: what a count can resolve to, if it is valid.
NewCounts(t, i) ==
    {n \in {resolve(c, Current(t, i)) : c \in Counts(i)} : validate(i, n)}

\* A change for every target; targets already there are dropped.
resolveChanges(t, T) ==
    {{Change(t, i, want[i]) : i \in {j \in T : want[j] # Current(t, j)}} :
       want \in {w \in [T -> UNION {NewCounts(t, i) : i \in T}] : \A i \in T : w[i] \in NewCounts(t, i)}}

verifyTargetsUnchanged(t, changes) ==
    \A ch \in changes :
       IF ch.index = 0 THEN t.cp = ch.current
       ELSE /\ Named(t.pools, ch.name) # {}
            /\ \A i \in Named(t.pools, ch.name) : t.pools[i].replicas = ch.current

\* Pools are written by index, but only where the name is the one resolved.
Applicable(t, changes) ==
    \A ch \in changes : ch.index # 0 => ch.index \in Named(t.pools, ch.name)

Desired(changes, i, otherwise) ==
    IF \E ch \in changes : ch.index = i
    THEN (CHOOSE ch \in changes : ch.index = i).desired
    ELSE otherwise

applyChanges(t, changes) ==
    [cp    |-> Desired(changes, 0, t.cp),
     pools |-> [i \in DOMAIN t.pools |->
                  [t.pools[i] EXCEPT !.replicas = Desired(changes, i, @)]]]

-----------------------------------------------------------------------------
(***************************************************************************)
(* Pool edits.                                                             *)
(***************************************************************************)
\* resolveAddPool clones a pool under a name given, or generated, that no pool
\* of the cluster it was read from has, with at least one replica.
NewPools(t) ==
    [name: PoolNames \ (Names(t.pools) \cup {Unnamed}), replicas: 1..MaxReplicas, class: Classes]

\* checkPoolDelete: the pool exists and is not the last.
checkPoolDelete(pools, n) == Named(pools, n) # {} /\ Len(pools) > 1

\* A flag names a pool; the picker shows one, which has a name or not.
Deletable(t, how) ==
    IF Len(t.pools) < 2 THEN {}
    ELSE {i \in DOMAIN t.pools : how = "ask" \/ t.pools[i].name # Unnamed}

DeletePlan(t, i) == [kind |-> "delete", name |-> t.pools[i].name, shown |-> t.pools[i]]

\* Mutant of verifyPoolSetUnchanged: the pool is still there, and that is all.
verifyPoolSetExists(t, e) ==
    CASE e.kind = "add"    -> Named(t.pools, e.pool.name) = {}
      [] e.kind = "delete" -> Named(t.pools, e.name) # {}

verifyPoolSetUnchanged(t, e) ==
    CASE e.kind = "add"    -> Named(t.pools, e.pool.name) = {}
      [] e.kind = "delete" -> checkPoolDelete(t.pools, e.name)

\* The first pool of the name goes.
RemovePool(pools, n) ==
    RemoveAt(pools, CHOOSE i \in Named(pools, n) : \A j \in Named(pools, n) : i <= j)

applyPoolEdit(t, e) ==
    [t EXCEPT !.pools = IF e.kind = "add" THEN Append(@, e.pool)
                        ELSE RemovePool(@, e.name)]

-----------------------------------------------------------------------------
Actionable(e) == e.kind = "scale" => e.changes # {}

\* What a run may have to show, from the cluster as it reads it.
Plans(t, how) ==
    (IF how \in {"scale", "ask"}
     THEN {[kind |-> "scale", changes |-> ch] : ch \in UNION {resolveChanges(t, T) : T \in Targets(t, how)}}
     ELSE {})
    \cup (IF how \in {"add", "ask"} /\ t.pools # <<>> /\ Len(t.pools) < MaxPools
          THEN {[kind |-> "add", pool |-> n] : n \in NewPools(t)} ELSE {})
    \cup (IF how \in {"delete", "ask"} THEN {DeletePlan(t, i) : i \in Deletable(t, how)} ELSE {})

\* The run ends, and its memory with it.
Exit(p, s) ==
    /\ pc' = [pc EXCEPT ![p] = s]
    /\ plan' = [plan EXCEPT ![p] = NoPlan]
    /\ patch' = [patch EXCEPT ![p] = NoPatch]
    /\ fresh' = [fresh EXCEPT ![p] = FALSE]
    /\ attempts' = [attempts EXCEPT ![p] = 0]
    /\ UNCHANGED topology

\* Any write of the object makes every read of it stale.
Written == fresh' = [p \in Operators |-> FALSE]

\* Read the cluster, resolve what was asked for, and show it.
Resolve(p, how) ==
    /\ pc[p] = "idle"
    /\ how \in Asks[p] \cap Actions
    /\ \E e \in Plans(topology, how) :
         \/ /\ Actionable(e)
            /\ pc' = [pc EXCEPT ![p] = "prompt"]
            /\ plan' = [plan EXCEPT ![p] = e]
            /\ UNCHANGED <<topology, patch, fresh, attempts>>
         \/ ~Actionable(e) /\ Exit(p, "nothing")

\* The flags are refused, or what was asked for is not possible here.
Refuse(p) == pc[p] = "idle" /\ Exit(p, "failed")

\* --dry-run ends after the plan; so does an operator who declines.
Confirm(p) ==
    /\ pc[p] = "prompt"
    /\ \/ /\ pc' = [pc EXCEPT ![p] = "attempt"]
          /\ UNCHANGED <<topology, plan, patch, fresh, attempts>>
       \/ Exit(p, "nothing") \/ Exit(p, "failed")

\* The merge patch from one topology to another: the control plane's count if
\* that differs, the whole list of pools if that does.
MergeFrom(from, to) ==
    LET differ == {f \in {"cp", "pools"} : to[f] # from[f]}
    IN  [f \in differ |-> to[f]]

Merge(t, d) == [f \in {"cp", "pools"} |-> IF f \in DOMAIN d THEN d[f] ELSE t[f]]

Verified(t, e) ==
    IF e.kind = "scale"
    THEN verifyTargetsUnchanged(t, e.changes) /\ Applicable(t, e.changes)
    ELSE verifyPoolSetUnchanged(t, e)

Applied(t, e) ==
    IF e.kind = "scale" THEN applyChanges(t, e.changes) ELSE applyPoolEdit(t, e)

\* Read the cluster again.  What was shown must still hold; if not, or if the
\* read fails, the run ends: only conflicts are retried.
Attempt(p) ==
    /\ pc[p] = "attempt"
    /\ \/ /\ Verified(topology, plan[p])
          /\ patch' = [patch EXCEPT ![p] = MergeFrom(topology, Applied(topology, plan[p]))]
          /\ fresh' = [fresh EXCEPT ![p] = TRUE]
          /\ pc' = [pc EXCEPT ![p] = "patch"]
          /\ UNCHANGED <<topology, plan, attempts>>
       \/ Exit(p, "failed")

\* Mutant of PatchApplied: the merge patch is sent without the lock.
PatchUnlocked(p) ==
    /\ pc[p] = "patch"
    /\ topology' = Merge(topology, patch[p])
    /\ Written
    /\ pc' = [pc EXCEPT ![p] = "answer"]
    /\ plan' = [plan EXCEPT ![p] = NoPlan]
    /\ patch' = [patch EXCEPT ![p] = NoPatch]
    /\ attempts' = [attempts EXCEPT ![p] = 0]

PatchApplied(p) ==
    /\ pc[p] = "patch"
    /\ fresh[p]
    /\ topology' = Merge(topology, patch[p])
    /\ Written
    /\ pc' = [pc EXCEPT ![p] = "answer"]
    /\ plan' = [plan EXCEPT ![p] = NoPlan]
    /\ patch' = [patch EXCEPT ![p] = NoPatch]
    /\ attempts' = [attempts EXCEPT ![p] = 0]

\* Mutant of PatchConflicts: a conflict is always worth another attempt.
PatchConflictsAlways(p) ==
    /\ pc[p] = "patch"
    /\ ~fresh[p]
    /\ pc' = [pc EXCEPT ![p] = "attempt"]
    /\ attempts' = [attempts EXCEPT ![p] = @ + 1]
    /\ patch' = [patch EXCEPT ![p] = NoPatch]
    /\ UNCHANGED <<topology, plan, fresh>>

\* The resource version is no longer the one read: a conflict.
PatchConflicts(p) ==
    /\ pc[p] = "patch"
    /\ ~fresh[p]
    /\ IF attempts[p] + 1 < MaxAttempts
       THEN /\ pc' = [pc EXCEPT ![p] = "attempt"]
            /\ attempts' = [attempts EXCEPT ![p] = @ + 1]
            /\ patch' = [patch EXCEPT ![p] = NoPatch]
            /\ UNCHANGED <<topology, plan, fresh>>
       ELSE Exit(p, "failed")

\* The patch is refused, or does not reach the API server.
PatchFails(p) == pc[p] = "patch" /\ Exit(p, "failed")

\* The answer to an applied patch may be lost: a failure, and not retried.
Answer(p) == pc[p] = "answer" /\ (Exit(p, "succeeded") \/ Exit(p, "failed"))

\* A signal, at any time.
Killed(p) == pc[p] \notin Ended /\ Exit(p, "failed")

-----------------------------------------------------------------------------
\* The vitistack operators rewrite the object's status every few seconds.
StatusWrite ==
    /\ Written
    /\ UNCHANGED <<topology, pc, plan, patch, attempts>>

\* An autoscaler, kubectl, or the cluster deleted and made anew: anything.
OutsideEdit ==
    /\ topology' \in ViableTopologies \ {topology}
    /\ Written
    /\ UNCHANGED <<pc, plan, patch, attempts>>

Run(p) ==
    \/ \E how \in {"scale", "add", "delete", "ask"} : Resolve(p, how)
    \/ Refuse(p) \/ Confirm(p) \/ Attempt(p)
    \/ PatchApplied(p) \/ PatchConflicts(p) \/ PatchFails(p) \/ Answer(p)

Next ==
    \/ \E p \in Operators : Run(p) \/ Killed(p)
    \/ StatusWrite \/ OutsideEdit

Spec == Init /\ [][Next]_vars

-----------------------------------------------------------------------------
PlanOK(e) ==
    \/ e = NoPlan
    \/ /\ e.kind = "scale"
       /\ \A ch \in e.changes :
            /\ ch.index \in Nat /\ ch.name \in PoolNames \cup {Unnamed}
            /\ {ch.current, ch.desired} \subseteq 0..Bound(ch.index)
    \/ e.kind = "add" /\ e.pool \in Pool
    \/ e.kind = "delete" /\ e.name \in PoolNames /\ e.shown \in Pool

TypeOK ==
    /\ topology \in Topology
    /\ pc \in [Operators -> Steps]
    /\ \A p \in Operators : PlanOK(plan[p])
    /\ \A p \in Operators :
         /\ DOMAIN patch[p] \subseteq {"cp", "pools"}
         /\ Merge(topology, patch[p]) \in Topology
    /\ fresh \in [Operators -> BOOLEAN]
    /\ attempts \in [Operators -> 0..(MaxAttempts - 1)]

(***************************************************************************)
(* Whatever the runs do to one another and others do meanwhile, the        *)
(* cluster keeps an odd number of control planes, at least one pool of     *)
(* workers (two deletes that each saw two pools must not take both), and   *)
(* names that tell its pools apart (two additions of one name must not     *)
(* both land).                                                             *)
(***************************************************************************)
StaysViable == Viable(topology)

(***************************************************************************)
(* Each run's edit takes effect at one moment, on the counts it was        *)
(* approved for, once at most, leaving alone what others wrote; and        *)
(* success is reported of such an edit only.                               *)
(***************************************************************************)
approvedEdits ==
    [p \in Operators |-> IF pc[p] \in {"attempt", "patch"} THEN {plan[p]} ELSE {}]

outcomes ==
    [p \in Operators |->
       CASE pc[p] = "answer"    -> "effective"
         [] pc[p] = "succeeded" -> "succeeded"
         [] pc[p] \in Ended \ {"succeeded"} -> "closed"
         [] OTHER -> "open"]

Gate == INSTANCE TopologyEdits WITH
    Topologies <- ViableTopologies, approved <- approvedEdits, outcome <- outcomes

ImplementsEdits == Gate!EditsSpec
=============================================================================
