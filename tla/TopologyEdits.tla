--------------------------- MODULE TopologyEdits ---------------------------
(***************************************************************************)
(* What `viti kc scale` promises about a cluster's topology, without       *)
(* reads, retries or resource versions.  An operator approves one edit,    *)
(* which was computed from counts he was shown.  It takes effect in one    *)
(* step, at most once, only while those counts still hold, and changes     *)
(* nothing it does not name; a run that reports success has made it.       *)
(***************************************************************************)
EXTENDS Integers, Sequences

CONSTANTS
    Operators,   \* runs of the command
    Topologies   \* what others may make of the cluster

VARIABLES
    topology,    \* [cp, pools]: the cluster's spec.topology
    approved,    \* approved[p]: the edits p may still make, at most one
    outcome      \* outcome[p]: "open" while p runs, then what it reported

editVars == <<topology, approved, outcome>>

EditsInit ==
    /\ topology \in Topologies
    /\ approved = [p \in Operators |-> {}]
    /\ outcome = [p \in Operators |-> "open"]

-----------------------------------------------------------------------------
Named(pools, n) == {i \in DOMAIN pools : pools[i].name = n}

\* What change ch was computed from still holds; the control plane has index 0.
StillAsShown(t, ch) ==
    IF ch.index = 0 THEN t.cp = ch.current
    ELSE /\ ch.index \in Named(t.pools, ch.name)
         /\ \A i \in Named(t.pools, ch.name) : t.pools[i].replicas = ch.current

Desired(e, i, otherwise) ==
    IF \E ch \in e.changes : ch.index = i
    THEN (CHOOSE ch \in e.changes : ch.index = i).desired
    ELSE otherwise

\* t2 is t1 with the approved counts, everything else being the same.
Scaled(t1, t2, e) ==
    /\ \A ch \in e.changes : StillAsShown(t1, ch)
    /\ t2.cp = Desired(e, 0, t1.cp)
    /\ t2.pools = [i \in DOMAIN t1.pools |->
                     [t1.pools[i] EXCEPT !.replicas = Desired(e, i, @)]]

\* The approved pool is new, and comes last.
Added(t1, t2, e) ==
    /\ Named(t1.pools, e.pool.name) = {}
    /\ t2 = [t1 EXCEPT !.pools = Append(@, e.pool)]

\* One pool of the approved name is gone, and was not the last pool.
Removed(t1, t2, e) ==
    /\ Len(t1.pools) > 1
    /\ t2.cp = t1.cp
    /\ \E i \in Named(t1.pools, e.name) :
         t2.pools = SubSeq(t1.pools, 1, i - 1) \o SubSeq(t1.pools, i + 1, Len(t1.pools))

Takes(t1, t2, e) ==
    CASE e.kind = "scale"  -> Scaled(t1, t2, e)
      [] e.kind = "add"    -> Added(t1, t2, e)
      [] e.kind = "delete" -> Removed(t1, t2, e)

-----------------------------------------------------------------------------
Approve(p) ==
    /\ outcome[p] = "open" /\ approved[p] = {}
    /\ \E e \in approved'[p] : approved' = [approved EXCEPT ![p] = {e}]
    /\ UNCHANGED <<topology, outcome>>

\* The edit takes effect; the run may be killed before it can say so.
TakeEffect(p) ==
    /\ outcome[p] = "open"
    /\ \E e \in approved[p] : Takes(topology, topology', e)
    /\ approved' = [approved EXCEPT ![p] = {}]
    /\ outcome' = [outcome EXCEPT ![p] = "effective"]

\* Success is only reported of an edit that took effect; a run that failed,
\* or was killed, makes no edit afterwards.
Report(p) ==
    /\ \/ outcome[p] = "effective" /\ outcome' = [outcome EXCEPT ![p] = "succeeded"]
       \/ outcome[p] \in {"open", "effective"} /\ outcome' = [outcome EXCEPT ![p] = "closed"]
    /\ approved' = [approved EXCEPT ![p] = {}]
    /\ UNCHANGED topology

\* Autoscalers, kubectl, the cluster deleted and made anew.
OthersEdit ==
    /\ topology' \in Topologies
    /\ UNCHANGED <<approved, outcome>>

EditsNext ==
    \/ \E p \in Operators : Approve(p) \/ TakeEffect(p) \/ Report(p)
    \/ OthersEdit

EditsSpec == EditsInit /\ [][EditsNext]_editVars
=============================================================================
