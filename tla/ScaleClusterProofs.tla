------------------------- MODULE ScaleClusterProofs -------------------------
(***************************************************************************)
(* Proofs about ScaleCluster, for any operators, pools, bounds and number  *)
(* of attempts: its types, that the cluster stays viable, and that every   *)
(* run of `viti kc scale` implements TopologyEdits. All three rest on what *)
(* a run that still holds a fresh read knows: that the cluster is the one  *)
(* it verified its plan against, and that its patch is the difference the  *)
(* plan makes to it.                                                       *)
(***************************************************************************)
EXTENDS ScaleCluster, SequenceTheorems, WellFoundedInduction, TLAPS

\* A merge patch of what a topology may be.
PatchOK(d) ==
    /\ DOMAIN d \subseteq {"cp", "pools"}
    /\ "cp" \in DOMAIN d => d["cp"] \in 1..MaxControl
    /\ "pools" \in DOMAIN d => d["pools"] \in Seq(Pool)

\* A plan never asks for an even number of control planes.
OddControl(e) == e.kind = "scale" => \A ch \in e.changes : ch.index = 0 => ch.desired % 2 = 1

\* The types, each run's memory apart.
Typed ==
    /\ topology \in Topology
    /\ pc \in [Operators -> Steps]
    /\ DOMAIN plan = Operators
    /\ DOMAIN patch = Operators
    /\ fresh \in [Operators -> BOOLEAN]
    /\ attempts \in [Operators -> 0..(MaxAttempts - 1)]

\* Where a run holds a plan.
Bearing == {"prompt", "attempt", "patch"}

\* What a plan may be.
Kinds == {"scale", "add", "delete"}

\* What each run holds: a plan made of valid counts, and, while nobody wrote
\* the cluster since it was read, a patch that does what the plan says to a
\* cluster the plan was verified on.
Runs(p) ==
    /\ PlanOK(plan[p]) /\ OddControl(plan[p])
    /\ PatchOK(patch[p])
    /\ pc[p] \in Bearing => plan[p].kind \in Kinds
    /\ pc[p] = "patch" /\ fresh[p] =>
         /\ Verified(topology, plan[p])
         /\ patch[p] = MergeFrom(topology, Applied(topology, plan[p]))

\* The inductive invariant.
IInv == Typed /\ Viable(topology) /\ \A p \in Operators : Runs(p)
-----------------------------------------------------------------------------
\* What others make of a cluster is a topology, and viable.
LEMMA ViableOnes == \A t \in ViableTopologies : t \in Topology /\ Viable(t)
<1>1. BoundedSeq(Pool, MaxPools) \subseteq Seq(Pool)
  BY SeqDef, ScaleAssumption DEF BoundedSeq, SeqOf
<1>2. QED BY <1>1 DEF ViableTopologies, Topology

\* Merging a patch gives a topology.
LEMMA MergeTyped ==
  ASSUME NEW t \in Topology, NEW d, PatchOK(d)
  PROVE  Merge(t, d) \in Topology
BY DEF Merge, Topology, PatchOK

\* Merging the difference of two topologies into the first gives the second.
LEMMA MergeBack ==
  ASSUME NEW t \in Topology, NEW u \in Topology
  PROVE  /\ Merge(t, MergeFrom(t, u)) = u
         /\ PatchOK(MergeFrom(t, u))
<1> DEFINE differ == {f \in {"cp", "pools"} : u[f] # t[f]}
           d == [f \in differ |-> u[f]]
<1>1. MergeFrom(t, u) = d
  BY DEF MergeFrom
<1>2. /\ t.cp \in 1..MaxControl /\ u.cp \in 1..MaxControl
      /\ t.pools \in Seq(Pool) /\ u.pools \in Seq(Pool)
  BY DEF Topology
<1>3. PatchOK(d)
  BY <1>2 DEF PatchOK
<1>4. \A f \in {"cp", "pools"} : Merge(t, d)[f] = u[f]
  BY DEF Merge
<1>5. Merge(t, d) = u
  BY <1>4 DEF Merge, Topology
<1>6. QED BY <1>1, <1>3, <1>5

\* The order of the naturals as a relation: the library's own form of it is an
\* operator applied to an operator, which no prover takes.
Below == {ss \in Nat \X Nat : ss[1] < ss[2]}

\* A set of naturals that is not empty has a least element.
LEMMA Least ==
  ASSUME NEW T \in SUBSET Nat, T # {}
  PROVE  \E i \in T : \A j \in T : i <= j
<1>1. OpToRel(<, Nat) = Below
  BY Zenon DEF OpToRel, Below
<1>2. IsWellFoundedOn(Below, Nat)
  BY <1>1, NatLessThanWellFounded, Zenon
<1>3. PICK i \in T : \A j \in T : <<j, i>> \notin Below
  BY <1>2, WFMin
<1>4. \A j \in T : ~(j < i)
  BY <1>3 DEF Below
<1>5. \A j \in T : i <= j
  BY <1>4
<1>6. QED BY <1>5

\* The index RemovePool removes.
FirstNamed(pools, n) ==
    CHOOSE i \in Named(pools, n) : \A j \in Named(pools, n) : i <= j

\* If any pool has the name, the first one does.
LEMMA FirstIsNamed ==
  ASSUME NEW s \in Seq(Pool), NEW n, Named(s, n) # {}
  PROVE  FirstNamed(s, n) \in Named(s, n)
<1>1. Named(s, n) \in SUBSET Nat
  BY LenProperties DEF Named
<1>2. \E i \in Named(s, n) : \A j \in Named(s, n) : i <= j
  BY <1>1, Least
<1>3. QED BY <1>2 DEF FirstNamed

\* What is left of a list of pools when one is removed.
LEMMA RemovedPools ==
  ASSUME NEW s \in Seq(Pool), NEW i \in 1..Len(s)
  PROVE  /\ RemoveAt(s, i) \in Seq(Pool)
         /\ Len(RemoveAt(s, i)) = Len(s) - 1
         /\ \A j \in 1..(Len(s) - 1) : RemoveAt(s, i)[j] = s[IF j < i THEN j ELSE j + 1]
<1> DEFINE l == SubSeq(s, 1, i - 1)
           r == SubSeq(s, i + 1, Len(s))
<1>1. Len(s) \in Nat /\ \A k \in 1..Len(s) : s[k] \in Pool
  BY LenProperties, ElementOfSeq
<1>2. /\ l \in Seq(Pool) /\ Len(l) = i - 1
      /\ \A k \in 1..(i - 1) : l[k] = s[k]
  <2>1. \A k \in 1..(i - 1) : s[k] \in Pool
    BY <1>1
  <2>2. /\ l \in Seq(Pool)
        /\ Len(l) = IF 1 <= i - 1 THEN (i - 1) - 1 + 1 ELSE 0
        /\ \A k \in 1..((i - 1) - 1 + 1) : l[k] = s[1 + k - 1]
    BY <1>1, <2>1, SubSeqProperties
  <2>3. QED BY <1>1, <2>2
<1>3. /\ r \in Seq(Pool) /\ Len(r) = Len(s) - i
      /\ \A k \in 1..(Len(s) - i) : r[k] = s[i + k]
  <2>1. \A k \in (i + 1)..Len(s) : s[k] \in Pool
    BY <1>1
  <2>2. /\ r \in Seq(Pool)
        /\ Len(r) = IF i + 1 <= Len(s) THEN Len(s) - (i + 1) + 1 ELSE 0
        /\ \A k \in 1..(Len(s) - (i + 1) + 1) : r[k] = s[i + 1 + k - 1]
    BY <1>1, <2>1, SubSeqProperties
  <2>3. QED BY <1>1, <2>2
<1> HIDE DEF l, r
<1>4. /\ l \o r \in Seq(Pool)
      /\ Len(l \o r) = Len(l) + Len(r)
      /\ \A j \in 1..(Len(l) + Len(r)) : (l \o r)[j] = IF j <= Len(l) THEN l[j] ELSE r[j - Len(l)]
  BY <1>2, <1>3, ConcatProperties
<1>5. RemoveAt(s, i) = l \o r
  BY DEF RemoveAt, l, r
<1>6. \A j \in 1..(Len(s) - 1) : (l \o r)[j] = s[IF j < i THEN j ELSE j + 1]
  <2> TAKE j \in 1..(Len(s) - 1)
  <2>1. CASE j < i
    BY <2>1, <1>1, <1>2, <1>3, <1>4
  <2>2. CASE ~(j < i)
    <3>1. (l \o r)[j] = r[j - Len(l)]
      BY <2>2, <1>1, <1>2, <1>3, <1>4
    <3>2. j - Len(l) \in 1..(Len(s) - i) /\ i + (j - Len(l)) = j + 1
      BY <2>2, <1>1, <1>2
    <3>3. QED BY <2>2, <3>1, <3>2, <1>3
  <2>3. QED BY <2>1, <2>2
<1>7. Len(l \o r) = Len(s) - 1
  BY <1>1, <1>2, <1>3, <1>4
<1>8. QED BY <1>4, <1>5, <1>6, <1>7, Zenon
-----------------------------------------------------------------------------
\* The change resolved for a target and a valid count is well formed.
LEMMA ChangeOK ==
  ASSUME NEW t \in Topology, NEW i \in 0..Len(t.pools), NEW n, validate(i, n)
  PROVE  LET ch == Change(t, i, n)
         IN  /\ ch.index \in Nat /\ ch.name \in PoolNames \cup {Unnamed}
             /\ {ch.current, ch.desired} \subseteq 0..Bound(ch.index)
             /\ ch.index = 0 => ch.desired % 2 = 1
<1>1. /\ t.cp \in 1..MaxControl /\ Len(t.pools) \in Nat
      /\ \A k \in 1..Len(t.pools) : t.pools[k] \in Pool
  BY LenProperties, ElementOfSeq DEF Topology
<1>2. CASE i = 0
  BY <1>1, <1>2, ScaleAssumption DEF Change, Current, Bound, validate
<1>3. CASE i # 0
  <2>1. t.pools[i] \in Pool
    BY <1>1, <1>3
  <2>2. QED BY <1>1, <1>3, <2>1 DEF Change, Current, Bound, validate, Pool
<1>4. QED BY <1>2, <1>3

\* Every plan a run may show is well formed, and odd for the control plane.
LEMMA PlansOK ==
  ASSUME NEW t \in Topology, NEW how, NEW e \in Plans(t, how)
  PROVE  PlanOK(e) /\ OddControl(e) /\ e.kind \in Kinds
<1>1. ASSUME NEW T \in Targets(t, how), NEW changes \in resolveChanges(t, T),
             e = [kind |-> "scale", changes |-> changes]
      PROVE  PlanOK(e) /\ OddControl(e) /\ e.kind \in Kinds
  <2>1. T \subseteq 0..Len(t.pools)
    BY <1>1 DEF Targets
  <2>2. PICK want : /\ \A i \in T : want[i] \in NewCounts(t, i)
                    /\ changes = {Change(t, i, want[i]) : i \in {j \in T : want[j] # Current(t, j)}}
    BY <1>1 DEF resolveChanges
  <2>3. ASSUME NEW ch \in changes
        PROVE  /\ ch.index \in Nat /\ ch.name \in PoolNames \cup {Unnamed}
               /\ {ch.current, ch.desired} \subseteq 0..Bound(ch.index)
               /\ ch.index = 0 => ch.desired % 2 = 1
    <3>1. PICK i \in T : ch = Change(t, i, want[i])
      BY <2>2
    <3>2. validate(i, want[i])
      BY <2>2 DEF NewCounts
    <3>3. QED BY <2>1, <3>1, <3>2, ChangeOK
  <2>4. QED BY <1>1, <2>3 DEF PlanOK, OddControl, Kinds
<1>2. ASSUME NEW n \in NewPools(t), e = [kind |-> "add", pool |-> n]
      PROVE  PlanOK(e) /\ OddControl(e) /\ e.kind \in Kinds
  BY <1>2 DEF NewPools, PlanOK, OddControl, Kinds, Pool
<1>3. ASSUME NEW i \in Deletable(t, how), e = DeletePlan(t, i)
      PROVE  PlanOK(e) /\ OddControl(e) /\ e.kind \in Kinds
  <2>1. t.pools[i] \in Pool
    BY LenProperties, ElementOfSeq DEF Deletable, Topology
  <2>2. QED BY <1>3, <2>1 DEF DeletePlan, PlanOK, OddControl, Kinds, Pool
<1>4. QED BY <1>1, <1>2, <1>3 DEF Plans

\* A count is the one asked for, or the one it was.
LEMMA DesiredIs ==
  ASSUME NEW changes, NEW i, NEW other
  PROVE  \/ Desired(changes, i, other) = other
         \/ \E ch \in changes : ch.index = i /\ Desired(changes, i, other) = ch.desired
BY DEF Desired

\* Valid counts keep a viable topology viable.
LEMMA ScaledOK ==
  ASSUME NEW t \in Topology, Viable(t), NEW changes,
         \A ch \in changes : {ch.current, ch.desired} \subseteq 0..Bound(ch.index),
         \A ch \in changes : ch.index = 0 => ch.desired % 2 = 1
  PROVE  applyChanges(t, changes) \in Topology /\ Viable(applyChanges(t, changes))
<1> DEFINE s == t.pools
           count(i) == Desired(changes, i, s[i].replicas)
           pools == [i \in DOMAIN s |-> [s[i] EXCEPT !.replicas = count(i)]]
           cp == Desired(changes, 0, t.cp)
<1>1. applyChanges(t, changes) = [cp |-> cp, pools |-> pools]
  BY DEF applyChanges
<1>2. /\ s \in Seq(Pool) /\ Len(s) \in Nat /\ DOMAIN s = 1..Len(s)
      /\ \A i \in 1..Len(s) : s[i] \in Pool
  BY LenProperties, ElementOfSeq DEF Topology
<1>3. cp \in 1..MaxControl /\ cp % 2 = 1
  <2>1. t.cp \in 1..MaxControl /\ t.cp % 2 = 1
    BY DEF Topology, Viable
  <2>2. CASE cp = t.cp
    BY <2>1, <2>2
  <2>3. CASE \E ch \in changes : ch.index = 0 /\ cp = ch.desired
    <3>1. PICK ch \in changes : ch.index = 0 /\ cp = ch.desired
      BY <2>3
    <3>2. cp \in 0..MaxControl /\ cp % 2 = 1
      BY <3>1 DEF Bound
    <3>3. QED BY <3>2, ScaleAssumption
  <2>4. QED BY <2>2, <2>3, DesiredIs
<1>4. \A i \in 1..Len(s) : count(i) \in 0..MaxReplicas
  <2> TAKE i \in 1..Len(s)
  <2>1. s[i].replicas \in 0..MaxReplicas
    BY <1>2 DEF Pool
  <2>2. CASE count(i) = s[i].replicas
    BY <2>1, <2>2
  <2>3. CASE \E ch \in changes : ch.index = i /\ count(i) = ch.desired
    <3>1. PICK ch \in changes : ch.index = i /\ count(i) = ch.desired
      BY <2>3
    <3>2. i # 0
      BY <1>2
    <3>3. QED BY <3>1, <3>2 DEF Bound
  <2>4. QED BY <2>2, <2>3, DesiredIs
<1> HIDE DEF count, cp
<1>5. \A i \in 1..Len(s) : pools[i] \in Pool /\ pools[i].name = s[i].name
  BY <1>2, <1>4 DEF Pool
<1>6. pools \in [1..Len(s) -> Pool]
  BY <1>2, <1>5
<1> HIDE DEF pools
<1>7. pools \in Seq(Pool) /\ DOMAIN pools = 1..Len(s)
  BY <1>2, <1>6, SeqDef
<1>8. pools # <<>>
  <2>1. Len(s) # 0
    BY <1>2, EmptySeq DEF Viable
  <2>2. QED BY <1>2, <1>7, <2>1
<1>9. \A i, j \in DOMAIN pools :
        pools[i].name = pools[j].name => (i = j \/ pools[i].name = Unnamed)
  BY <1>2, <1>5, <1>7 DEF Viable
<1>10. QED BY <1>1, <1>3, <1>9, <1>7, <1>8 DEF Topology, Viable

\* So does a pool whose name no pool has.
LEMMA AddedOK ==
  ASSUME NEW t \in Topology, Viable(t), NEW pool \in Pool, Named(t.pools, pool.name) = {}
  PROVE  LET u == [t EXCEPT !.pools = Append(@, pool)]
         IN  u \in Topology /\ Viable(u)
<1> DEFINE s == t.pools
           pools == Append(s, pool)
           u == [t EXCEPT !.pools = pools]
<1>1. /\ s \in Seq(Pool) /\ Len(s) \in Nat /\ DOMAIN s = 1..Len(s)
  BY LenProperties DEF Topology
<1>2. /\ pools \in Seq(Pool) /\ pools # <<>> /\ DOMAIN pools = 1..(Len(s) + 1)
      /\ \A i \in 1..Len(s) : pools[i] = s[i]
      /\ pools[Len(s) + 1] = pool
  BY <1>1, AppendProperties, LenProperties
<1> HIDE DEF pools
<1>3. u \in Topology /\ u.cp = t.cp /\ u.pools = pools
  BY <1>2 DEF Topology
<1>4. \A i \in 1..Len(s) : s[i].name # pool.name
  BY <1>1 DEF Named
<1>5. \A i, j \in DOMAIN pools :
        pools[i].name = pools[j].name => (i = j \/ pools[i].name = Unnamed)
  <2> SUFFICES ASSUME NEW i \in DOMAIN pools, NEW j \in DOMAIN pools, pools[i].name = pools[j].name, i # j
               PROVE  pools[i].name = Unnamed
    OBVIOUS
  <2>1. i \in 1..Len(s) /\ j \in 1..Len(s)
    <3>1. \A h \in 1..(Len(s) + 1) : h \in 1..Len(s) \/ h = Len(s) + 1
      BY <1>1
    <3>2. \A h \in 1..Len(s) : pools[h].name # pool.name
      BY <1>2, <1>4
    <3>3. QED BY <1>2, <3>1, <3>2, Zenon
  <2>2. QED BY <1>1, <1>2, <2>1 DEF Viable
<1>6. u \in Topology /\ Viable(u)
  BY <1>2, <1>3, <1>5 DEF Viable
<1>7. QED BY <1>6 DEF pools

\* So does removing a pool that is there and is not the last.
LEMMA DeletedOK ==
  ASSUME NEW t \in Topology, Viable(t), NEW n, checkPoolDelete(t.pools, n)
  PROVE  LET u == [t EXCEPT !.pools = RemovePool(@, n)]
         IN  u \in Topology /\ Viable(u)
<1> DEFINE s == t.pools
           k == FirstNamed(s, n)
           pools == RemoveAt(s, k)
           u == [t EXCEPT !.pools = pools]
           old(i) == IF i < k THEN i ELSE i + 1
<1>1. /\ s \in Seq(Pool) /\ Len(s) \in Nat /\ DOMAIN s = 1..Len(s)
  BY LenProperties DEF Topology
<1>2. k \in 1..Len(s) /\ Len(s) > 1
  BY <1>1, FirstIsNamed DEF checkPoolDelete, Named
<1>3. RemovePool(s, n) = pools
  BY DEF RemovePool, FirstNamed
<1> HIDE DEF k
<1>4. /\ pools \in Seq(Pool) /\ Len(pools) = Len(s) - 1
      /\ \A i \in 1..(Len(s) - 1) : pools[i] = s[old(i)]
  BY <1>1, <1>2, RemovedPools
<1> HIDE DEF pools, old
<1>5. DOMAIN pools = 1..(Len(s) - 1) /\ pools # <<>>
  BY <1>1, <1>2, <1>4, LenProperties
<1>6. u \in Topology /\ u.cp = t.cp /\ u.pools = pools
  BY <1>4 DEF Topology
<1>7. \A i, j \in DOMAIN pools :
        pools[i].name = pools[j].name => (i = j \/ pools[i].name = Unnamed)
  <2> SUFFICES ASSUME NEW i \in DOMAIN pools, NEW j \in DOMAIN pools, pools[i].name = pools[j].name, i # j
               PROVE  pools[i].name = Unnamed
    OBVIOUS
  <2>1. old(i) \in 1..Len(s) /\ old(j) \in 1..Len(s) /\ old(i) # old(j)
    BY <1>1, <1>2, <1>5 DEF old
  <2>2. pools[i] = s[old(i)] /\ pools[j] = s[old(j)]
    BY <1>4, <1>5
  <2>3. QED BY <1>1, <2>1, <2>2 DEF Viable
<1>8. u \in Topology /\ Viable(u)
  BY <1>5, <1>6, <1>7 DEF Viable
<1>9. QED BY <1>3, <1>8

\* So does every plan, applied to a topology it was verified on.
LEMMA AppliedOK ==
  ASSUME NEW t \in Topology, Viable(t),
         NEW e, PlanOK(e), OddControl(e), e.kind \in Kinds, Verified(t, e)
  PROVE  Applied(t, e) \in Topology /\ Viable(Applied(t, e))
<1>0. e # NoPlan
  BY DEF NoPlan, Kinds
<1>1. CASE e.kind = "scale"
  <2>1. \A ch \in e.changes : {ch.current, ch.desired} \subseteq 0..Bound(ch.index)
    BY <1>0, <1>1 DEF PlanOK
  <2>2. \A ch \in e.changes : ch.index = 0 => ch.desired % 2 = 1
    BY <1>1 DEF OddControl
  <2>3. QED BY <1>1, <2>1, <2>2, ScaledOK DEF Applied
<1>2. CASE e.kind = "add"
  BY <1>0, <1>2, AddedOK DEF PlanOK, Applied, applyPoolEdit, Verified, verifyPoolSetUnchanged
<1>3. CASE e.kind = "delete"
  BY <1>0, <1>3, DeletedOK DEF PlanOK, Applied, applyPoolEdit, Verified, verifyPoolSetUnchanged
<1>4. QED BY <1>1, <1>2, <1>3 DEF Kinds
-----------------------------------------------------------------------------
\* A step that leaves a run's memory alone, and takes its lock if it touches
\* the topology, keeps what that run holds.
LEMMA Undisturbed ==
  ASSUME NEW q \in Operators, Runs(q),
         plan'[q] = plan[q], patch'[q] = patch[q], pc'[q] = pc[q],
         ~fresh'[q] \/ (fresh'[q] = fresh[q] /\ UNCHANGED topology)
  PROVE  Runs(q)'
<1>1. PlanOK(plan[q])' /\ OddControl(plan[q])' /\ PatchOK(patch[q])'
  BY DEF Runs, PlanOK, OddControl, PatchOK
<1>2. (pc[q] \in Bearing => plan[q].kind \in Kinds)'
  BY DEF Runs
<1>3. (pc[q] = "patch" /\ fresh[q] =>
         /\ Verified(topology, plan[q])
         /\ patch[q] = MergeFrom(topology, Applied(topology, plan[q])))'
  <2>1. CASE ~fresh'[q]
    BY <2>1
  <2>2. CASE fresh'[q] = fresh[q] /\ topology' = topology
    BY <2>2 DEF Runs
  <2>3. QED BY <2>1, <2>2
<1>4. QED BY <1>1, <1>2, <1>3 DEF Runs

\* A run that holds nothing is well formed.
LEMMA NothingOK == PlanOK(NoPlan) /\ OddControl(NoPlan) /\ PatchOK(NoPatch)
BY DEF PlanOK, OddControl, PatchOK, NoPlan, NoPatch

\* However a run ends, the invariant holds.
LEMMA ExitOK ==
  ASSUME NEW p \in Operators, NEW s \in Steps \ Bearing, IInv, Exit(p, s)
  PROVE  IInv'
<1>1. Typed'
  BY ScaleAssumption DEF IInv, Typed, Exit, NoPlan, NoPatch
<1>2. Viable(topology)'
  BY DEF IInv, Exit, Viable
<1>3. Runs(p)'
  <2>1. plan'[p] = NoPlan /\ patch'[p] = NoPatch /\ pc'[p] = s
    BY DEF IInv, Typed, Exit
  <2>2. s \notin Bearing /\ s # "patch"
    BY DEF Bearing
  <2>3. QED BY <2>1, <2>2, NothingOK DEF Runs, PlanOK, OddControl, PatchOK
<1>4. ASSUME NEW q \in Operators, q # p
      PROVE  Runs(q)'
  BY <1>4, Undisturbed DEF IInv, Typed, Exit
<1>5. QED BY <1>1, <1>2, <1>3, <1>4 DEF IInv

\* The invariant holds at first.
LEMMA InitOK == Init => IInv
<1> SUFFICES ASSUME Init PROVE IInv
  OBVIOUS
<1>1. topology \in Topology /\ Viable(topology)
  BY ViableOnes DEF Init
<1>2. Typed
  BY <1>1, ScaleAssumption DEF Init, Typed, Steps
<1>3. ASSUME NEW p \in Operators
      PROVE  Runs(p)
  <2>1. plan[p] = NoPlan /\ patch[p] = NoPatch /\ pc[p] = "idle"
    BY DEF Init
  <2>2. QED BY <2>1, NothingOK DEF Runs, Bearing
<1>4. QED BY <1>1, <1>2, <1>3 DEF IInv

\* Reading the cluster and making a plan preserves the invariant.
LEMMA ResolveOK ==
  ASSUME NEW p \in Operators, NEW how, IInv, Resolve(p, how)
  PROVE  IInv'
<1>1. PICK e \in Plans(topology, how) :
        \/ /\ Actionable(e)
           /\ pc' = [pc EXCEPT ![p] = "prompt"]
           /\ plan' = [plan EXCEPT ![p] = e]
           /\ UNCHANGED <<topology, patch, fresh, attempts>>
        \/ ~Actionable(e) /\ Exit(p, "nothing")
  BY DEF Resolve
<1>2. CASE ~Actionable(e) /\ Exit(p, "nothing")
  BY <1>2, ExitOK DEF Steps, Ended, Bearing
<1>3. CASE /\ pc' = [pc EXCEPT ![p] = "prompt"]
           /\ plan' = [plan EXCEPT ![p] = e]
           /\ UNCHANGED <<topology, patch, fresh, attempts>>
  <2>1. PlanOK(e) /\ OddControl(e) /\ e.kind \in Kinds
    BY PlansOK DEF IInv, Typed
  <2>2. Typed'
    BY <1>3 DEF IInv, Typed, Steps
  <2>3. Viable(topology)'
    BY <1>3 DEF IInv, Viable
  <2>4. Runs(p)'
    <3>1. plan'[p] = e /\ patch'[p] = patch[p] /\ pc'[p] = "prompt"
      BY <1>3 DEF IInv, Typed
    <3>2. PatchOK(patch[p])
      BY DEF IInv, Runs
    <3>3. QED BY <2>1, <3>1, <3>2 DEF Runs, PlanOK, OddControl, PatchOK
  <2>5. ASSUME NEW q \in Operators, q # p
        PROVE  Runs(q)'
    BY <1>3, <2>5, Undisturbed DEF IInv, Typed
  <2>6. QED BY <2>2, <2>3, <2>4, <2>5 DEF IInv
<1>4. QED BY <1>1, <1>2, <1>3

\* So does answering the prompt,
LEMMA ConfirmOK ==
  ASSUME NEW p \in Operators, IInv, Confirm(p)
  PROVE  IInv'
<1>1. CASE Exit(p, "nothing") \/ Exit(p, "failed")
  BY <1>1, ExitOK DEF Steps, Ended, Bearing
<1>2. CASE /\ pc[p] = "prompt"
           /\ pc' = [pc EXCEPT ![p] = "attempt"]
           /\ UNCHANGED <<topology, plan, patch, fresh, attempts>>
  <2>1. Typed'
    BY <1>2 DEF IInv, Typed, Steps
  <2>2. Viable(topology)'
    BY <1>2 DEF IInv, Viable
  <2>3. Runs(p)'
    <3>1. plan'[p] = plan[p] /\ patch'[p] = patch[p] /\ pc'[p] = "attempt"
      BY <1>2 DEF IInv, Typed
    <3>2. Runs(p) /\ pc[p] \in Bearing
      BY <1>2 DEF IInv, Bearing
    <3>3. QED BY <3>1, <3>2 DEF Runs, PlanOK, OddControl, PatchOK
  <2>4. ASSUME NEW q \in Operators, q # p
        PROVE  Runs(q)'
    BY <1>2, <2>4, Undisturbed DEF IInv, Typed
  <2>5. QED BY <2>1, <2>2, <2>3, <2>4 DEF IInv
<1>3. QED BY <1>1, <1>2 DEF Confirm

\* and verifying the plan on a fresh read and computing the patch,
LEMMA AttemptOK ==
  ASSUME NEW p \in Operators, IInv, Attempt(p)
  PROVE  IInv'
<1>1. CASE Exit(p, "failed")
  BY <1>1, ExitOK DEF Steps, Ended, Bearing
<1>2. CASE /\ pc[p] = "attempt"
           /\ Verified(topology, plan[p])
           /\ patch' = [patch EXCEPT ![p] = MergeFrom(topology, Applied(topology, plan[p]))]
           /\ fresh' = [fresh EXCEPT ![p] = TRUE]
           /\ pc' = [pc EXCEPT ![p] = "patch"]
           /\ UNCHANGED <<topology, plan, attempts>>
  <2>1. Typed'
    BY <1>2 DEF IInv, Typed, Steps
  <2>2. Viable(topology)'
    BY <1>2 DEF IInv, Viable
  <2>3. Runs(p)'
    <3>1. Runs(p) /\ plan[p].kind \in Kinds
      BY <1>2 DEF IInv, Runs, Bearing
    <3>2. Applied(topology, plan[p]) \in Topology
      BY <1>2, <3>1, AppliedOK DEF IInv, Typed, Runs
    <3>3. PatchOK(MergeFrom(topology, Applied(topology, plan[p])))
      BY <3>2, MergeBack DEF IInv, Typed
    <3>4. /\ plan'[p] = plan[p] /\ pc'[p] = "patch" /\ topology' = topology
          /\ patch'[p] = MergeFrom(topology, Applied(topology, plan[p]))
      BY <1>2 DEF IInv, Typed
    <3>5. PatchOK(patch[p])'
      BY <3>3, <3>4 DEF PatchOK
    <3>6. PlanOK(plan[p])' /\ OddControl(plan[p])'
      BY <3>1, <3>4 DEF PlanOK, OddControl, Runs
    <3>7. QED BY <1>2, <3>1, <3>4, <3>5, <3>6 DEF Runs
  <2>4. ASSUME NEW q \in Operators, q # p
        PROVE  Runs(q)'
    BY <1>2, <2>4, Undisturbed DEF IInv, Typed
  <2>5. QED BY <2>1, <2>2, <2>3, <2>4 DEF IInv
<1>3. QED BY <1>1, <1>2 DEF Attempt

\* and applying it, which is where the optimistic lock counts: the topology is
\* still the one that was verified,
LEMMA PatchAppliedOK ==
  ASSUME NEW p \in Operators, IInv, PatchApplied(p)
  PROVE  IInv'
<1>1. /\ Verified(topology, plan[p]) /\ plan[p].kind \in Kinds
      /\ patch[p] = MergeFrom(topology, Applied(topology, plan[p]))
  BY DEF PatchApplied, IInv, Runs, Bearing
<1>2. Applied(topology, plan[p]) \in Topology /\ Viable(Applied(topology, plan[p]))
  BY <1>1, AppliedOK DEF IInv, Typed, Runs
<1>3. topology' = Applied(topology, plan[p])
  BY <1>1, <1>2, MergeBack DEF PatchApplied, IInv, Typed
<1>4. Viable(topology)'
  BY <1>2, <1>3 DEF Viable
<1>5. Typed'
  BY <1>2, <1>3, ScaleAssumption DEF PatchApplied, Written, IInv, Typed, Steps
<1>6. Runs(p)'
  <2>1. plan'[p] = NoPlan /\ patch'[p] = NoPatch /\ pc'[p] = "answer"
    BY DEF PatchApplied, IInv, Typed
  <2>2. QED BY <2>1, NothingOK DEF Runs, PlanOK, OddControl, PatchOK, Bearing
<1>7. ASSUME NEW q \in Operators, q # p
      PROVE  Runs(q)'
  BY <1>7, Undisturbed DEF IInv, Typed, PatchApplied, Written
<1>8. QED BY <1>4, <1>5, <1>6, <1>7 DEF IInv

\* and losing it to somebody else's write,
LEMMA PatchConflictsOK ==
  ASSUME NEW p \in Operators, IInv, PatchConflicts(p)
  PROVE  IInv'
<1>1. CASE Exit(p, "failed")
  BY <1>1, ExitOK DEF Steps, Ended, Bearing
<1>2. CASE /\ pc[p] = "patch"
           /\ attempts[p] + 1 < MaxAttempts
           /\ pc' = [pc EXCEPT ![p] = "attempt"]
           /\ attempts' = [attempts EXCEPT ![p] = @ + 1]
           /\ patch' = [patch EXCEPT ![p] = NoPatch]
           /\ UNCHANGED <<topology, plan, fresh>>
  <2>1. Typed'
    <3>1. attempts[p] + 1 \in 0..(MaxAttempts - 1)
      BY <1>2, ScaleAssumption DEF IInv, Typed
    <3>2. QED BY <1>2, <3>1 DEF IInv, Typed, Steps
  <2>2. Viable(topology)'
    BY <1>2 DEF IInv, Viable
  <2>3. Runs(p)'
    <3>1. plan'[p] = plan[p] /\ patch'[p] = NoPatch /\ pc'[p] = "attempt"
      BY <1>2 DEF IInv, Typed
    <3>2. Runs(p) /\ pc[p] \in Bearing
      BY <1>2 DEF IInv, Bearing
    <3>3. QED BY <3>1, <3>2, NothingOK DEF Runs, PlanOK, OddControl, PatchOK
  <2>4. ASSUME NEW q \in Operators, q # p
        PROVE  Runs(q)'
    BY <1>2, <2>4, Undisturbed DEF IInv, Typed
  <2>5. QED BY <2>1, <2>2, <2>3, <2>4 DEF IInv
<1>3. QED BY <1>1, <1>2 DEF PatchConflicts

\* and the operators' status writes,
LEMMA StatusWriteOK ==
  ASSUME IInv, StatusWrite
  PROVE  IInv'
<1>1. Typed'
  BY DEF IInv, Typed, StatusWrite, Written
<1>2. Viable(topology)'
  BY DEF IInv, Viable, StatusWrite
<1>3. ASSUME NEW q \in Operators
      PROVE  Runs(q)'
  BY <1>3, Undisturbed DEF IInv, StatusWrite, Written
<1>4. QED BY <1>1, <1>2, <1>3 DEF IInv

\* and whatever others make of the topology.
LEMMA OutsideEditOK ==
  ASSUME IInv, OutsideEdit
  PROVE  IInv'
<1>1. topology' \in Topology /\ Viable(topology)'
  BY ViableOnes DEF OutsideEdit, Viable
<1>2. Typed'
  BY <1>1 DEF IInv, Typed, OutsideEdit, Written
<1>3. ASSUME NEW q \in Operators
      PROVE  Runs(q)'
  BY <1>3, Undisturbed DEF IInv, OutsideEdit, Written
<1>4. QED BY <1>1, <1>2, <1>3 DEF IInv

\* Every step preserves the invariant.
LEMMA StepOK == IInv /\ [Next]_vars => IInv'
<1> SUFFICES ASSUME IInv, [Next]_vars PROVE IInv'
  OBVIOUS
<1>1. ASSUME NEW p \in Operators, NEW how, Resolve(p, how) PROVE IInv'
  BY <1>1, ResolveOK
<1>2. ASSUME NEW p \in Operators, Refuse(p) PROVE IInv'
  BY <1>2, ExitOK DEF Refuse, Steps, Ended, Bearing
<1>3. ASSUME NEW p \in Operators, Confirm(p) PROVE IInv'
  BY <1>3, ConfirmOK
<1>4. ASSUME NEW p \in Operators, Attempt(p) PROVE IInv'
  BY <1>4, AttemptOK
<1>5. ASSUME NEW p \in Operators, PatchApplied(p) PROVE IInv'
  BY <1>5, PatchAppliedOK
<1>6. ASSUME NEW p \in Operators, PatchConflicts(p) PROVE IInv'
  BY <1>6, PatchConflictsOK
<1>7. ASSUME NEW p \in Operators, PatchFails(p) PROVE IInv'
  BY <1>7, ExitOK DEF PatchFails, Steps, Ended, Bearing
<1>8. ASSUME NEW p \in Operators, Answer(p) PROVE IInv'
  BY <1>8, ExitOK DEF Answer, Steps, Ended, Bearing
<1>9. ASSUME NEW p \in Operators, Killed(p) PROVE IInv'
  BY <1>9, ExitOK DEF Killed, Steps, Ended, Bearing
<1>10. CASE StatusWrite
  BY <1>10, StatusWriteOK
<1>11. CASE OutsideEdit
  BY <1>11, OutsideEditOK
<1>12. CASE UNCHANGED vars
  <2>1. Typed'
    BY <1>12 DEF IInv, Typed, vars
  <2>2. Viable(topology)'
    BY <1>12 DEF IInv, Viable, vars
  <2>3. ASSUME NEW q \in Operators
        PROVE  Runs(q)'
    BY <1>12, Undisturbed DEF IInv, vars
  <2>4. QED BY <2>1, <2>2, <2>3 DEF IInv
<1>13. QED
  BY <1>1, <1>2, <1>3, <1>4, <1>5, <1>6, <1>7, <1>8, <1>9, <1>10, <1>11, <1>12 DEF Next, Run

\* The invariant holds in every reachable state.
LEMMA Invariant == Spec => []IInv
BY InitOK, StepOK, PTL DEF Spec

(***************************************************************************)
(* Type correctness: whatever patch a run holds, merging it would give a   *)
(* topology, however many pools others added since the plan was made.      *)
(***************************************************************************)
THEOREM TypeCorrect == Spec => []TypeOK
<1>1. IInv => TypeOK
  <2> SUFFICES ASSUME IInv PROVE TypeOK
    OBVIOUS
  <2>1. ASSUME NEW p \in Operators
        PROVE  DOMAIN patch[p] \subseteq {"cp", "pools"} /\ Merge(topology, patch[p]) \in Topology
    BY MergeTyped DEF IInv, Typed, Runs, PatchOK
  <2>2. QED BY <2>1 DEF IInv, Typed, Runs, TypeOK
<1>2. QED BY Invariant, <1>1, PTL

(***************************************************************************)
(* Whatever any number of runs do to one another, and others do meanwhile, *)
(* the cluster keeps an odd number of control planes, at least one pool of *)
(* workers, and names that tell its pools apart.                           *)
(***************************************************************************)
THEOREM ClusterStaysViable == Spec => []StaysViable
<1>1. IInv => StaysViable
  BY DEF IInv, StaysViable
<1>2. QED BY Invariant, <1>1, PTL
-----------------------------------------------------------------------------
\* Applying a verified plan is what TopologyEdits calls taking that edit.
LEMMA TakesEdit ==
  ASSUME NEW t \in Topology, NEW e, PlanOK(e), e.kind \in Kinds, Verified(t, e)
  PROVE  Gate!Takes(t, Applied(t, e), e)
<1>1. CASE e.kind = "scale"
  <2>1. \A ch \in e.changes : Gate!StillAsShown(t, ch)
    BY <1>1 DEF Verified, verifyTargetsUnchanged, Applicable, Gate!StillAsShown, Gate!Named, Named
  <2>2. \A i, other : Desired(e.changes, i, other) = Gate!Desired(e, i, other)
    BY DEF Desired, Gate!Desired
  <2>3. Applied(t, e) = [cp |-> Desired(e.changes, 0, t.cp),
                         pools |-> [i \in DOMAIN t.pools |->
                            [t.pools[i] EXCEPT !.replicas = Desired(e.changes, i, @)]]]
    BY <1>1 DEF Applied, applyChanges
  <2>4. /\ Applied(t, e).cp = Gate!Desired(e, 0, t.cp)
        /\ Applied(t, e).pools = [i \in DOMAIN t.pools |->
                            [t.pools[i] EXCEPT !.replicas = Gate!Desired(e, i, @)]]
    BY <2>2, <2>3
  <2>5. Gate!Scaled(t, Applied(t, e), e)
    BY <2>1, <2>4 DEF Gate!Scaled
  <2>6. QED BY <1>1, <2>5 DEF Gate!Takes
<1>2. CASE e.kind = "add"
  <2>1. Named(t.pools, e.pool.name) = {}
    BY <1>2 DEF Verified, verifyPoolSetUnchanged
  <2>2. Applied(t, e) = [t EXCEPT !.pools = Append(@, e.pool)]
    BY <1>2 DEF Applied, applyPoolEdit
  <2>3. Gate!Added(t, Applied(t, e), e)
    BY <2>1, <2>2 DEF Gate!Added, Gate!Named, Named
  <2>4. QED BY <1>2, <2>3 DEF Gate!Takes
<1>3. CASE e.kind = "delete"
  <2>1. Named(t.pools, e.name) # {} /\ Len(t.pools) > 1
    BY <1>3 DEF Verified, verifyPoolSetUnchanged, checkPoolDelete
  <2>2. Applied(t, e) = [t EXCEPT !.pools = RemovePool(@, e.name)]
    BY <1>3 DEF Applied, applyPoolEdit
  <2>3. Applied(t, e).cp = t.cp /\ Applied(t, e).pools = RemoveAt(t.pools, FirstNamed(t.pools, e.name))
    BY <2>2 DEF Topology, RemovePool, FirstNamed
  <2>4. FirstNamed(t.pools, e.name) \in Gate!Named(t.pools, e.name)
    BY <2>1, FirstIsNamed DEF Topology, Named, Gate!Named
  <2>5. Gate!Removed(t, Applied(t, e), e)
    BY <2>1, <2>3, <2>4 DEF Gate!Removed, RemoveAt
  <2>6. QED BY <1>3, <2>5 DEF Gate!Takes
<1>4. QED BY <1>1, <1>2, <1>3 DEF Kinds

\* The refinement mapping at one run: the edits it may still make,
Approved(p) == IF pc[p] \in {"attempt", "patch"} THEN {plan[p]} ELSE {}
\* and what became of it.
Outcome(p) ==
    CASE pc[p] = "answer"    -> "effective"
      [] pc[p] = "succeeded" -> "succeeded"
      [] pc[p] \in Ended \ {"succeeded"} -> "closed"
      [] OTHER -> "open"

\* The mapping, run by run.
LEMMA Mapped ==
  /\ approvedEdits = [p \in Operators |-> Approved(p)]
  /\ outcomes = [p \in Operators |-> Outcome(p)]
BY DEF approvedEdits, outcomes, Approved, Outcome

\* The outcomes at each place of a run.
LEMMA OutcomeIs ==
  ASSUME NEW p
  PROVE  /\ pc[p] = "answer" => Outcome(p) = "effective"
         /\ pc[p] = "succeeded" => Outcome(p) = "succeeded"
         /\ pc[p] \in {"nothing", "failed"} => Outcome(p) = "closed"
         /\ pc[p] \in {"idle", "prompt", "attempt", "patch"} => Outcome(p) = "open"
BY DEF Outcome, Ended

\* A step of one run changes the mapped state at that run only.
LEMMA MapStep ==
  ASSUME NEW p \in Operators,
         \A q \in Operators : q # p => plan'[q] = plan[q] /\ pc'[q] = pc[q]
  PROVE  /\ approvedEdits' = [approvedEdits EXCEPT ![p] = Approved(p)']
         /\ outcomes' = [outcomes EXCEPT ![p] = Outcome(p)']
<1>1. \A q \in Operators : q # p => Approved(q)' = Approved(q)
  BY DEF Approved
<1>2. \A q \in Operators : q # p => Outcome(q)' = Outcome(q)
  BY Zenon DEF Outcome
<1>3. /\ approvedEdits' = [q \in Operators |-> Approved(q)']
      /\ outcomes' = [q \in Operators |-> Outcome(q)']
  BY DEF approvedEdits, outcomes, Approved, Outcome
<1> HIDE DEF Approved, Outcome
<1>4. approvedEdits' = [approvedEdits EXCEPT ![p] = Approved(p)']
  BY <1>1, <1>3, Mapped
<1>5. outcomes' = [outcomes EXCEPT ![p] = Outcome(p)']
  BY <1>2, <1>3, Mapped
<1>6. QED BY <1>4, <1>5

\* A step that changes neither at that run is invisible.
LEMMA StutterIf ==
  ASSUME NEW p \in Operators,
         \A q \in Operators : q # p => plan'[q] = plan[q] /\ pc'[q] = pc[q],
         Approved(p)' = Approved(p), Outcome(p)' = Outcome(p), UNCHANGED topology
  PROVE  UNCHANGED Gate!editVars
<1>1. /\ approvedEdits' = [approvedEdits EXCEPT ![p] = Approved(p)']
      /\ outcomes' = [outcomes EXCEPT ![p] = Outcome(p)']
  BY MapStep
<1>2. /\ approvedEdits[p] = Approved(p) /\ outcomes[p] = Outcome(p)
  BY Mapped
<1>3. approvedEdits' = approvedEdits /\ outcomes' = outcomes
  BY <1>1, <1>2, Mapped
<1>4. QED BY <1>3 DEF Gate!editVars

\* A run that ends without success closes its edit.
LEMMA ReportsOf ==
  ASSUME Typed, NEW p \in Operators, NEW s \in {"nothing", "failed"},
         pc[p] \in Steps \ Ended, Exit(p, s)
  PROVE  Gate!Report(p)
<1>1. /\ pc'[p] = s
      /\ \A q \in Operators : q # p => plan'[q] = plan[q] /\ pc'[q] = pc[q]
  BY DEF Exit, Typed
<1>2. Approved(p)' = {} /\ Outcome(p)' = "closed"
  BY <1>1, Zenon DEF Approved, Outcome, Ended
<1>3. outcomes[p] \in {"open", "effective"}
  BY Mapped, OutcomeIs DEF Steps, Ended
<1>4. /\ approvedEdits' = [approvedEdits EXCEPT ![p] = {}]
      /\ outcomes' = [outcomes EXCEPT ![p] = "closed"]
  BY <1>1, <1>2, MapStep
<1>5. QED BY <1>3, <1>4 DEF Gate!Report, Exit

\* Planning is invisible, or closes the edit;
LEMMA ResolveMaps ==
  ASSUME IInv, NEW p \in Operators, NEW how, Resolve(p, how)
  PROVE  [Gate!EditsNext]_(Gate!editVars)
<1>1. pc[p] = "idle"
  BY DEF Resolve
<1>2. PICK e \in Plans(topology, how) :
        \/ /\ Actionable(e)
           /\ pc' = [pc EXCEPT ![p] = "prompt"]
           /\ plan' = [plan EXCEPT ![p] = e]
           /\ UNCHANGED <<topology, patch, fresh, attempts>>
        \/ ~Actionable(e) /\ Exit(p, "nothing")
  BY DEF Resolve
<1>3. CASE Exit(p, "nothing")
  BY <1>1, <1>3, ReportsOf DEF IInv, Steps, Ended, Gate!EditsNext
<1>4. CASE /\ pc' = [pc EXCEPT ![p] = "prompt"]
           /\ plan' = [plan EXCEPT ![p] = e]
           /\ UNCHANGED <<topology, patch, fresh, attempts>>
  <2>1. /\ pc'[p] = "prompt"
        /\ \A q \in Operators : q # p => plan'[q] = plan[q] /\ pc'[q] = pc[q]
    BY <1>4 DEF IInv, Typed
  <2>2. Approved(p)' = Approved(p)
    BY <1>1, <2>1 DEF Approved
  <2>3. Outcome(p)' = Outcome(p)
    BY <1>1, <2>1, Zenon DEF Outcome, Ended
  <2>4. QED BY <1>4, <2>1, <2>2, <2>3, StutterIf
<1>5. QED BY <1>2, <1>3, <1>4

\* confirming approves the plan;
LEMMA ConfirmMaps ==
  ASSUME IInv, NEW p \in Operators, Confirm(p)
  PROVE  [Gate!EditsNext]_(Gate!editVars)
<1>1. pc[p] = "prompt"
  BY DEF Confirm
<1>2. CASE Exit(p, "nothing") \/ Exit(p, "failed")
  BY <1>1, <1>2, ReportsOf DEF IInv, Steps, Ended, Gate!EditsNext
<1>3. CASE /\ pc' = [pc EXCEPT ![p] = "attempt"]
           /\ UNCHANGED <<topology, plan, patch, fresh, attempts>>
  <2>1. /\ pc'[p] = "attempt" /\ plan'[p] = plan[p]
        /\ \A q \in Operators : q # p => plan'[q] = plan[q] /\ pc'[q] = pc[q]
    BY <1>3 DEF IInv, Typed
  <2>2. Approved(p) = {} /\ Approved(p)' = {plan[p]}
    BY <1>1, <2>1 DEF Approved
  <2>3. Outcome(p) = "open" /\ Outcome(p)' = "open"
    BY <1>1, <2>1, Zenon DEF Outcome, Ended
  <2>4. /\ approvedEdits' = [approvedEdits EXCEPT ![p] = {plan[p]}]
        /\ outcomes' = [outcomes EXCEPT ![p] = "open"]
    BY <2>1, <2>2, <2>3, MapStep
  <2>5. /\ approvedEdits[p] = {} /\ outcomes[p] = "open" /\ outcomes' = outcomes
        /\ approvedEdits'[p] = {plan[p]}
    BY <2>2, <2>3, <2>4, Mapped
  <2>6. Gate!Approve(p)
    BY <1>3, <2>4, <2>5 DEF Gate!Approve
  <2>7. QED BY <2>6 DEF Gate!EditsNext
<1>4. QED BY <1>2, <1>3 DEF Confirm

\* an attempt is invisible;
LEMMA AttemptMaps ==
  ASSUME IInv, NEW p \in Operators, Attempt(p)
  PROVE  [Gate!EditsNext]_(Gate!editVars)
<1>1. pc[p] = "attempt"
  BY DEF Attempt
<1>2. CASE Exit(p, "failed")
  BY <1>1, <1>2, ReportsOf DEF IInv, Steps, Ended, Gate!EditsNext
<1>3. CASE /\ pc' = [pc EXCEPT ![p] = "patch"]
           /\ UNCHANGED <<topology, plan, attempts>>
  <2>1. /\ pc'[p] = "patch" /\ plan'[p] = plan[p]
        /\ \A q \in Operators : q # p => plan'[q] = plan[q] /\ pc'[q] = pc[q]
    BY <1>3 DEF IInv, Typed
  <2>2. Approved(p)' = Approved(p)
    BY <1>1, <2>1 DEF Approved
  <2>3. Outcome(p)' = Outcome(p)
    BY <1>1, <2>1, Zenon DEF Outcome, Ended
  <2>4. QED BY <1>3, <2>1, <2>2, <2>3, StutterIf
<1>4. QED BY <1>2, <1>3 DEF Attempt

\* applying the patch makes the approved edit take effect, at once and on the
\* counts that were shown;
LEMMA PatchAppliedMaps ==
  ASSUME IInv, NEW p \in Operators, PatchApplied(p)
  PROVE  [Gate!EditsNext]_(Gate!editVars)
<1>1. pc[p] = "patch"
  BY DEF PatchApplied
<1>2. /\ Verified(topology, plan[p]) /\ plan[p].kind \in Kinds /\ PlanOK(plan[p])
      /\ patch[p] = MergeFrom(topology, Applied(topology, plan[p]))
  BY DEF PatchApplied, IInv, Runs, Bearing
<1>3. Applied(topology, plan[p]) \in Topology
  BY <1>2, AppliedOK DEF IInv, Typed, Runs
<1>4. topology' = Applied(topology, plan[p])
  BY <1>2, <1>3, MergeBack DEF PatchApplied, IInv, Typed
<1>5. Gate!Takes(topology, topology', plan[p])
  BY <1>2, <1>4, TakesEdit DEF IInv, Typed
<1>6. /\ pc'[p] = "answer"
      /\ \A q \in Operators : q # p => plan'[q] = plan[q] /\ pc'[q] = pc[q]
  BY DEF PatchApplied, IInv, Typed
<1>7. Approved(p) = {plan[p]} /\ Approved(p)' = {}
  BY <1>1, <1>6 DEF Approved
<1>8. Outcome(p) = "open" /\ Outcome(p)' = "effective"
  BY <1>1, <1>6, Zenon DEF Outcome, Ended
<1>9. /\ approvedEdits' = [approvedEdits EXCEPT ![p] = {}]
      /\ outcomes' = [outcomes EXCEPT ![p] = "effective"]
  BY <1>6, <1>7, <1>8, MapStep
<1>10. approvedEdits[p] = {plan[p]} /\ outcomes[p] = "open"
  BY <1>7, <1>8, Mapped
<1>11. Gate!TakeEffect(p)
  BY <1>5, <1>9, <1>10 DEF Gate!TakeEffect
<1>12. QED BY <1>11 DEF Gate!EditsNext

\* a conflict is invisible, or closes the edit when the attempts run out;
LEMMA PatchConflictsMaps ==
  ASSUME IInv, NEW p \in Operators, PatchConflicts(p)
  PROVE  [Gate!EditsNext]_(Gate!editVars)
<1>1. pc[p] = "patch"
  BY DEF PatchConflicts
<1>2. CASE Exit(p, "failed")
  BY <1>1, <1>2, ReportsOf DEF IInv, Steps, Ended, Gate!EditsNext
<1>3. CASE /\ pc' = [pc EXCEPT ![p] = "attempt"]
           /\ UNCHANGED <<topology, plan, fresh>>
  <2>1. /\ pc'[p] = "attempt" /\ plan'[p] = plan[p]
        /\ \A q \in Operators : q # p => plan'[q] = plan[q] /\ pc'[q] = pc[q]
    BY <1>3 DEF IInv, Typed
  <2>2. Approved(p)' = Approved(p)
    BY <1>1, <2>1 DEF Approved
  <2>3. Outcome(p)' = Outcome(p)
    BY <1>1, <2>1, Zenon DEF Outcome, Ended
  <2>4. QED BY <1>3, <2>1, <2>2, <2>3, StutterIf
<1>4. QED BY <1>2, <1>3 DEF PatchConflicts

\* and the answer reports an edit that took effect.
LEMMA AnswerMaps ==
  ASSUME IInv, NEW p \in Operators, Answer(p)
  PROVE  [Gate!EditsNext]_(Gate!editVars)
<1>1. pc[p] = "answer"
  BY DEF Answer
<1>2. CASE Exit(p, "failed")
  BY <1>1, <1>2, ReportsOf DEF IInv, Steps, Ended, Gate!EditsNext
<1>3. CASE Exit(p, "succeeded")
  <2>1. /\ pc'[p] = "succeeded"
        /\ \A q \in Operators : q # p => plan'[q] = plan[q] /\ pc'[q] = pc[q]
    BY <1>3 DEF Exit, IInv, Typed
  <2>2. Approved(p)' = {}
    BY <2>1 DEF Approved
  <2>3. Outcome(p) = "effective" /\ Outcome(p)' = "succeeded"
    BY <1>1, <2>1, Zenon DEF Outcome, Ended
  <2>4. /\ approvedEdits' = [approvedEdits EXCEPT ![p] = {}]
        /\ outcomes' = [outcomes EXCEPT ![p] = "succeeded"]
    BY <2>1, <2>2, <2>3, MapStep
  <2>5. outcomes[p] = "effective"
    BY <2>3, Mapped
  <2>6. Gate!Report(p)
    BY <1>3, <2>4, <2>5 DEF Gate!Report, Exit
  <2>7. QED BY <2>6 DEF Gate!EditsNext
<1>4. QED BY <1>2, <1>3 DEF Answer

\* A step of nobody's run leaves the mapped runs alone.
LEMMA OthersMap ==
  ASSUME pc' = pc, plan' = plan
  PROVE  approvedEdits' = approvedEdits /\ outcomes' = outcomes
<1>1. \A q \in Operators : Approved(q)' = Approved(q)
  BY DEF Approved
<1>2. \A q \in Operators : Outcome(q)' = Outcome(q)
  BY Zenon DEF Outcome
<1>3. /\ approvedEdits' = [q \in Operators |-> Approved(q)']
      /\ outcomes' = [q \in Operators |-> Outcome(q)']
  BY DEF approvedEdits, outcomes, Approved, Outcome
<1> HIDE DEF Approved, Outcome
<1>4. QED BY <1>1, <1>2, <1>3, Mapped

\* Every step maps to a step of TopologyEdits, or to none.
LEMMA StepMaps == IInv /\ [Next]_vars => [Gate!EditsNext]_(Gate!editVars)
<1> SUFFICES ASSUME IInv, [Next]_vars PROVE [Gate!EditsNext]_(Gate!editVars)
  OBVIOUS
<1>1. ASSUME NEW p \in Operators, NEW how, Resolve(p, how) PROVE [Gate!EditsNext]_(Gate!editVars)
  BY <1>1, ResolveMaps
<1>2. ASSUME NEW p \in Operators, pc[p] \in Steps \ Ended, Exit(p, "failed")
      PROVE  [Gate!EditsNext]_(Gate!editVars)
  BY <1>2, ReportsOf DEF IInv, Gate!EditsNext
<1>3. ASSUME NEW p \in Operators, Confirm(p) PROVE [Gate!EditsNext]_(Gate!editVars)
  BY <1>3, ConfirmMaps
<1>4. ASSUME NEW p \in Operators, Attempt(p) PROVE [Gate!EditsNext]_(Gate!editVars)
  BY <1>4, AttemptMaps
<1>5. ASSUME NEW p \in Operators, PatchApplied(p) PROVE [Gate!EditsNext]_(Gate!editVars)
  BY <1>5, PatchAppliedMaps
<1>6. ASSUME NEW p \in Operators, PatchConflicts(p) PROVE [Gate!EditsNext]_(Gate!editVars)
  BY <1>6, PatchConflictsMaps
<1>7. ASSUME NEW p \in Operators, Answer(p) PROVE [Gate!EditsNext]_(Gate!editVars)
  BY <1>7, AnswerMaps
<1>8. ASSUME NEW p \in Operators, Refuse(p) \/ PatchFails(p) \/ Killed(p)
      PROVE  pc[p] \in Steps \ Ended /\ Exit(p, "failed")
  BY <1>8 DEF Refuse, PatchFails, Killed, IInv, Typed, Steps, Ended
<1>9. CASE StatusWrite
  BY <1>9, OthersMap DEF StatusWrite, Gate!editVars
<1>10. CASE OutsideEdit
  BY <1>10, OthersMap DEF OutsideEdit, Gate!OthersEdit, Gate!EditsNext
<1>11. CASE UNCHANGED vars
  BY <1>11, OthersMap DEF vars, Gate!editVars
<1>12. QED
  BY <1>1, <1>2, <1>3, <1>4, <1>5, <1>6, <1>7, <1>8, <1>9, <1>10, <1>11 DEF Next, Run

\* Initial states map to initial states.
LEMMA InitMaps == Init => Gate!EditsInit
<1> SUFFICES ASSUME Init PROVE Gate!EditsInit
  OBVIOUS
<1>1. \A p \in Operators : Approved(p) = {}
  BY DEF Init, Approved
<1>2. \A p \in Operators : Outcome(p) = "open"
  BY OutcomeIs DEF Init
<1>3. QED BY <1>1, <1>2, Mapped DEF Init, Gate!EditsInit

(***************************************************************************)
(* Every run's edit takes effect at one moment, at most once, on the       *)
(* counts its operator approved, leaving alone what it does not name; and  *)
(* success is reported of such an edit only: patchScale and patchPoolEdit  *)
(* implement TopologyEdits.                                                *)
(***************************************************************************)
THEOREM ScaleImplementsEdits == Spec => ImplementsEdits
BY Invariant, InitMaps, StepMaps, PTL DEF Spec, ImplementsEdits, Gate!EditsSpec
=============================================================================
