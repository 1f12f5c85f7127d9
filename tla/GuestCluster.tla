---------------------------- MODULE GuestCluster ----------------------------
(***************************************************************************)
(* The guest cluster as phase 1 of a decommission meets it: the API        *)
(* objects that stand for state held outside the cluster (addresses, DNS   *)
(* records, volumes), the controllers that release that state when the     *)
(* objects are deleted, and the controllers that put objects back.         *)
(* None of this is viti's own code; it is the environment its calls assume *)
(* and its comments describe.                                              *)
(***************************************************************************)
EXTENDS Naturals, FiniteSets

CONSTANTS
    Ingresses, Gateways, Services, Volumes, Webhooks,
    HasArgo,         \* ArgoCD is installed
    ArgoManaged,     \* the objects ArgoCD restores when they go missing
    HasAppSet,       \* an ApplicationSet controller rewrites sync policies
    ArgoRestarts,    \* something may bring a stopped ArgoCD controller back
    StaleHooks,      \* webhooks with no backend: they reject every write
    HeldHooks,       \* webhooks a finalizer keeps after an accepted delete
    Stuck,           \* the objects whose finalizers are never released
    OperatorOwned,   \* volumes whose workload is run by an operator's resource
    Retained,        \* volumes whose PV is kept when its claim goes
    PodGaps,         \* a workload may be caught without its pod
    Bare,            \* volumes mounted by a pod no controller owns
    Orphans          \* volumes of which only a Terminating attachment is left

VARIABLES
    present,         \* the objects in the guest's API
    deleting,        \* those of them with a deletionTimestamp
    argo,            \* the ArgoCD application controller
    appset,          \* the ApplicationSet controller
    autosync,        \* some Application still has a syncPolicy
    guestUp          \* the guest's API server answers

guestVars == <<present, deleting, argo, appset, autosync, guestUp>>

Kinds == {"Webhook", "Ingress", "Gateway", "LB", "Workload", "Pod", "PVC", "PV", "VA"}

\* Every Gateway owns a LoadBalancer service, and some services stand alone.
\* A Workload is in the API while its controller wants its pod.
Objects ==
    ({"Webhook"} \X Webhooks) \cup ({"Ingress"} \X Ingresses)
      \cup ({"Gateway"} \X Gateways) \cup ({"LB"} \X (Gateways \cup Services))
      \cup ({"Workload", "Pod", "PVC", "PV", "VA"} \X Volumes)

\* The kinds that hold state outside the cluster.
ExternalKinds == {"Ingress", "Gateway", "LB", "PVC", "PV", "VA"}
External == {o \in Objects : o[1] \in ExternalKinds}

OfKind(kind) == {o \in present : o[1] = kind}

ASSUME GuestAssumption ==
    /\ Ingresses \cap Gateways = {} /\ Gateways \cap Services = {}
    /\ ArgoManaged \subseteq {o \in Objects : o[1] \in {"Webhook", "Ingress", "Gateway", "LB", "Workload"}}
    /\ StaleHooks \subseteq Webhooks /\ HeldHooks \subseteq Webhooks
    /\ Stuck \subseteq Objects
    /\ OperatorOwned \subseteq Volumes /\ Retained \subseteq Volumes
    /\ Bare \subseteq Volumes /\ Orphans \subseteq Volumes
    /\ PodGaps \in BOOLEAN
    /\ ({"Workload"} \X Bare) \cap ArgoManaged = {}
    /\ HasArgo \in BOOLEAN /\ HasAppSet \in BOOLEAN /\ ArgoRestarts \in BOOLEAN

GuestTypeOK ==
    /\ present \subseteq Objects
    /\ deleting \subseteq present
    /\ argo \in {"none", "running", "draining", "stopped"}
    /\ appset \in {"none", "running", "draining", "stopped"}
    /\ autosync \in BOOLEAN
    /\ guestUp \in BOOLEAN

\* The pods that are not there at the moment viti looks, although the
\* workload that owns them wants them.
Gaps == {v \in Volumes : /\ <<"Workload", v>> \in present \ deleting
                          /\ <<"Pod", v>> \notin present }

\* A working cluster, in which some volumes are already gone but for an attachment whose detach can never finish.
GuestInit ==
    /\ \E gaps \in SUBSET (Volumes \ (Orphans \cup Bare)) :
         /\ gaps = {} \/ PodGaps
         /\ present = Objects \ (({"Workload", "Pod", "PVC", "PV"} \X Orphans)
                                   \cup ({"Workload"} \X Bare)
                                   \cup ({"Pod", "VA"} \X gaps))
    /\ deleting = {"VA"} \X Orphans
    /\ argo = IF HasArgo THEN "running" ELSE "none"
    /\ autosync = HasArgo
    /\ appset = IF HasArgo /\ HasAppSet THEN "running" ELSE "none"
    /\ guestUp = TRUE

-----------------------------------------------------------------------------
(***************************************************************************)
(* The API.  A write is refused while a webhook with no backend is         *)
(* configured; webhook configurations themselves are exempt.               *)
(***************************************************************************)
WritesRejected == \E w \in StaleHooks : <<"Webhook", w>> \in present

Accepts(o) == guestUp /\ (o[1] = "Webhook" \/ ~WritesRejected)

\* A webhook configuration without a finalizer leaves at once; everything
\* else waits for a controller.
LeavesAtOnce(o) == o[1] = "Webhook" /\ o[2] \notin HeldHooks

\* The effect of accepted deletes of the objects of S.
Delete(S) ==
    /\ present' = present \ {o \in S : LeavesAtOnce(o)}
    /\ deleting' = (deleting \cup S) \cap present'

-----------------------------------------------------------------------------
(***************************************************************************)
(* Controllers that release.                                               *)
(***************************************************************************)

\* What a finalizer waits for: a claim is held by a pod that mounts it, a
\* volume by its attachment, and an attachment can be detached only by
\* reading its volume.
Releasable(o) ==
    CASE o[1] = "PVC" -> <<"Pod", o[2]>> \notin present
      [] o[1] = "PV"  -> <<"VA", o[2]>> \notin present
      [] o[1] = "VA"  -> <<"PV", o[2]>> \in present
      [] OTHER        -> TRUE

Finish(o) ==
    /\ Accepts(o)
    /\ o \in deleting \ Stuck
    /\ Releasable(o)
    /\ present' = present \ {o}
    /\ deleting' = deleting \ {o}
    /\ UNCHANGED <<argo, appset, autosync, guestUp>>

\* What an object is deleted with: a gateway's service with the gateway, a
\* pod with its workload, a volume with its claim, an attachment with its pod.
Orphaned(o) ==
    \/ o[1] = "LB" /\ o[2] \in Gateways /\ <<"Gateway", o[2]>> \notin present
    \/ o[1] = "Pod" /\ <<"Workload", o[2]>> \notin present /\ o[2] \notin Bare
    \/ o[1] = "PV" /\ <<"PVC", o[2]>> \notin present /\ o[2] \notin Retained
    \/ o[1] = "VA" /\ <<"Pod", o[2]>> \notin present

Cascade(o) ==
    /\ Accepts(o)
    /\ o \in present \ deleting
    /\ Orphaned(o)
    /\ deleting' = deleting \cup {o}
    /\ UNCHANGED <<present, argo, appset, autosync, guestUp>>

-----------------------------------------------------------------------------
(***************************************************************************)
(* Controllers that put objects back.                                      *)
(***************************************************************************)
ArgoActive == argo \in {"running", "draining"} /\ autosync

\* What a live owner re-creates: a gateway its service, a workload its claim
\* and its pod, a claim its volume, and a mounted volume its attachment.
OwnerWants(o) ==
    \/ o[1] = "LB" /\ <<"Gateway", o[2]>> \in present \ deleting
    \/ o[1] \in {"Pod", "PVC"} /\ <<"Workload", o[2]>> \in present \ deleting
    \/ o[1] = "PV" /\ <<"PVC", o[2]>> \in present \ deleting
    \/ o[1] = "VA" /\ <<"Pod", o[2]>> \in present \ deleting /\ <<"PV", o[2]>> \in present

Recreate(o) ==
    /\ Accepts(o)
    /\ o \in Objects \ present
    /\ OwnerWants(o) \/ (o \in ArgoManaged /\ ArgoActive)
    /\ present' = present \cup {o}
    /\ UNCHANGED <<deleting, argo, appset, autosync, guestUp>>

\* A scaled-down controller takes a moment to exit.
ArgoExits ==
    /\ guestUp /\ argo = "draining"
    /\ argo' = "stopped"
    /\ UNCHANGED <<present, deleting, appset, autosync, guestUp>>

ArgoRestart ==
    /\ guestUp /\ argo = "stopped" /\ ArgoRestarts
    /\ argo' = "running"
    /\ UNCHANGED <<present, deleting, appset, autosync, guestUp>>

AppSetExits ==
    /\ guestUp /\ appset = "draining"
    /\ appset' = "stopped"
    /\ UNCHANGED <<present, deleting, argo, autosync, guestUp>>

\* An ApplicationSet writes the sync policy of its template back.
AppSetRestores ==
    /\ guestUp /\ appset \in {"running", "draining"} /\ ~autosync /\ ~WritesRejected
    /\ autosync' = TRUE
    /\ UNCHANGED <<present, deleting, argo, appset, guestUp>>

GuestNext ==
    \/ \E o \in Objects : Finish(o) \/ Cascade(o) \/ Recreate(o)
    \/ ArgoExits \/ ArgoRestart
    \/ AppSetExits \/ AppSetRestores

=============================================================================
