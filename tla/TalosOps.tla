------------------------------- MODULE TalosOps -------------------------------
(***************************************************************************)
(* The commands that run talosctl against a cluster: etcd-backup,          *)
(* etcd-restore, console, health --full, and the console of one machine.   *)
(* They resolve the endpoints as a login does, try which ones answer, pick *)
(* the nodes to direct talosctl at, and lend it a configuration file that  *)
(* must not outlive it.                                                    *)
(***************************************************************************)
EXTENDS LoginEndpoints

VARIABLES
    op,          \* the command and its flags
    talos        \* how far it is, and what it has so far

talosVars == <<loginVars, op, talos>>

EtcdOps == {"backup", "restore"}
Ops == {o \in [what : EtcdOps \cup {"health", "console", "machine console"},
               machine : Machines \cup {"none"}, node : BOOLEAN, yes : BOOLEAN] :
          /\ (o.machine = "none") = (o.what # "machine console")
          /\ o.node => o.what \in EtcdOps \cup {"machine console"}
          /\ o.yes => o.what = "restore"}

TalosInit ==
    /\ LoginInit
    /\ wish.from # "secret"
    /\ op \in Ops
    /\ op.machine # "none" => fleet[op.machine].name \in {"id-ctp", "id-wrk"}
    /\ talos = [at |-> "endpoints", answer |-> {}, nodes |-> {}, controlPlane |-> {}, workers |-> {},
                temp |-> FALSE]

TalosGoto(s) == talos' = [talos EXCEPT !.at = s]

-----------------------------------------------------------------------------
\* clusterIDFromMachineName, findClusterByID, FindClusterSecret: nothing found.
ClusterNotFound ==
    /\ talos.at = "endpoints"
    /\ TalosGoto("failed")
    /\ UNCHANGED <<loginVars, op>>

ResolveEndpoints ==
    /\ talos.at = "endpoints"
    /\ \E c, m \in BOOLEAN :
         endpoints' = IF wish.from = "override" THEN [Unset EXCEPT !.addrs = Given, !.source = "override"]
                      ELSE [ResolveControlPlaneEndpoints(c, m) EXCEPT !.addrs = @ \ Secret]
    /\ TalosGoto(IF endpoints'.addrs = {} THEN "failed"
                 ELSE IF op.what \in {"console", "machine console"} THEN "nodes" ELSE "probe")
    /\ UNCHANGED <<fleet, cpvips, wish, op>>

\* Mutant of ProbeReachable: what does not answer is warned of only.
ProbeWarnsOnly ==
    /\ talos.at = "probe"
    /\ \E R \in SUBSET endpoints.addrs :
         talos' = [talos EXCEPT !.answer = R, !.at = IF R = {} THEN "failed" ELSE "nodes"]
    /\ UNCHANGED <<loginVars, op>>

\* ... and the endpoints are those that answer.
ProbeReachable ==
    /\ talos.at = "probe"
    /\ \E R \in SUBSET endpoints.addrs :
         /\ talos' = [talos EXCEPT !.answer = R, !.at = IF R = {} THEN "failed" ELSE "nodes"]
         /\ endpoints' = [endpoints EXCEPT !.addrs = R]
    /\ UNCHANGED <<fleet, cpvips, wish, op>>

\* Pools and machines are listed in any order, after a load balancer.
MayBeFirst(A) == IF A \cap VIP # {} THEN A \cap VIP ELSE A

DirectedAt(nodes, next) == talos' = [talos EXCEPT !.nodes = nodes, !.at = next]

\* One node for etcd.
EtcdNode ==
    /\ talos.at = "nodes" /\ op.what \in EtcdOps
    /\ \E a \in MayBeFirst(endpoints.addrs) :
         DirectedAt(IF op.node THEN Given ELSE {a},
                    IF op.what = "restore" /\ ~op.yes THEN "confirm" ELSE "config")
    /\ UNCHANGED <<loginVars, op>>

confirmDestructive ==
    /\ talos.at = "confirm"
    /\ \E typed \in BOOLEAN : TalosGoto(IF typed THEN "config" ELSE "failed")
    /\ UNCHANGED <<loginVars, op>>

\* talosFullHealth: a list of machines that fails is warned of.  And Health:
\* one of the control planes is asked, if they are known, or an endpoint.
NodeRoles ==
    /\ talos.at = "nodes" /\ op.what = "health"
    /\ \E roles \in {ResolveNodeRoles, [controlPlane |-> {}, workers |-> {}]} :
         \E a \in (IF roles.controlPlane # {} THEN roles.controlPlane ELSE MayBeFirst(endpoints.addrs)) :
            talos' = [talos EXCEPT !.nodes = {a}, !.controlPlane = roles.controlPlane,
                                   !.workers = roles.workers, !.at = "config"]
    /\ UNCHANGED <<loginVars, op>>

ResolveClusterMachineNodes == NodeIPs(Prefixed)

ClusterConsole ==
    /\ talos.at = "nodes" /\ op.what = "console"
    /\ \E nodes \in {ResolveClusterMachineNodes, {}} :
         DirectedAt(IF nodes = {} THEN endpoints.addrs ELSE nodes, "config")
    /\ UNCHANGED <<loginVars, op>>

\* Mutant of pickMachineNodes: of the endpoints.
pickAnyEndpoint(m) == MayBeFirst(endpoints.addrs)

\* Of the addresses of the machine the ones that are endpoints, too; else all;
\* and the public ones, as they are, if none is left.
pickMachineNodes(m) ==
    LET nodeIPs == MachineNodeIPs(m)
        both == nodeIPs \cap endpoints.addrs
    IN IF both # {} THEN both
       ELSE IF nodeIPs # {} THEN nodeIPs
       ELSE fleet[m].report.public

MachineConsole ==
    /\ talos.at = "nodes" /\ op.what = "machine console"
    /\ LET nodes == IF op.node THEN Given ELSE pickMachineNodes(op.machine)
       IN DirectedAt(nodes, IF nodes = {} THEN "failed" ELSE "config")
    /\ UNCHANGED <<loginVars, op>>

\* WriteTempTalosconfig: no talosconfig in the secret, or no room for a
\* directory; ...
MkdirTemp ==
    /\ talos.at = "config"
    /\ \/ TalosGoto("failed")
       \/ talos' = [talos EXCEPT !.temp = TRUE, !.at = "write"]
    /\ UNCHANGED <<loginVars, op>>

\* Mutant of WriteTempTalosconfig: a file that was not written to its end
\* stays.
WriteTempAndGiveUp ==
    /\ talos.at = "write"
    /\ \/ TalosGoto("failed") \/ TalosGoto("talosctl")
    /\ UNCHANGED <<loginVars, op>>

\* ... if the file cannot be written the directory is removed again.
WriteTempTalosconfig ==
    /\ talos.at = "write"
    /\ \/ talos' = [talos EXCEPT !.temp = FALSE, !.at = "failed"]
       \/ TalosGoto("talosctl")
    /\ UNCHANGED <<loginVars, op>>

\* runTalosctl, and the deferred cleanup.
runTalosctl ==
    /\ talos.at = "talosctl"
    /\ \E end \in {"done", "failed"} : talos' = [talos EXCEPT !.temp = FALSE, !.at = end]
    /\ UNCHANGED <<loginVars, op>>

\* Nothing catches a signal; before, there is nothing to leave behind.
TalosKilled ==
    /\ talos.temp
    /\ TalosGoto("killed")
    /\ UNCHANGED <<loginVars, op>>

TalosNext ==
    \/ ClusterNotFound \/ ResolveEndpoints \/ ProbeReachable
    \/ EtcdNode \/ confirmDestructive \/ NodeRoles \/ ClusterConsole \/ MachineConsole
    \/ MkdirTemp \/ WriteTempTalosconfig \/ runTalosctl \/ TalosKilled

TalosSpec == TalosInit /\ [][TalosNext]_talosVars

-----------------------------------------------------------------------------
\* What talosctl is directed at is this cluster by its machines' names, or what
\* a flag says: etcd is backed up from and restored to one node, which has just
\* answered and is an endpoint of the control plane, or the load balancer if
\* the flags ask for it; a health check asks a control plane or an endpoint that
\* answered, and takes no worker for a control plane nor the other way round; a
\* dashboard shows machines of this cluster, and the one of a machine that
\* machine only.  Names are told by their prefix, so that machines of clusters
\* <clusterId>-2 and <clusterId>-ctp2 are taken in, and addresses that a report
\* does not tell from the cards' are too.
DirectedAtTheCluster ==
    talos.at = "talosctl" =>
      /\ op.what \in EtcdOps /\ ~op.node =>
           /\ Cardinality(talos.nodes) = 1 /\ talos.nodes \subseteq talos.answer
           /\ \A a \in talos.nodes : \/ a \in Given /\ wish.from = "override"
                                     \/ a \in VIP /\ wish.vip
                                     \/ NodeOf(CtpPrefixed, a)
      /\ op.what = "health" =>
           /\ Cardinality(talos.nodes) = 1 /\ endpoints.addrs \subseteq talos.answer
           /\ talos.nodes \subseteq (IF talos.controlPlane # {} THEN talos.controlPlane ELSE talos.answer)
           /\ \A a \in talos.controlPlane : NodeOf(CtpPrefixed, a)
           /\ \A a \in talos.workers : NodeOf({"id-wrk", "id-2-ctp"}, a)
      /\ op.what = "console" =>
           \A a \in talos.nodes : a \in endpoints.addrs \/ NodeOf(Prefixed, a)
      /\ op.what = "machine console" /\ ~op.node =>
           \A a \in talos.nodes : a.m = op.machine /\ (Telling(a.m) => a.of = "card")

\* "The temp config is cleaned up after the dashboard exits" (console/talos.go),
\* however the command ends, unless it is killed.
TempConfigRemoved == talos.temp => talos.at \in {"write", "talosctl", "killed"}
=============================================================================
