---------------------------- MODULE LoginEndpoints ----------------------------
(***************************************************************************)
(* Which addresses `viti kc login` writes as the endpoints of a            *)
(* talosconfig: of the shared virtual address of the control plane, of the *)
(* machines of the cluster, or those the secret has.  What a provider      *)
(* reports of a machine mixes the addresses of its cards with those of     *)
(* bridges and pods; lists fail; and the id of a cluster may begin with    *)
(* the id of another.                                                      *)
(***************************************************************************)
EXTENDS Integers, Sequences, FiniteSets

CONSTANTS
    Machines     \* the machines of a namespace

VARIABLES
    fleet,       \* fleet[m]: what machine m is, and what is reported of it
    cpvips,      \* how many shared addresses name the cluster, and what one says
    wish,        \* the flags of the login
    endpoints    \* the outcome: addresses and their source

loginVars == <<fleet, cpvips, wish, endpoints>>

\* An address: what it belongs to, of which machine, and its family; one of a
\* loopback, or no address at all, is not usable.
Address(of, m, v6) == [of |-> of, m |-> m, v6 |-> v6]
Card(m)   == {Address("card", m, v6) : v6 \in BOOLEAN}
Bridge(m) == {Address("bridge", m, FALSE)}
Loop(m)   == {Address("loopback", m, FALSE)}
VIP       == {Address("vip", "", FALSE)}
Secret    == {Address("secret", "", FALSE)}
Given     == {Address("given", "", FALSE)}      \* by --endpoint

\* Names: <clusterId>-ctpN and <clusterId>-wrkN of the cluster itself, those of
\* clusters whose ids are <clusterId>-2 and <clusterId>-ctp2, and of any other.
Names == {"id-ctp", "id-wrk", "id-2-ctp", "id-ctp2-wrk", "other-ctp"}

\* The names with the prefix <clusterId>-, and with <clusterId>-ctp.
Prefixed   == Names \ {"other-ctp"}
CtpPrefixed == {"id-ctp", "id-ctp2-wrk"}

\* An interface is a card of the machine, or a bridge or the like on it; its
\* type may say that the virtual machine has it, its name that it is a bridge:
\* both may be missing or misleading.
Iface(m) ==
    LET Faces(of, A) == [of : {of}, attached : BOOLEAN, virtual : BOOLEAN, addrs : SUBSET A]
    IN Faces("card", Card(m) \cup Loop(m)) \cup Faces("bridge", Bridge(m) \cup Loop(m))

\* What is reported of a machine: interfaces, addresses only, both or nothing.
Report(m) ==
    LET Addrs == SUBSET (Card(m) \cup Bridge(m) \cup Loop(m))
    IN [ifaces : SUBSET Iface(m), ips : Addrs, private : Addrs, public : Addrs]

Unset == [addrs |-> {}, source |-> "unset", complete |-> TRUE]

\* A list of none or of two is all the same, and of an explicit source the rest.
LoginInit ==
    /\ DOMAIN fleet = Machines
    /\ \A m \in Machines : fleet[m] \in [name : Names, report : Report(m)]
    /\ cpvips \in [count : 0..2, vip : {{}, VIP}, status : BOOLEAN, spec : BOOLEAN]
    /\ wish \in [from : {"auto", "secret", "override"}, vip : BOOLEAN, v6 : BOOLEAN]
    /\ cpvips.count # 1 => cpvips.vip = {} /\ ~cpvips.status /\ ~cpvips.spec
    /\ wish.from # "auto" => cpvips.count = 0 /\ ~wish.vip
    /\ endpoints = Unset

-----------------------------------------------------------------------------
isUsableNodeIP(a) == a.of # "loopback"
filterIPFamily(A) == IF wish.v6 THEN A ELSE {a \in A : ~a.v6}

\* Mutant of Kept: the name of an interface is all that counts.
KeptByName(ifaces) == {i \in ifaces : ~i.virtual}

\* The interfaces that count: those the virtual machine has, if the reports
\* tell; else those whose name is not that of a bridge or the like.
Kept(ifaces) ==
    LET attached == {i \in ifaces : i.attached}
    IN IF attached # {} THEN attached ELSE {i \in ifaces : ~i.virtual}

\* If they have no address, the first list of addresses that is not empty.
Reported(report) ==
    LET raw == UNION {i.addrs : i \in Kept(report.ifaces)}
    IN IF raw # {} THEN raw
       ELSE IF report.ips # {} THEN report.ips
       ELSE IF report.private # {} THEN report.private
       ELSE report.public

MachineNodeIPs(m) == {a \in Reported(fleet[m].report) : isUsableNodeIP(a)}

NodeIPs(names) ==
    filterIPFamily(UNION {MachineNodeIPs(m) : m \in {n \in Machines : fleet[n].name \in names}})
controlPlaneMachineEndpoints == NodeIPs(CtpPrefixed)

\* ResolveNodeRoles: control planes, and whatever else has the prefix.
ResolveNodeRoles == [controlPlane |-> NodeIPs(CtpPrefixed), workers |-> NodeIPs(Prefixed \ CtpPrefixed)]

\* The pool of a shared address: the cards of the control plane.
Pool == UNION {Card(m) : m \in {n \in Machines : fleet[n].name = "id-ctp"}}

\* cpvipEndpoints: of more than one match none is used; the wanted pool only
\* stands in for a status that is still empty.
cpvipEndpoints ==
    LET status == (IF wish.vip THEN cpvips.vip ELSE {}) \cup (IF cpvips.status THEN Pool ELSE {})
    IN IF cpvips.count # 1 THEN {}
       ELSE IF status # {} THEN status
       ELSE IF cpvips.spec THEN Pool ELSE {}

\* Either list may fail, and is then as empty.
ResolveControlPlaneEndpoints(listsCPVIPs, listsMachines) ==
    LET shared   == IF listsCPVIPs THEN filterIPFamily(cpvipEndpoints) ELSE {}
        machines == IF listsMachines THEN controlPlaneMachineEndpoints ELSE {}
        From(addrs, source) == [addrs |-> addrs, source |-> source, complete |-> listsCPVIPs /\ listsMachines]
    IN IF shared # {} THEN From(shared, "cpvip")
       ELSE IF machines # {} THEN From(machines, "machines")
       ELSE From(Secret, "secret")

doTalosconfig ==
    /\ endpoints = Unset
    /\ \/ /\ wish.from # "auto"
          /\ endpoints' = [Unset EXCEPT !.addrs = IF wish.from = "secret" THEN Secret ELSE Given,
                                        !.source = wish.from]
       \/ /\ wish.from = "auto"
          /\ \E c, m \in BOOLEAN : endpoints' = ResolveControlPlaneEndpoints(c, m)
    /\ UNCHANGED <<fleet, cpvips, wish>>

LoginSpec == LoginInit /\ [][doTalosconfig]_loginVars

-----------------------------------------------------------------------------
\* An interface that its type tells to be one of the virtual machine's; or, if
\* no type tells, one that its name does not tell to be a bridge.
ToldACard(m, i) ==
    IF \E j \in fleet[m].report.ifaces : j.attached THEN i.attached ELSE ~i.virtual

\* A report that tells: bridges are told to be bridges, and a card that is told
\* to be one has an address.
Telling(m) ==
    LET ifaces == fleet[m].report.ifaces
    IN /\ \A i \in ifaces : ToldACard(m, i) => i.of = "card"
       /\ \E i \in ifaces : ToldACard(m, i) /\ i.addrs \cap Card(m) # {}

\* An address of a machine of one of these names: of a card, or of a bridge if
\* the report of the machine does not tell them apart.
NodeOf(names, a) ==
    /\ a.of \in {"card", "bridge"}
    /\ fleet[a.m].name \in names
    /\ Telling(a.m) => a.of = "card"

\* What talosctl will dial is of a family that was asked for ("a single
\* unreachable v6 entry will hang talosctl"), and the load balancer only if it
\* was asked for ("the VIP adds a routing hop").  The pool of a shared address
\* is the cards of this cluster's control planes.  Machines are control planes
\* by their names' prefix <clusterId>-ctp, be they of a cluster <clusterId>-ctp2,
\* and never others; bridges' addresses are kept out where a report tells.  And
\* the endpoints of the secret are not fallen back to while a machine of the
\* control plane shows a card, unless a list failed.
EndpointsAreControlPlanes ==
    wish.from = "auto" /\ endpoints # Unset =>
      /\ \A a \in endpoints.addrs : a.v6 => wish.v6
      /\ endpoints.source = "cpvip" =>
           \A a \in endpoints.addrs :
              \/ a.of = "card" /\ fleet[a.m].name = "id-ctp"
              \/ a \in VIP /\ wish.vip /\ cpvips.count = 1
      /\ endpoints.source = "machines" => \A a \in endpoints.addrs : NodeOf(CtpPrefixed, a)
      /\ endpoints.source = "secret" =>
           /\ endpoints.addrs \subseteq Secret
           /\ endpoints.complete =>
                \A m \in {n \in Machines : fleet[n].name = "id-ctp"} :
                   LET report == fleet[m].report
                       shown  == IF report.ifaces = {} THEN report.ips
                                 ELSE UNION {i.addrs : i \in {j \in report.ifaces : ToldACard(m, j)}}
                   IN filterIPFamily(shown \cap Card(m)) = {}
=============================================================================
