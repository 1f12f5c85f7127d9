----------------------------- MODULE ClusterHealth -----------------------------
(***************************************************************************)
(* `viti kc health` of a cluster that is asked through its API server, and *)
(* `viti kc health-all`, which asks them all at once.  The credentials are *)
(* in a secret on the management side, found by name or by label; servers  *)
(* fall ill and recover between two requests, and requests get lost.       *)
(***************************************************************************)
EXTENDS Integers, FiniteSets

CONSTANTS
    Guests,        \* clusters
    MaxTurns       \* bound: changes in the health of servers

ASSUME HealthAssumption == MaxTurns \in Nat

VARIABLES
    check,         \* the command; the clusters it was given
    vault,         \* vault[c]: the secrets that may be those of cluster c
    nodes,         \* nodes[c]: what its nodes say of themselves
    server,        \* server[c]: whether its API server is well
    row,           \* row[c]: how far its check is, and what it found
    exit,          \* how the command ended
    answers,       \* (history) the answers of c to this command
    turns

healthVars == <<check, vault, nodes, server, row, exit, answers, turns>>

\* What a secret has for a kubeconfig: none or a broken one is of no use.
KubeConfigs == {"useless", "valid"}

\* The secret named after the cluster, and the ones with its label.
Vaults == [named : {"absent"} \cup KubeConfigs, labelled : SUBSET KubeConfigs]

\* A node without the condition, not ready, or ready.
NodeStates == {"unset", "False", "True"}

Checks == [what : {"health", "full", "all"}, of : SUBSET Guests]

\* Which clusters are given: one, or those the zones list.
HealthInit ==
    /\ check \in {k \in Checks : k.what # "all" => Cardinality(k.of) = 1}
    /\ vault \in [Guests -> Vaults]
    /\ nodes \in [Guests -> SUBSET NodeStates]
    /\ server \in [Guests -> BOOLEAN]
    /\ \A c \in Guests :
         /\ check.what # "full" \/ c \notin check.of => nodes[c] = {"True"}
         /\ c \notin check.of => vault[c] = [named |-> "valid", labelled |-> {}] /\ server[c]
    /\ row = [c \in Guests |-> [at |-> "secret", ok |-> TRUE, todo |-> {}]]
    /\ exit = "running"
    /\ answers = [c \in Guests |-> {}]
    /\ turns = 0

Paths == CASE check.what = "all" -> {"/readyz"}
           [] check.what = "health" -> {"/readyz", "/livez"}
           [] OTHER -> {"/healthz", "/livez", "/readyz"}

Fails(c) == row' = [row EXCEPT ![c].ok = FALSE, ![c].at = "done"]

-----------------------------------------------------------------------------
\* FindClusterSecret: by name, else the only one with the label; what its
\* kubeconfig is, or that there is none to be had.
FindClusterSecret(c) ==
    IF vault[c].named # "absent" THEN {vault[c].named}
    ELSE IF Cardinality(vault[c].labelled) = 1 THEN vault[c].labelled ELSE {"not found"}

\* Any request to the management side may fail.
ReadKubeConfig(c) ==
    /\ c \in check.of /\ row[c].at = "secret"
    /\ \/ Fails(c)
       \/ \E k \in FindClusterSecret(c) :
            IF k = "valid" THEN row' = [row EXCEPT ![c].at = "probe", ![c].todo = Paths]
            ELSE Fails(c)
    /\ UNCHANGED <<check, vault, nodes, server, exit, answers, turns>>

AfterProbes(c, todo) == IF todo # {} THEN "probe" ELSE IF check.what = "full" THEN "nodes" ELSE "done"

\* Mutant of CheckEndpoint: the last answer decides.
CheckEndpointLast(c, path) ==
    /\ row[c].at = "probe" /\ path \in row[c].todo
    /\ \E answer \in {"lost", IF server[c] THEN "200" ELSE "500"} :
         /\ row' = [row EXCEPT ![c].ok = (answer = "200"), ![c].todo = @ \ {path},
                               ![c].at = AfterProbes(c, row[c].todo \ {path})]
         /\ answers' = [answers EXCEPT ![c] = @ \cup {answer}]
    /\ UNCHANGED <<check, vault, nodes, server, exit, turns>>

\* An answer other than 200, or none within 15 seconds, is ill health.
CheckEndpoint(c, path) ==
    /\ row[c].at = "probe" /\ path \in row[c].todo
    /\ \E answer \in {"lost", IF server[c] THEN "200" ELSE "500"} :
         /\ row' = [row EXCEPT ![c].ok = @ /\ answer = "200", ![c].todo = @ \ {path},
                               ![c].at = AfterProbes(c, row[c].todo \ {path})]
         /\ answers' = [answers EXCEPT ![c] = @ \cup {answer}]
    /\ UNCHANGED <<check, vault, nodes, server, exit, turns>>

AllReady(states) == states = {"True"}

CheckNodes(c) ==
    /\ row[c].at = "nodes"
    /\ \/ Fails(c)
       \/ row' = [row EXCEPT ![c].ok = @ /\ AllReady(nodes[c]), ![c].at = "done"]
    /\ UNCHANGED <<check, vault, nodes, server, exit, answers, turns>>

\* When all have been asked; no cluster at all is well, too.
Verdict ==
    /\ exit = "running" /\ \A c \in check.of : row[c].at = "done"
    /\ exit' = IF \A c \in check.of : row[c].ok THEN "healthy" ELSE "unhealthy"
    /\ UNCHANGED <<check, vault, nodes, server, row, answers, turns>>

ServerTurns(c) ==
    /\ turns < MaxTurns /\ exit = "running"
    /\ turns' = turns + 1
    /\ server' = [server EXCEPT ![c] = ~@]
    /\ UNCHANGED <<check, vault, nodes, row, exit, answers>>

HealthNext ==
    \/ \E c \in Guests :
         \/ ReadKubeConfig(c) \/ CheckNodes(c) \/ ServerTurns(c)
         \/ \E path \in Paths : CheckEndpoint(c, path)
    \/ Verdict

HealthSpec == HealthInit /\ [][HealthNext]_healthVars

-----------------------------------------------------------------------------
\* "Exits non-zero if any cluster is unhealthy or unreachable" (kc health-all):
\* a command that says healthy has had an answer of every cluster it was given,
\* through that cluster's own secret, and each answer was 200; of a full check
\* there are nodes and all are ready.
HealthyIsHealthy ==
    exit = "healthy" =>
      \A c \in check.of :
        /\ answers[c] = {"200"}
        /\ \/ vault[c].named = "valid"
           \/ vault[c].named = "absent" /\ vault[c].labelled = {"valid"}
        /\ check.what = "full" => nodes[c] # {} /\ nodes[c] \cap {"unset", "False"} = {}
=============================================================================
