---------------------------- MODULE FleetResolve ----------------------------
(***************************************************************************)
(* How a command that is given a name finds the one object it means among  *)
(* all availability zones: connect to each zone, list the zones that       *)
(* answer, each at a moment of its own, and look for the name.  A zone may *)
(* fail at either call (an expired --zone-timeout is a failure), and       *)
(* objects of that name come and go meanwhile.                             *)
(***************************************************************************)
EXTENDS Integers, FiniteSets

CONSTANTS
    Zones,       \* configured availability zones
    Sites,       \* namespaces of the zones, each with room for one such object
    ZoneOf,      \* ZoneOf[s]: the zone of s
    Commands,    \* the commands that are run, out of those below
    MaxGen,      \* bound: objects of a generation beyond it are not made
    MaxChanges   \* bound: how often others change something in one run

\* kc: kc delete, preclean and scale.  use: what acts on a cluster or machine
\* but does not change it, such as kc login, console, health, etcd and machine
\* console.  get: the get of any resource kind.  plain get: kc get, machine get.
Gets == {"get", "plain get"}
Searches == {"kc", "use", "nn delete"} \cup Gets
WholeFleet == {"kc", "nn delete"}       \* go on only if every zone is connected
Lenient == Searches \ {"nn delete"}     \* go on without zones that fail to list

ASSUME FleetAssumption ==
    /\ ZoneOf \in [Sites -> Zones]
    /\ Commands \subseteq Searches \cup {"nn orphans"}
    /\ MaxGen \in Nat \ {0} /\ MaxChanges \in Nat

VARIABLES
    objects,     \* the objects of the name: [site, gen, known, terminating]
    pc,          \* what the command does next, or how it ended
    command, scope,
    connected,   \* zones connected to
    answered,    \* zones that were listed
    unread,      \* zones that failed to list
    found,       \* the objects listed
    steady,      \* (history) ids that were there all the time since the start
    born,        \* the last generation made
    changes

zoneVars == <<command, scope, connected, answered, unread, found>>
fleetVars == <<objects, pc, zoneVars, steady, born, changes>>

\* gen tells an object from its successors, as its UID does: 0 if it was old
\* when the command began, 1 if it was young, more if it came later.  known is
\* whether its status shows a VLAN.
Object == [site: Sites, gen: 0..MaxGen, known: BOOLEAN, terminating: BOOLEAN]
Id(o) == <<o.site, o.gen>>
Ids(S) == {Id(o) : o \in S}
In(Z) == {o \in objects : ZoneOf[o.site] \in Z}

FleetInit ==
    /\ objects \in {S \in SUBSET {o \in Object : o.gen <= 1 /\ ~o.terminating} :
                      \A o1, o2 \in S : o1.site = o2.site => o1 = o2}
    /\ pc = "start"
    /\ command \in Commands
    /\ scope \in {Zones} \cup {{z} : z \in Zones}
    /\ connected = {} /\ answered = {} /\ unread = {} /\ found = {}
    /\ steady = Ids(objects)
    /\ born = 1 /\ changes = 0

-----------------------------------------------------------------------------
Ended == {"failed", "none", "unknown", "shown", "ambiguous", "gone", "complete", "incomplete"}

Goto(s) == pc' = s

\* Mutant of requireWholeFleet: some zone is connected.
requireAnyZone(C) == C # {}

requireWholeFleet(C) == C = scope

\* ConnectAll with allowPartial: a zone that cannot be connected, or lacks the
\* resources of vitistack, is only warned about.
ConnectAll ==
    /\ pc = "start"
    /\ \E C \in SUBSET scope :
         /\ connected' = C
         /\ Goto(IF C = {} \/ (command \in WholeFleet /\ ~requireWholeFleet(C)) THEN "failed"
                 ELSE IF command = "nn orphans" THEN "audit" ELSE "list")
    /\ UNCHANGED <<objects, command, scope, answered, unread, found, steady, born, changes>>

\* The zones are listed at the same time, in goroutines; for a machine one
\* after another, which is one of these orders.
ListZone(z) ==
    /\ pc = "list"
    /\ z \in connected \ (answered \cup unread)
    /\ \/ /\ answered' = answered \cup {z}
          /\ found' = found \cup In({z})
          /\ UNCHANGED unread
       \/ unread' = unread \cup {z} /\ UNCHANGED <<answered, found>>
    /\ UNCHANGED <<objects, pc, command, scope, connected, steady, born, changes>>

\* Mutant of Usable: the zones that did not answer are left out for any command.
UsableAnyway == connected = answered \cup unread

\* Whether the command goes on with the lists it has.
Usable ==
    /\ connected = answered \cup unread
    /\ unread # {} => command \in Lenient

\* collectResource reports what it missed. collectClusters and collectMachines
\* only warn of it while they list.
Partial == command = "get" /\ (unread # {} \/ ~requireWholeFleet(connected))

\* findClusterAcrossAZs, findMachineAcrossAZs, findNetNSAcrossAZs: no match,
\* one, or too many.
Conclude ==
    /\ pc = "list"
    /\ connected = answered \cup unread
    /\ \/ ~Usable /\ Goto("failed")
       \/ Usable /\ found = {} /\ Goto(IF Partial THEN "unknown" ELSE "none")
       \/ Usable /\ found # {} /\ command \in Gets /\ Goto("shown")
       \/ /\ Usable /\ found # {} /\ command \notin Gets
          /\ Goto(IF Cardinality(found) = 1 THEN "resolved" ELSE "ambiguous")
    /\ UNCHANGED <<objects, zoneVars, steady, born, changes>>

-----------------------------------------------------------------------------
\* Others: someone creates an object, deletes one, or the operator writes its
\* status, or releases its finalizer.
Changed ==
    /\ changes < MaxChanges
    /\ changes' = changes + 1
    /\ steady' = steady \cap Ids(objects')

Replace(o, S) == objects' = (objects \ {o}) \cup S

Created(s) ==
    /\ born < MaxGen
    /\ \A o \in objects : o.site # s
    /\ objects' = objects \cup {[site |-> s, gen |-> born + 1, known |-> FALSE, terminating |-> FALSE]}
    /\ born' = born + 1
    /\ Changed

\* The number of a VLAN stays, but the status that shows it may be wiped.
StatusWritten(o) == Replace(o, {[o EXCEPT !.known = ~@]}) /\ Changed /\ UNCHANGED born

DeletedByOthers(o) ==
    ~o.terminating /\ Replace(o, {[o EXCEPT !.terminating = TRUE]}) /\ Changed /\ UNCHANGED born

\* Never held back by the bound: the operator may always finish.
Released(o) ==
    /\ o.terminating
    /\ Replace(o, {})
    /\ steady' = steady \ {Id(o)}
    /\ UNCHANGED <<born, changes>>

\* What happens after the command ended is of no concern.
Running == pc \notin Ended

FleetChanges ==
    /\ Running
    /\ \/ \E s \in Sites : Created(s)
       \/ \E o \in objects : StatusWritten(o) \/ DeletedByOthers(o) \/ Released(o)
    /\ UNCHANGED <<pc, zoneVars>>

FleetNext ==
    \/ \E z \in Zones : ListZone(z)
    \/ ConnectAll \/ Conclude
    \/ FleetChanges

FleetSpec == FleetInit /\ [][FleetNext]_fleetVars

-----------------------------------------------------------------------------
\* What was there all along, in the zones Z.
There(Z) == {id \in steady : ZoneOf[id[1]] \in Z}

\* The zones the outcome of a command is about.  Those that change a cluster
\* look in every zone but the ones that failed to list, and those that only
\* use or show one look in the zones that answered; both just warn of the rest.
SpeaksFor ==
    IF command = "kc" THEN scope \ unread
    ELSE IF command \in {"use", "plain get"} THEN answered
    ELSE scope

(***************************************************************************)
(* The object a command settles on is the only one of its name: there was  *)
(* no other all along, anywhere in the zones it was to search.             *)
(***************************************************************************)
OnlyMatch == pc = "resolved" => There(scope) \subseteq Ids(found)

(***************************************************************************)
(* In the zones its outcome is about, the match a command acts on is the   *)
(* only one, and a command that says there is none has missed none: for    *)
(* nn delete and get these are all zones it was to search, for those that  *)
(* change a cluster all but the ones that failed to list.                  *)
(***************************************************************************)
ResolvesTheOnlyOne ==
    /\ pc = "resolved" => There(SpeaksFor) \subseteq Ids(found)
    /\ pc = "none" => There(SpeaksFor) = {}
=============================================================================
