------------------------------ MODULE NetNSOps ------------------------------
(***************************************************************************)
(* `viti nn delete` and `viti nn orphans`: who uses a network namespace is *)
(* read in four lists, one after another, that nothing holds together;     *)
(* deletion asks between two such readings, and the audit reads all zones  *)
(* at once.  Clusters, network configurations and address allocations come *)
(* and go meanwhile.                                                       *)
(***************************************************************************)
EXTENDS FleetResolve, Sequences

CONSTANTS
    Claims,     \* what may refer to a namespace
    CRDZones    \* zones that have the IPAllocation resource

\* names: which namespace it names, if that can be read; vlan: which VLAN's
\* interface it has.  What names another namespace has not this one's VLAN.
Claim == [site: Sites, kind: {"kc", "nc", "ip"},
          names: {"this", "other", "none", "unreadable"}, vlan: {"this", "other", "none"}]

ASSUME ClaimsAssumption ==
    /\ CRDZones \subseteq Zones
    /\ Claims \subseteq Claim
    /\ \A c \in Claims :
         /\ c.kind = "ip" => ZoneOf[c.site] \in CRDZones
         /\ c.names = "other" => c.vlan # "this"
         /\ c.names = "unreadable" => c.kind = "ip"   \* the others are read as typed objects

VARIABLES
    claims,     \* those there are
    load,       \* load[z]: the lists read so far of zone z
    target,     \* the object the gates were last evaluated for
    rows,       \* what the audit lists: objects, and whether deletable
    standing,   \* (history) claims that stood all the time since the gates were asked for
    seen        \* (history) claims that stood at any time of an audit

netVars == <<claims, load, target, rows, standing, seen>>
vars == <<fleetVars, netVars>>

NotLoaded == [step |-> 0, nns |-> {}, claims |-> {}]
Lists == <<"nn", "kc", "nc", "ip">>

Init ==
    /\ FleetInit
    /\ claims \in SUBSET Claims
    /\ load = [z \in Zones |-> NotLoaded]
    /\ target = {} /\ rows = {}
    /\ standing = claims /\ seen = IF command = "nn orphans" THEN claims ELSE {}

-----------------------------------------------------------------------------
(***************************************************************************)
(* Evidence: of the claims C on an object.                                 *)
(***************************************************************************)
On(o, k, C) == {c \in C : c.site = o.site /\ c.kind = k}

ReferencingKCs(o, C) == {c \in On(o, "kc", C) : c.names = "this"}

NCRefs(o, C) == {c \in On(o, "nc", C) : c.names = "this" \/ (o.known /\ c.vlan = "this")}

\* Mutant of NCUnevaluated: without a VLAN there is no interface to compare.
NCUnevaluatedIfKnown(o, C) ==
    {c \in On(o, "nc", C) \ NCRefs(o, C) : c.names = "none" /\ o.known /\ c.vlan = "none"}

\* Names no namespace, and no interface rules this one out.
NCUnevaluated(o, C) ==
    {c \in On(o, "nc", C) \ NCRefs(o, C) : c.names = "none" /\ (~o.known \/ c.vlan = "none")}

IPAllocs(o, C) == {c \in On(o, "ip", C) : c.names = "this"}
IPAllocUnevaluated(o, C) == {c \in On(o, "ip", C) : c.names = "unreadable"}

InUse(o, C) == ReferencingKCs(o, C) \cup NCRefs(o, C) \cup IPAllocs(o, C) # {}
Unresolved(o, C) == NCUnevaluated(o, C) \cup IPAllocUnevaluated(o, C) # {}
Blocked(o, C) == InUse(o, C) \/ Unresolved(o, C)

-----------------------------------------------------------------------------
(***************************************************************************)
(* Load: the lists of one zone.                                            *)
(***************************************************************************)
Hit == CHOOSE o \in found : TRUE

\* Mutant of Loading: a zone that failed is read on.
LoadingFailed ==
    IF pc = "audit" THEN connected \ answered
    ELSE IF pc \in {"evidence", "recheck"} THEN {ZoneOf[Hit.site]} ELSE {}

\* The zones being read.
Loading ==
    IF pc = "audit" THEN connected \ (answered \cup unread)
    ELSE IF pc \in {"evidence", "recheck"} THEN {ZoneOf[Hit.site]} ELSE {}

Complete(z) == load[z].step = Len(Lists)

List(z) ==
    /\ z \in Loading /\ ~Complete(z)
    /\ LET kind == Lists[load[z].step + 1]
       IN  load' = [load EXCEPT ![z] =
                      [step   |-> @.step + 1,
                       nns    |-> IF kind = "nn" THEN In({z}) ELSE @.nns,
                       claims |-> @.claims \cup {c \in claims : ZoneOf[c.site] = z /\ c.kind = kind}]]
    /\ answered' = IF pc = "audit" /\ load'[z].step = Len(Lists) THEN answered \cup {z} ELSE answered
    /\ UNCHANGED <<objects, pc, command, scope, connected, unread, found, steady, born, changes,
                   claims, target, rows, standing, seen>>

\* A list that fails: the audit goes on without the zone, a deletion ends.
ListFails(z) ==
    /\ z \in Loading /\ ~Complete(z)
    /\ IF pc = "audit"
       THEN unread' = unread \cup {z} /\ UNCHANGED pc
       ELSE Goto("failed") /\ UNCHANGED unread
    /\ UNCHANGED <<objects, command, scope, connected, answered, found, steady, born, changes, netVars>>

-----------------------------------------------------------------------------
(***************************************************************************)
(* nn orphans.                                                             *)
(***************************************************************************)
tooYoung(o) == o.gen > 0

Orphans(S, C) == {o \in S : ~InUse(o, C)}

\* Mutant of Audited: out of the zones that were connected.
AuditedConnected == answered = connected

\* Every zone asked for was audited.
Audited == answered = scope

\* When all zones have answered or failed: the rows, and the exit code.
AuditSummary ==
    /\ pc = "audit"
    /\ connected = answered \cup unread
    /\ rows' = UNION {{[object |-> o, deletable |-> ~Blocked(o, load[z].claims)] :
                         o \in {p \in Orphans(load[z].nns, load[z].claims) : ~tooYoung(p)}} :
                       z \in answered}
    /\ Goto(IF Audited THEN "complete" ELSE "incomplete")
    /\ UNCHANGED <<objects, zoneVars, steady, born, changes, claims, load, target, standing, seen>>

-----------------------------------------------------------------------------
(***************************************************************************)
(* nn delete.                                                              *)
(***************************************************************************)
Evidence ==
    /\ pc = "resolved" /\ command = "nn delete"
    /\ Goto("evidence")
    /\ UNCHANGED <<objects, zoneVars, steady, born, changes, netVars>>

Loaded == load[ZoneOf[Hit.site]]
Reset == load' = [load EXCEPT ![ZoneOf[Hit.site]] = NotLoaded]

Gates ==
    /\ pc = "evidence" /\ Loaded.step = Len(Lists)
    /\ Goto(IF Blocked(Hit, Loaded.claims) THEN "failed" ELSE "prompt")
    /\ UNCHANGED <<objects, zoneVars, steady, born, changes, netVars>>

\* Mutant of Confirm: what was read before the prompt will do.
ConfirmTrusting ==
    /\ pc = "prompt"
    /\ \/ Goto("recheck") /\ standing' = claims /\ UNCHANGED load
       \/ Goto("failed") /\ UNCHANGED <<load, standing>>
    /\ UNCHANGED <<objects, zoneVars, steady, born, changes, claims, target, rows, seen>>

\* The prompt may have been open for hours; --yes answers at once.
Confirm ==
    /\ pc = "prompt"
    /\ \/ Goto("recheck") /\ standing' = claims /\ Reset
       \/ Goto("failed") /\ UNCHANGED <<load, standing>>
    /\ UNCHANGED <<objects, zoneVars, steady, born, changes, claims, target, rows, seen>>

\* The object of that name is read anew, and may be another one.
recheckGates ==
    /\ pc = "recheck" /\ Loaded.step = Len(Lists)
    /\ target' = {o \in Loaded.nns : o.site = Hit.site}
    /\ Goto(IF target' = {} \/ \E o \in target' : Blocked(o, Loaded.claims)
            THEN "failed" ELSE "delete")
    /\ UNCHANGED <<objects, zoneVars, steady, born, changes, claims, load, rows, standing, seen>>

At(s) == {o \in objects : o.site = s}

\* Mutant of Matches: no precondition.
MatchesName(o, t) == TRUE

\* The precondition on the UID.
Matches(o, t) == Id(o) = Id(t)

\* The request is accepted, refused, or its answer does not come back, and
\* then it was accepted or not.
DeleteAndWait ==
    /\ pc = "delete"
    /\ \E t \in target :
         \/ t.terminating /\ Goto("wait") /\ UNCHANGED objects
         \/ ~t.terminating /\ At(t.site) = {} /\ Goto("gone") /\ UNCHANGED objects
         \/ /\ ~t.terminating
            /\ \E o \in At(t.site) :
                 /\ Matches(o, t)
                 /\ Replace(o, {[o EXCEPT !.terminating = TRUE]})
            /\ pc' \in {"wait", "failed"}
         \/ ~t.terminating /\ Goto("failed") /\ UNCHANGED objects
    /\ UNCHANGED <<zoneVars, steady, born, changes, netVars>>

\* Mutant of Poll: a read that fails has found nothing.
PollLenient ==
    /\ pc = "wait"
    /\ pc' \in {"gone", "failed"}
    /\ UNCHANGED <<objects, zoneVars, steady, born, changes, netVars>>

\* Polls by name, until the deadline.  A read that fails is no absence.
Poll ==
    /\ pc = "wait"
    /\ \/ (\A t \in target : At(t.site) = {}) /\ Goto("gone")
       \/ Goto("failed")
    /\ UNCHANGED <<objects, zoneVars, steady, born, changes, netVars>>

-----------------------------------------------------------------------------
\* Users come and go.
ClaimsChange ==
    /\ Running /\ changes < MaxChanges
    /\ \E c \in Claims :
         claims' = IF c \in claims THEN claims \ {c} ELSE claims \cup {c}
    /\ changes' = changes + 1
    /\ standing' = standing \cap claims'
    /\ seen' = IF command = "nn orphans" THEN seen \cup claims' ELSE seen
    /\ UNCHANGED <<objects, pc, zoneVars, steady, born, load, target, rows>>

Next ==
    \/ FleetNext /\ UNCHANGED netVars
    \/ \E z \in Zones : List(z) \/ ListFails(z)
    \/ AuditSummary
    \/ Evidence \/ Gates \/ Confirm \/ recheckGates \/ DeleteAndWait \/ Poll
    \/ ClaimsChange

Spec == Init /\ [][Next]_vars

-----------------------------------------------------------------------------
TypeOK ==
    /\ objects \subseteq Object
    /\ \A o1, o2 \in objects : o1.site = o2.site => o1 = o2
    /\ pc \in {"start", "list", "resolved", "audit", "evidence", "prompt", "recheck", "delete", "wait"} \cup Ended
    /\ command \in Commands /\ scope \subseteq Zones
    /\ connected \subseteq scope /\ answered \subseteq connected /\ unread \subseteq connected \ answered
    /\ found \subseteq Object /\ target \subseteq Object /\ Cardinality(target) <= 1
    /\ claims \subseteq Claims /\ standing \subseteq claims /\ seen \subseteq Claims
    /\ \A z \in Zones : load[z].step \in 0..Len(Lists) /\ load[z].claims \subseteq Claims

\* Claim c is, or for all anyone can read may be, on the object.
MayClaim(c, o) ==
    /\ c.site = o.site
    /\ \/ c.names \in {"this", "unreadable"}
       \/ c.kind = "nc" /\ (c.vlan = "this" \/ (c.names = "none" /\ c.vlan = "none"))

DeletesOf(o) ==
    pc = "delete" /\ pc' # pc /\ ~o.terminating /\ [o EXCEPT !.terminating = TRUE] \in objects'

(***************************************************************************)
(* The command deletes no network namespace that something claims, or may  *)
(* claim, and has ever since the operator confirmed; and no object it has  *)
(* not evaluated, such as one made anew under the name.                    *)
(***************************************************************************)
DeletesOnlyUnused ==
    [][\A o \in objects : DeletesOf(o) =>
         /\ \A c \in standing : ~MayClaim(c, o)
         /\ Id(o) \in Ids(Loaded.nns)]_vars

\* Success is only reported of an object that is gone, and with it its VLAN
\* and prefixes: the operator holds it until these are released.
GoneMeansGone == pc = "gone" => \A t \in target : Id(t) \notin Ids(objects)

(***************************************************************************)
(* The audit calls nothing deletable that was claimed all along, and one   *)
(* that exits with success has missed no namespace in the zones it was     *)
(* asked for that was old, there all along and never claimed.              *)
(***************************************************************************)
AuditTellsTheTruth ==
    /\ pc \in {"complete", "incomplete"} =>
         \A r \in rows : r.deletable => \A c \in standing : ~MayClaim(c, r.object)
    /\ pc = "complete" =>
         \A id \in steady :
           /\ ZoneOf[id[1]] \in scope /\ id[2] = 0
           /\ \A c \in seen : c.site # id[1]
           => \E r \in rows : Id(r.object) = id /\ r.deletable
=============================================================================
